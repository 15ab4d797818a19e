# MANTIS v4: TLA+ specifications

These modules specify the parts of MANTIS v4 in which something can go wrong
that no test reaches: the append-only records and the programs that write them,
what the operator is shown and told, the decisions that stand twice in the code,
the markets and bars that change while they are read, and the studies that must
not know the future. TLC checks them on small instances, TLAPS proves the
theorems in the `*_proofs` modules for every value of the constants.
`PROJECT.json` names, for every definition, the lines of source it stands for,
and for every property a mutation of the code's model that breaks it.

## The system

MANTIS is a Python program that watches 15-minute binary contracts on a few
crypto assets. It advises; it places no orders. One scanner thread does the
work. Around it run a terminal or a web front end, worker threads for speech
and cues, and SVI, a supervisor that scores what the scanner said.

| Component | State it keeps | Operations | Talks to |
|---|---|---|---|
| JSONL files (`forward/store.py`, and the other stores alike) | one file per stream; the last line may lack its newline | open-append, write, flush, fsync; read | every store |
| Forward store (`forward/store.py`) | eight streams; per stream the identifiers, plus keys of entries and resolutions, first observations, saved selections, all rebuilt at start | `__init__`, `append`, `read`, `has_entry`, `has_resolution`, `unresolved_contracts`, `primary_selection` | called by scanner, engine, reports |
| Forward engine (`forward/engine.py`) | run id, last window | `process`, `resolve` | store, event bus |
| Live scanner (`mantis_v4_live.py: main`) | instant and window of the cycle, the cycle's snapshots, two failure flags | the loop, its handler, the finally block | all of the above, `ui/state.py` |
| Command centre state (`ui/state.py`) | status, assets, operator state; one lock | setters, `snapshot` | written by the scanner, read by renderers and the router |
| Event bus and alert router (`forward/events.py`, `ui/alerts.py`) | last selection announced, rate-limit clocks, armed flag | `handle` | voice, audio |
| Voice and audio (`ui/voice.py`, `ui/audio.py`) | a bounded queue and a worker each, failure counts | `say`/`play`, worker loop, `stop` | speech engine, sound device |
| Web server (`ui/webserver.py`) | event-stream clients with bounded backlogs, sequence number | push loop, subscribe, boot acknowledgement | browser |
| Manual signal mode (`manual_signal/`) | the signal locked for the window, its ledger, telemetry streams | `scan`, `append`, `locked_for_window`, `apply_signal_lock` | Kalshi provider, shadow store, voice |
| Forward shadow collection (`kalshi_forward/`) | shadow streams with identifiers of their tails | `append`, `read`, `resolve_available` | Kalshi provider |
| Policy gates (`selection.py`, `entry/`, `economics/`, `reference/`) | none | pure functions of a snapshot | scanner, manual signals |
| Bar providers (`providers/`) | cache of bars, cooldown per asset, health | `get_bars`, chain lookup | network |
| Kalshi provider (`economics/kalshi.py`) | verified mappings and series, fee verdicts | `discover`, `get_quote`, `verify` | network; manual signals, shadow collection |
| Recorder (`engine.py`, `resolution.py`, `recording.py`) | SQLite rows of contracts and predictions, a CSV copy | `scan`, `resolve_due`, `resolve_previous_windows`, `record_contract` | bar providers, the user's contract file |
| Legacy program (`mantis_15m_resolution_v3.py`) | the locked signal, the trade, the last exit, bars | one loop: scan, lock, fill, watch | network, the user |
| Studies (`backtest/`, `models/`) | a table of bars, then of rows | replay, table, folds, holdout, calibration | files of bars |
| Windows and clock (`contracts.py`, `clock.py`) | none | `for_instant`, `capture` | scanner |
| SVI (`saaf_ventures_intelligence/`) | the evidence file and the identifiers of its events; the last report | `evaluate`, `append`, `operational_report` | called by the manual signal mode's loop, reads the shadow store's resolutions |
| Reports, simulation, terminal panels, older programs and scripts | none that outlives a call | | |

### What is hard about each

- *Files and store.* A crash, a full disk or a failed fsync can stop a write at
  any byte. Indexes in memory are updated after the file, and rebuilt from it.
  Correct: no acknowledged record disappears, none is recorded twice, the store
  can be opened again.
- *Scanner and engine.* Each cycle appends several dependent records, in an
  order a crash can cut anywhere. The handler of a failed append appends
  itself. Correct: one entry and one resolution per contract, a resolution that
  tells what really happened, one announced selection per window, a run that
  ends when it can no longer write, and says so.
- *Router, voice, audio.* Two threads and bounded queues that drop their oldest
  element; the identity of an announcement is remembered before the router
  knows whether it may speak. Correct: no selection spoken twice, none lost
  once the interface is armed.
- *Web server.* Several request threads and a push thread number frames. Correct:
  a client that drops frames still converges to the latest state.
- *Manual signals.* A lock taken in memory before its row is durable, speech
  waiting for the interface while windows go by. Correct: one signal per window,
  also over a restart.
- *Shadow store and telemetry.* Identifiers remembered only for the newest
  rows. Correct: one resolution per observation, one completion per window.
- *Gates.* Orders of checks and defaults for missing numbers. Correct: nothing
  selected that a gate refuses; the rank agrees with the documented order.
- *Providers.* Retry, cooldown and cache overlap; bars are missing, or still
  forming when they are fetched. Correct: what is computed from them is what the
  prices say.
- *Kalshi provider.* A quote is up to six requests, and between any two of them
  the market may open, close early, or the window end. Correct: a quote belongs to
  a market that was open while it was taken; one failure does not outlive itself.
- *Recorder.* The user's file, the proxy and the bars may each come late, change
  or fail; a row is written in several commits. Correct: one reference and rule
  per contract, labels that tell the truth, none open for ever.
- *Legacy program.* Several clock readings in a pass, with downloads between them.
  Correct: what the user was told to enter is watched until its contract ends.
- *SVI.* Evidence is written by one run, read by the next and joined with results
  that come later, in an order that failures change; a decision rests on few
  contracts. Correct: the report is what the files say; no single contract decides.
- *Studies.* Everything is computed over a whole history and read at a position.
  Correct: no row, decision or fold knows what came later.

## The modules

| Module | Stands for | Extends or instantiates |
|---|---|---|
| `JsonlLog` | the bytes of one file: lines, a torn tail, a write that stops short | |
| `ForwardStore` | one stream under an arbitrary caller | `JsonlLog` |
| `ForwardLive` | the scanner, the engine and all eight streams together | `JsonlLog`, `ContractLedger` |
| `ContractLedger` | what the records promise, with no process and no file | |
| `ManualSignal` | the manual signal mode: lock, signal ledger, display, speech | `JsonlLog` |
| `PolicyTelemetry` | the telemetry of the manual policies: observations and completions | `JsonlLog` |
| `VoiceQueue` | the voice: its bounded queue, the threads that fill it, its worker | |
| `ShadowStore` | the forward-shadow collector and its audit | `JsonlLog` |
| `AlertRouter` | what is spoken: scanner, router, request threads that arm it | |
| `WebStream` | frames, clients and the page of the event stream | |
| `Ladder` | the idiom of the gates: the first refusal that holds | |
| `EntryPolicy`, `Economics`, `Selection` | the entry decision and its replay; quotes and their expected values; the selection | each the one before, `Ladder` |
| `KalshiProvider`, `ManualScan` | a quote, request by request; a scan of the manual mode, evaluated under three policies | `ManualScan`: `KalshiProvider`, `Ladder` |
| `MarketBars` | bars as they are fetched and cached, and prices read from them | |
| `ContractRecorder` | the recording program over them | `MarketBars`, `ContractLifecycle` |
| `ContractLifecycle` | what the recorder promises of a contract | |
| `Replay`, `WalkForward`, `Backtest` | a history replayed and tabulated; the division of the table; a market that prints it, with an observer | `Backtest`: the other two |
| `ResolutionV3` | the legacy program: scan, lock, assumed fill, watch | |
| `SVISupervisor` | one evaluation of SVI: specialists, risk, ranking, consensus, the event and its audit | |
| `SVIEvidence` | the evidence file, and its join with verified resolutions, over scans and restarts | `SVISupervisor`, `JsonlLog` |
| `SVIResearch` | the record of the shadow specialist and its admission | |
| `Phases` | the research programs: what each thing they judge was learned and chosen from, and the files they leave | `WalkForward` |
| `KalshiStudies` | the studies of settled contracts, over files that other programs write | |
| `MCFrontEnd`, `MCSelection`, `MCForwardStore`, `MCBacktest`, `MCShadowStore` | `VoiceQueue` and `WebStream` side by side; `Selection` and `ResolutionV3`; `ForwardStore`, `SVIEvidence` and `SVIResearch`; `Backtest` and `Phases`; `ShadowStore` and `KalshiStudies` | those |
| the other `MC...` modules | small values for the constants | |
| `JsonlLog_proofs`, `ForwardStore_proofs`, `ForwardLive_proofs`, `ManualSignal_proofs`, `PolicyTelemetry_proofs`, `ContractRecorder_proofs`, `FrontEnd_proofs`, `ShadowStore_proofs` | theorems; *Proofs* says about which modules | |

### JsonlLog

A file is a sequence of lines and a flag, `torn`, set while the last line has no
newline. A line is a row or `Bad`, text that `json.loads` rejects. `Written` is
a completed write; text that lands on a torn tail spoils that line.
`Interrupted` is the set of files a write may leave when it raises or the
process dies in it: nothing, a fragment, the object without its newline, the
whole line. `RowsOf` and `Malformed` are `read()`: rejected text is dropped
when it is the last line and an error anywhere else.

### ForwardStore

`Open`, `AppendRow`, `AppendError`, `Crash`. Every operation holds the store's
lock from its first read to its last write, so each is one step, and the streams
share nothing, so one stream is enough. The caller is unconstrained. It may
append any row at any time and go on after an exception. The history variables
`acked`, `doubted` and `merged` record which appends returned `True`, which
raised although the row had become whole, and whether a write hit a torn tail.

### ForwardLive

The scanner is sequential, so a program counter orders its steps, and a step
ends where a record becomes durable: that is where a crash splits the work.

| Action | Code (`mantis_v4_live.py` unless named) |
|---|---|
| `Start`, `WriteRun` | `ForwardStore.__init__`, `ForwardEngine._write_run` |
| `BeginCycle`, `Tick` | 394-401; the clock enters the next window |
| `NoData`, `ScanRaises`, `Classify` | what one asset's scan yields, 404-413 |
| `Observe`, `Enter`, `Snapshot` | `ForwardEngine.process`, back to 413-416 |
| `Resolve`, `ResolveFails`, `AssetDone` | 416-423, `ForwardEngine.resolve` |
| `RecordEvent` | `_record_window_event` and `_hold`, 405-412 and 424-430 |
| `Select`, `PersistSelection`, `Announce` | 431-453 |
| `RecordHealth` | 455-465 |
| `IOError` | an append raises `OSError`: 424-430, 457-462, 474 |
| `Interrupt` | Ctrl+C, or the end of a `--once` cycle: 464, 466 |
| `Stop`, `Crash` | the finally block 468-491; the process dies |

Abstractions, and why they lose nothing the properties see:

- Prices, probabilities and ranks become what the loop branches on: whether the
  asset had data, which side qualified, whether it was actionable. Any
  actionable asset may come first in the ranking.
- Time is the index of the 15-minute window. Within a window the loop compares
  no times.
- Fresh uuids cannot collide and are left out of the rows. Identifiers computed
  from content (window events, selections, STOP rows) are those contents.
- `_present`, `_hold`, the router's guard, the economics chain and `get_bars`
  catch their own exceptions, so an `OSError` in the asset loop comes from an
  append. Any other exception is raised before the engine writes.
- The terminal bar of an ended window exists, because bars of the current
  window do.
- A fault is an append that raises or is cut short; `MaxFaults` bounds them.

### ContractLedger

The abstract promise: a contract is observed, entered at most once before it is
settled, settled at most once, after its window and after it was observed; a
window gets one selection, announced at most once and after it was saved.
Nothing is ever revised. `ForwardLive!LedgerSpec` is the refinement: the
ledger's variables are computed from the files on disk (and the emitted
events), never from the scanner's memory, so a crash is a stuttering step. The
promise ends when a write lands on a torn tail (`intact` becomes false).

### ManualSignal

`ManualSignalEngine.scan` and the loop of `_run_kalshi_manual_signals` around it.
Within a scan the order is: enter the window, lock the signal in memory, append
it, show it, queue it for speech. The program counter stops between these, and
the interface may become ready at any point.

| Action | Code (`manual_signal/` unless named) |
|---|---|
| `Start` | `ManualSignalStore.__init__` (`core.py` 338-350), `ManualSignalEngine.__init__` |
| `SameWindow`, `NewWindow` | `live.py` 79-95; `LockedFor` is `locked_for_window` |
| `KeepLock`, `Lock` | `live.py` 96-163; `apply_signal_lock` |
| `SaveSignal`, `SaveCutShort` | `live.py` 180-181, `ManualSignalStore.append` |
| `Publish`, `Speak` | `mantis_v4_live.py` 553-582 |
| `Arm`, `Leave`, `Tick` | the browser is ready; any exception, Ctrl+C or `--once`; the clock |

A signal is its own identifier, because `signal_id` hashes the contract (which
names asset and window) and the side; all records are of one policy version,
since the mode opens its ledger with one. The evaluation of candidates is the
choice of any signal of the window, or none. An exception that is not caught
inside the scan leaves the loop, so a failed append ends the process. The shadow
store, the policy telemetry and SVI, which the same scan calls, share no state
with the lock, and appear as the exceptions they may raise (`Leave`). The
diagnostic mode, which saves and speaks nothing, is left out. `ready` may stay
false for ever: that is the case of a browser that never finishes its boot
sequence or a front end that is switched off.

### PolicyTelemetry

`PolicyTelemetryStore`, called twice by every scan of the manual mode. First
`complete_before` writes, for every observed window that is over and every
policy, one completion (`BeginScan`, `Complete`); later `append_scan` writes what
each policy saw of each asset (`Evaluate`, `Observe`). One action is one synced
row, in the order of the loops (`IsNext`), so a crash can fall between any two;
`CompleteCutShort` and `ObserveCutShort` are the appends that break off.

`log` is every completion that this process read or made. The code keeps the
newest 4096 of it in a deque; `Remembered` is that part. A start reads back the
completions, and from the newest observations the windows seen and the first
signal in each (`LoadObserved`, `LoadFirst`). Assets and policies are numbers, in
the order the code visits them. Left out: the gates of a row, the counters of
blocking gates, and the repetition test of observations, whose identifiers hold
the instant of the scan and never repeat.

### VoiceQueue

`VoiceEngine` of `ui/voice.py`, with every access to the queue a step of its own:
`say` tries to put, takes the oldest line out, tries again; `stop` sets the flag,
then offers its marker. The scanner's thread makes all calls but one: the web
server's thread says "MANTIS online." when the browser is ready, at most once
(`AlertRouter.arm`, called from `_start_web`). A line gets its number as it enters
the queue. The order in which the lines of one caller enter is the order of its
calls, so the numbers tell all that is said about order.

| Action | Code (`ui/voice.py`) |
|---|---|
| `Say`, `Put`, `Evict`, `PutAgain` | `say`, 108-123, between the operations of the queue |
| `StopFlag`, `StopMarker` | `stop`, 125-131; its wait for the worker times out and changes nothing |
| `Loop`, `Get` | `_run`, 146-152; an empty queue sends the worker round again |
| `Spoke`, `SpeakerRaised` | 153-162; a synthesis that hangs raises after 20 seconds |

`AudioEngine` has the same queue and worker and one caller. Text, sanitising and
the copies kept for diagnostics are left out.

### AlertRouter

| Action | Code (`ui/alerts.py` unless named) |
|---|---|
| `Start`, `Stop` | `AlertRouter.__init__`, 60-90; the loop of `mantis_v4_live.py` ends |
| `BeginScan`, `AssetScanned`, `AssetHeld` | the cycle's reset and its assets, `mantis_v4_live.py` 394-430 |
| `Select`, `Record`, `Announce` | 431-453 there; `AnnouncePrimary` is what `handle` does with the event |
| `LoadPage`, `PostReady` | the page begins its boot and acknowledges it (`ui/webserver.py`) |
| `TestReady`, `Arm`, `SayOnline` | `mark_presentation_ready` and `arm`, step by step for each request thread |

The identity of a selection is remembered before the router tests whether it is
live, whether the final validation agrees and whether the throttle allows it;
`muted` (history) keeps those it had a reason not to speak. The scan loop is
reduced to its selections, because `ForwardLive` has it in full.

### WebStream

`payload()` is two steps, `Copy` (of the state) and `Number`; the push thread, the
request that loads the page, and the request thread of each connection run it at
once. `Push` appends to every backlog, `Shed` drops the oldest frame of a full one.
`Register`, `Prime`, `Drain`, `FindBroken` and `Unregister` are the life of a
request thread; `Connect`, `Receive` and `Break` those of the page's connection.
State is the number of writes to it, so "newer" has a meaning.

### ShadowStore

Each scan resolves what is due (`Scan`, `Resolve`, `NoResult`, `ResolveFails`),
then writes an observation and a candidate per asset. Memory is bounded in the
code: `Limit` is both the identifiers that refuse a duplicate and the rows
`resolve_available` reads. `AppendFails` and `Crash` break an append off;
`Swallowed` is the same with an exception that the loop catches. The audit is
the program's own (`audit_store`). The streams `runs` and `provider_health` are
written alike and read back by nothing; they are left out.

### EntryPolicy, Economics, Selection

Pure functions, over a small machine that only brings scans: one contract's
scans come with less and less time left (`Process`), a policy is in force, and
each asset has a latest snapshot (`ScanFirst`, `ScanOther`). `Decide` is the ladder
of `entry/decision.py`; `Replay` is `apply_policy_once`, whose vectorised
conjunction is a second copy of it. `DecideWithEconomics` is the refusals that
follow, `Assess` their expected values, `Evaluate` and `Rank` the selection,
which computes the margins again. Probabilities and money are whole cents.

### KalshiProvider, ManualScan

A quote is a sequence of requests, `step` being the one under way: `Ask`, the
replies (`SeriesReply`, `MarketsReply`, `MarketReply`, `EventReply`, `StatusReply`,
`BookReply`, `Quoted`), and `Raises` or `Ambiguous` at any of them. Between two,
the exchange lists, opens or closes the market (`Opens`, `Closes`) and the clock
ticks. A retry inside the HTTP client is part of its request. `ManualScan` asks
for each asset's quote in turn (`AskQuote`, `Fetch`), takes the model's snapshot
(`Snapshot`, `NoSnapshot`), verifies the fee once for the life of the process
(`VerifyFee`, `FeeFails`), and evaluates every asset under V2, V2.1 and V2.2 with
the numbers of the code (`Select`). `Escape` is an error of the connection that is
no `KalshiError`. `ManualSignal` takes the chosen signal as given and follows its
record; this module is the reverse. Fields of the objects that are verified and
the wording of verdicts are left out.

### MarketBars, ContractRecorder, ContractLifecycle

`GetBars` is the cache with its fall-back to the longer period, its bound and its
cooldown; a download brings any of the bars of its period, the last one forming,
or fails after its retries. `Terminal` and `Settle` read a price and a label.
The recorder's steps end at a commit: `Boot`, `Scan`, `Lookup`, `Resolve`, `GiveUp`,
`Mirror` (the CSV copy), `Settled`, `Observe`, `Predict`, `Interrupt`, `Crash`; the
user edits the file (`Edit`) while a scan waits for the network.
`ContractRecorder!LifecycleSpec` is the refinement: a contract is opened once, ends
once, after its window, and stays as it ended. Its state is computed from the rows.

### ResolutionV3

One pass of the loop of `mantis_15m_resolution_v3.py: main` is `Top` (the reset at a
new contract), a `Scan` per ticker (download, cache and analysis), one of the
branches, and `Wake`. The branches are `Hold` (no data), `Cancel`, `Fill` and `Wait` for
a locked signal, `Exit` and `Ride` for a trade, `Idle` and `Lock` otherwise. A download,
an alert or a sleep takes some ticks, and the code reads the clock on either side
of it; so a contract may end inside a pass. Time is relative (a tick of the
window, the window modulo 3, ages that stop at a bound), and the loop runs for
ever over finitely many states. `user` (history) is the trade the user was told
to enter and not told to leave. A reading is a side and a distance from the
anchor; the normal distribution is a table at the distances in use. Prices,
stops, targets and the peak move decide no branch; the two ledgers, whose
failures are swallowed, and the displays are left out.

### Replay, WalkForward, Backtest

`Replay` has what a replay and a row of the modelling table read: the bars
`Visible` at a scan, the reference, indicators (as the rows each one reads), the
panel of the other assets, the path inside the window, and the decisions of two
strategies until one does not wait. `WalkForward` divides: `PurgedWalkForward`
counts contracts, `GroupedWalkForward` counts windows, `Holdout` and `Calibration`
take the latest windows, `Pools` is what fits, calibrates and tests. `Backtest`
runs both: `Elapse` prints half a minute of a market, and an observer keeps what
the same code makes of the bars at that moment (`lived`); `Study` runs the
programs over the history. The arithmetic of indicators, estimators and calibrators
is left out, and so is the V3 strategy, which needs 5-minute bars of a library.
A history is studied at whole minutes, because it does not change in between.

### Phases

`mantis_v4_phase4.py`, `_phase5.py` and `_phase6.py`, one run after another, each on
the table of its day (`Start`), each of which may end at any step (`End`). `Steps` is
the order of a program; a step adds to `scores` what it judged, with the rows whose
outcomes it learned (`learned`), the rows it saw the values of (`seen`) and those whose
outcomes it was chosen by (`chosenBy`), and to `fitted` what it fits or chooses for later,
the features kept from the whole table among it (`Columns`). Phase 4 walks forward (`WalkModels`), compares in pairs
(`Pair`), ablates, chooses the model and fits the final one (`Final`); phase 5 builds
pools on the first block (`BuildPools`, `FitBlock`), draws paths and compares
channels; phase 6 selects a policy per family on the last development windows
(`SelectPolicies`) and scores it on the holdout, with scales of fragility that are the
medians of the rows it scores; `SaveSummary6` recommends the family that was most
accurate there (`Qualified`, `ByTheHoldout`). The `Save...` actions write files in the
order of the code, and where a summary or a report cannot be computed their guards stop
a run between two of them. A row is a window, an
asset and the few fields that decide where it is pooled; what a model predicts is
left out, and who beats whom is any outcome.

### KalshiStudies

Steps 4 to 8 under `scripts/`. A study reads the list of contracts (`ReadContracts`,
`SaveList`) and the cached chunks of history (`ReadHistory`, `Download`, which other
programs do beside it), splits the contracts by time, and then replays a policy
(step 4), fits, freezes and opens the holdout (step 5: `Choose`, `SaveModel`,
`HashData`, `SaveManifest`, `OpenHoldout`), compares the frozen model (step 6: `Verify`,
`Compare`), measures the gaps of the reference (step 7) or bounds them (step 8). Every
file is written in place, so what a writer leaves when it dies (`CutShort`, `Torn`)
is read by the next program. As in `Phases`, a score says what it was learned from,
chosen by and judged on; probabilities and intervals are left out.

### SVISupervisor, SVIEvidence, SVIResearch

`Evaluation` is `MarketSupervisor.evaluate` as a function from the rows of a
selection, and the specialists that raise, to the payload of the event: what each
specialist makes of the rows, the risk engine's reasons, the ranks of the advisory
candidates, and a summary of the ones allowed. `EventErrors` is the audit's reading
of it. `SVIEvidence` puts that into the loop of the manual mode: `Start`, `Scan` (the
store resolves contracts that ended; an append that broke off leaves a row the count
does not know), `Evaluate` or one of its failures (`EvaluateRaises`, `Dies`), `Report`
(the join, made again only when the count differs), `Sleep` and `Leave`. `made`
(history) is every event that reached the file. `SVIResearch` takes the join as given,
a sequence of cases, and computes the comparison with the benchmark and the
decision of the admission policy. Its scores are whole numbers: squares of tenths,
and logarithmic losses in tenths, where the code has floats; the tests against
zero are exact.

## The runs

| Run | Instance | Question |
|---|---|---|
| `forward_store` | store: 3 identifiers, 2 keys, 4 lines; SVI: 1 asset, 3 kinds of scan, 4 scans, 2 windows, 2 runs, 1 fault; its research: 3 assets, 6 cases of 6 kinds | Does what was acknowledged survive crashes, short writes and failed fsyncs? Does the report of SVI show what is on file, and the evidence pass its audit? Can one contract put a specialist forward? |
| `forward_live_one` | 1 asset, 2 sides, 2 windows, 3 cycles, 2 runs, 1 fault | Are entries and resolutions unique and true, over restarts? Does memory agree with disk? Does the scanner implement the ledger? |
| `forward_live_two` | 2 assets, 1 side, 1 window, 2 cycles, 2 runs, 1 fault | Is what is announced and shown what is saved, and never replaced? Does a failed append end the scan and the run? |
| `manual_signal` | 2 assets, 3 windows, 3 runs, 1 fault, 1 identifier kept | Is what is spoken saved, spoken at most once, and at last? Do the window counts agree with the ledger? |
| `policy_telemetry` | 2 assets, 2 policies, 3 windows, 3 scans, 2 runs, 1 fault, 1 identifier kept, 6 rows read back | Is each expired window completed, with the signal its observations show, though a start reads only the newest of them? |
| `selection` | selector: 2 assets, 22 scans and 14 quotes at and next to the limits, 2 policies, 2 scans of a contract; legacy program: 2 tickers, 8 readings, windows of 6 ticks without end | Does the replay of the policy enter where the engine does? Did what is selected pass every gate of three modules, and is it the best? Does the legacy program watch the trade it told the user to enter, and end every trade? |
| `shadow_store` | collector: 1 asset, 5 seconds of windows of 2, 2 identifiers kept, 2 runs, 1 fault; studies: 2 assets, 10 windows in 2 chunks, 2 listings, 2 candidates, 3 studies | Does the program's own audit pass, with a memory shorter than the files? Does every candidate have its observation? Does what a study judges on its holdout owe nothing to it, however files of different days mix? |
| `alert_router` | 1 asset, 2 request threads, 2 windows of 2 ticks, 2 runs | Is a selection spoken once per window, in time, and never swallowed by a throttle, however the router is armed? |
| `front_end` | voice: queue of 2, 5 lines, 2 callers, 2 failures; stream: 2 connections, room for 1, backlog of 1 | Is what is queued served, and does a stop end the worker? Does the page show the newest frame it was handed, and find a connection again? |
| `manual_scan` | 2 assets, 2 windows of 2 ticks, books and snapshots at the limits of the policies, 1 request that fails | Is a quote of a market that was open? Does one outage end? |
| `contract_recorder` | 2 to 3 windows of 2 minutes, a path that crosses the reference, 2 user records, 1 edit, 1 fault | Do labels say what prices, reference and rule give? Does every contract end once, and none stay open? |
| `backtest` | market: 2 assets, 10 minutes, windows of 2 bars, 2 moving bars, 1 missing bar, 2 folds; programs: 5 tables of 3 or 8 windows of 2 assets, 3 folds, 2 runs | Could every replayed decision and every row have been made when it claims to? Do the folds, the holdout and the calibration follow one another? Did what is judged come after all outcomes it learned, and do only the named exceptions rest on the rows held out? Does no file tell of another that is not on disk? |

*Bounds.* Four lines hold a merged line, a line after it and two duplicates.
Two windows are needed for a contract to end and be resolved; three cycles let a
second run repeat what the first did and one more follow; two runs allow one
restart at every possible point. One fault is enough for every finding; more
faults only end more runs. Two assets compete for a selection; their scans are
independent otherwise, so sides and windows are kept small in that run.

In `manual_signal` three windows and three runs let two signals be saved before
a restart, and a memory of one identifier (256 in the code) makes the pruning in
`append` and in `__init__` happen; a signal of the same asset and the other side
differs from one of another asset in name only, so one side is enough.
In `policy_telemetry` the memory of completions holds one, so that windows are completed
again as they are in the code after two weeks, and a start reads back six observations of
up to twelve, so that it may find a window cut in two and another one not at all. In the code it reads 4096 rows, 341 scans; at
the default pace of one scan in five seconds a window has 180. Below about 2.7
seconds of `scan_interval_seconds` a window has more rows than are read back, and a
restart late in it can miss its first signal: that is the exception (`Fits`) in
`CompletionsTellTheTruth`.

In `selection` every scan is a good one, or differs from it in one respect and
lies at or just beyond the limit; three times left (601, 300 and 30 seconds) are
on both sides of the time gates. The legacy program
has a reading for every confidence that some branch tells apart (below 68, to 70,
to 80, to 82 and above, in percent), a pause of one tick and downloads of up to one,
so that any part of a pass can cross the end of a window. In `shadow_store` a memory of two rows is shorter
than the rows of one window, which is what the bound of the code means over days.
`AuditPasses` is claimed where `ScannedOften` holds: the rows read around an observation
are those of at most as many resolved contracts as the memory keeps identifiers.
Where it is false, resolutions can push another out of the memory while its
observation is still among the newest, and the contract is resolved twice. Two
observations of every contract would be enough for one asset and are not for
three, whose rows interleave. The audit needs also that one scan of all assets
fits the memory, or the scan repeated in the same second would not know its own
rows. The code keeps 4096 rows for six assets and a window has hundreds of rows,
so both hold by a wide margin; for other constants the property can fail.
In `alert_router` a window of two ticks has an entry zone and one
tick before it, and the gate is longer than one page's boot.

In `front_end` a queue of two lets a line be shed, the other caller take the room
that made, and the marker be evicted; five lines fill it twice and leave one in
the worker's hand. A backlog of one frame sheds at the second push, and room for
one client makes the second connection wait for the first to be found dead. The
two parts share no state, so a behaviour moves one of them; the run has the
disjoint union of their states instead of the product. `forward_store`, `selection`,
`shadow_store` and `backtest` are composed in the same way.

For SVI two windows of two ticks let a contract end and be resolved while the next
one is forecast; four scans are what it takes to tear a line, write on it, write
again, and read a file that no longer opens. Six cases are two of each of three
assets, the least a specialist can be put forward with when an asset needs two
(a minimum of 4 in all, for 30 in the code).

In `manual_scan` two ticks to a window let each request fall before or after a
change of the market and the end of a window; a quote older than one tick is
stale. The first asset's model and book are at the limits of the three policies,
where a stricter one could pass and a wider one fail. In `contract_recorder`
three minutes more than a window let grace, tolerance, cooldown and attempts end
inside the run. In `backtest` a window of two bars has four scans, on and between
minutes; one missing bar falls on a reference, a terminal price, an indicator or the
panel; ten minutes make windows for a holdout, a test, a calibration and a fit. The
tables of `Phases` are one that no block can be cut from, one in which few rows are
sure, and three in which time left, volatility or the asset decides the pool of
a row; two runs let one program's files meet those of an earlier run. In
`KalshiStudies` ten windows give a holdout of two, the fewest with an interval; three
studies are step 4, which writes the list, step 5, which writes the model, and a
step that reads both, with a download between any two steps.

Deadlock is not checked: at the bounds the process is simply over.

*Symmetry* is used in `forward_store`, where identifiers and keys are merely
compared, and in `alert_router`, where the request threads are alike; no liveness
is checked there.

*Fairness.* `ForwardLive!FairSpec` is weak fairness of `Step`, the scanner's own progress.
The thread is never blocked for ever by anything in the model: appends return or
raise, network calls have timeouts, and sleeps end. Nothing forces the clock,
faults, a crash or Ctrl+C to happen. Under it `ErrorStopsTheRun` shows that a run
in which an append raised does reach its end. `ManualSignal!FairSpec` is weak
fairness of the scan's steps, for the same reasons; nothing forces the browser
to become ready, so `SavedIsSpoken` starts from the moment it is.
`VoiceQueue!FairSpec` is weak fairness of the worker and of a call of `say` that has
begun. Both are threads that block on nothing but a wait with a timeout, and the
speech process is killed after 20 seconds. Nothing forces a call or a stop, nor the
marker of a stop: the flag alone has to end the worker.
`WebStream!FairSpec` lets every thread of the server go on and the page read what
arrives and connect again (the browser's EventSource does); nothing forces the
state to change or a connection to break. `ManualScan!FairScanSpec` is weak fairness of
the scan: a request is answered or times out. Requests that fail are not forced,
and `RecoversFromOutage` speaks of a market that stays open while the process
lives. `ContractRecorder!Fairness` also lets the clock tick and the program be
started again after a crash, by whoever runs it: `NothingIsForgotten` is a promise
about a program that is used. `ResolutionV3!Spec` is weak fairness of the one loop,
which blocks on nothing but sleeps; a download returns or raises (the library has
a time-out of its own). `LocksEnd` needs the clock only as far as sleeps take time.

## Findings

`PROJECT.json` quotes the sentence each finding contradicts. Where a property is
named, its module states the promise and no run lists it: naming it in a copy of
the run's configuration makes TLC print the behaviour.

| What the code does | Promise, and where it is stated |
|---|---|
| An append writes behind whatever the file ends with: after a crash the next row is merged into the fragment and lost, and one more row makes `read()` raise in every later start | `TruncatedTailRecoverable` (`ForwardLive`, one asset) |
| When the handler's own append fails, or that of the selection, the STOP row and the console say that the records are safe | `StopReportsTheError` (`ForwardLive`) |
| The reset at a rollover carries no operator state: the previous selection stays | `RolloverClearsSelection` (`ForwardLive`, two windows) |
| A saved signal that waits for the interface is spoken after its window | `SpeechIsCurrent` (`ManualSignal`) |
| Identifiers of completions are kept for the newest 4096, the windows for ever: after two weeks old windows are completed again in every scan | `CompletedOnce` (`PolicyTelemetry`, `Cap = 2`); what does hold is `RepeatsAreFar` |
| The failures that disable the voice need not be consecutive | none: the count has no other use |
| The gate against speech during the boot counts from the start of the program, not of the page | `BootIsQuiet` (`AlertRouter`) |
| The documented default of that gate is not the one in the code | none |
| A frame overtaken between its copy and its number replaces a newer one on the page | `ShownNeverGoesBack` (`WebStream`) |
| A fragility, disagreement or crossing of exactly zero is ranked worst | none: `Risk` (`Selection`) is the formula |
| The selection charges the schedule's fee whatever the quote's own fee is | none: `Rated` (`Selection`) |
| The shadow store, too, appends to an unfinished line | `merged` guards `AuditPasses` (`ShadowStore`) |
| `unresolved` counts candidates, of which a contract has one per second scanned | none |
| A label may be read from a bar that was still forming | `ClosesAreComplete` (`ContractRecorder`) |
| After its retries the provider asks again at once, and a success leaves the cooldown | none: `GetBars` (`MarketBars`) |
| The age of a quote is asked of an instant before the quote: a signal may rest on a quote of any age | `NoSignalOnAnOldQuote` (`ManualScan`) |
| One failed request for the fee's metadata keeps the asset unverified for the life of the process | none: `FeeFails` (`ManualScan`) |
| A connection reset while an answer is read ends the program | none: `Escape` (`ManualScan`) |
| The blocks of the replay's folds may begin inside a window | `SameWindowMovesTogether` (`Backtest`) |
| A label may be read from a bar inside the test block that follows, and the purge does not see it | `LabelsKnownBeforeTest` (`Backtest`) |
| The calibrator is chosen on the windows it was fitted on: the block is halved by row | `CalibratorHalvesApart` (`Backtest`) |
| Which features are used depends on how often they are missing in the holdout | `FeaturesIgnoreTheHoldout` (`Backtest`); `OfTheFeatures` names what rests on it (`Phases`) |
| The legacy program watches the side of the newest signal, not of the one it told the user to enter | `SideIsKept` (`ResolutionV3`) |
| Its reset at a new contract drops a locked signal with no alert, one of the new contract too when the pass that locked it began in the old one | none: `Top`, and `late` in `TradeIsWatched` (`ResolutionV3`) |
| The evidence of the supervisor has no contract for an asset without a market, and its own audit fails on that | none: `EvidencePasses` (`SVIEvidence`) makes the exception |
| The supervisor's event file, too, is appended to on an unfinished line, and is then abandoned | `merged` guards `EvidencePasses` (`SVIEvidence`) |
| The simulated paths draw from the moves of the whole history, the holdout's days included | `SimulatePaths`; `JudgedByTheFuture` leaves these scores out (`Phases`) |
| Phase 6 recommends the family that did best on the rows held out | `HoldoutIsUntouched` (`Phases`) |
| Which validation rows step 5 enters on depends on how fragile rows of the holdout are | none: `Entering` is a constant (`KalshiStudies`) |
| Step 7 puts the entries of the holdout to a gap learned from all contracts | `Measure`; `HoldoutStaysSealed` leaves this score out (`KalshiStudies`) |
| Step 5 hashes its data after the fit, so the hash may be of files the model has not seen | the mutant `AnySplits` of `HoldoutStaysSealed` (`KalshiStudies`) |
| A chunk of history cut short by a crash is never asked for again | none: `Download`, `ToFetch` (`KalshiStudies`) |

`AckedReadable` and the theorems `Durability` and `Openable` say that a write to a
torn tail is the only way to lose a row of the forward store. `TrainsOnThePast`
says what the folds do keep apart, in spite of the findings about them.

The signal ledger is stricter than the forward store: it refuses to open on an
unfinished last line too. A crash inside an append can thus keep the mode from
starting. No document promises the contrary, so this is a guard of `Start`
and no finding.

## Proofs

Theorems hold for every value of the constants that satisfies the assumptions
named below, and for behaviours of any length within the bounds.

| Module | About | Proved | Also in a run |
|---|---|---|---|
| `ForwardStore_proofs` | `ForwardStore` | types, `IndexAgreesWithDisk`, `DuplicatesNeedARetry`, `MalformedNeedsAMerge`, `RowsStay` | `AckedReadable` |
| | `SVIEvidence`, `SVIResearch` | | `ReportIsCurrent`, `EvidencePasses`, `NoCaseDecides` |
| | `Backtest`, `Phases` | | `AsLived`, `TrainsOnThePast`, `JudgedByTheFuture`, `ReportedIsSaved` |
| `ForwardLive_proofs` | `ForwardLive` | types, `NoScanAfterAnError`, `SelectionIsStable`, `OneResolutionPerContract`, `EntriesWereObserved` | `OneEntryPerContract`, `MemoryAgreesWithDisk`, `ResolutionsTellTheTruth`, `AnnouncedOncePerWindow`, `PersistedDisplayIsOnDisk`, and the refinement `LedgerSpec` |
| `ManualSignal_proofs` | `ManualSignal` | types, `OneSignalPerWindow`, `ShownIsSaved`, `SignalIsStable` | `SpokenOnceAndSaved`, `FrequencyMatchesLedger` |
| | `ManualScan` | | `QuoteIsOfAnOpenMarket` |
| `PolicyTelemetry_proofs` | `PolicyTelemetry` | types, `RepeatsAreFar` | `CompletionsTellTheTruth`, `ExpiredAreCompleted` |
| `ContractRecorder_proofs` | `ContractRecorder` | types | `OneSpecification`, `LabelsTellTheTruth`, `MirrorAgrees`, and the refinement `LifecycleSpec` |
| | `EntryPolicy`, `Selection` | | `ReplayAgreesWithEngine`, `SelectedIsSound` |
| | `ResolutionV3` | | `TradeIsWatched` |
| `FrontEnd_proofs` | `VoiceQueue` | types, `SpokenInOrder`, `StopIsPrompt`, `OldestIsShed`, `EachLineInOnePlace` | |
| | `WebStream` | | `NewestFrameIsShown` |
| | `AlertRouter` | types | `PrimarySpokenOnceInTime`; if the throttle is no longer than a window: `LivePrimaryIsSpoken` |
| `ShadowStore_proofs` | `ShadowStore` | | `CandidatesHaveObservations`; if a scan fits the memory: `AuditPasses` |
| | `KalshiStudies` | | `HoldoutStaysSealed` |

With these, every invariant that a run checks, and both refinements, are theorems; what
the runs check besides is liveness.

A run keeps a proved property where it shows that the instance reaches what the
theorem is about. The other ones, and each inductive invariant, were checked by
TLC on the run's instance before they were proved.

*Assumptions.* They are those of the modules, and TLC evaluates them in every run.
Bounds are natural numbers, and lengths of time are not zero. The assets of an `AssetSeq`
are a sequence, in `ForwardLive` and `Selection` of distinct assets. A marker (`NONE`, `None`,
`Nothing`, `STOP`) is none of the values it stands beside. `Bad`, the text that is no JSON
object, is no row of the file in question. In `ContractRecorder` a record of the user's file
is a window, a reference and a rule (`RecordAssumption`). What `EntryPolicy` and `Selection`
decide about are any scans, quotes and policies of their types, not only those of the run
(`ScansAssumption`, `QuotesAssumption`): probabilities are percents, money whole cents.
`ResolutionV3!Bounds` says that one pass with all its downloads is shorter than a window,
`SplitConstants` that there are two folds at least, `PassesAreReal` that a candidate without
a side has no book, `StudyConstants` that step 5 does not split below five windows and that
the lists are finite sets. The code fixes all of these. Two theorems have a hypothesis
on the constants besides. It is not an assumption of the module: the code does not enforce
it.

- `LivePrimaryIsSpoken`: `Interval <= Slots`, 30 seconds against 15 minutes by default.
- `AuditPasses`: `Limit = 0 \/ Cardinality(Assets) <= Limit` (`Room`), the memory has room for one scan
  of all assets: 4096 rows against 6 assets. `ScannedOften` is not such a hypothesis but a part
  of the property, since it is about a history; see the bounds of `shadow_store`.

*ForwardStore.* The invariant adds to the properties: a torn file has a line; the
indexes never exceed the file; a `Bad` line at the end of an unmerged file is a torn
one. The last part is what `MalformedNeedsAMerge` needs: a malformed interior line must
have been a fragment that something was written after.

*ForwardLive, first part.* One entry per contract is not inductive: the engine asks
an index in memory. The invariant `IInv` therefore relates the index to the file.
`EntryIndex`: while the process scans, every entry on disk is in `entered`,
except after an append of this run raised. `Control`: at the entry's append the
contract is not in `entered`, and after an error the process is nowhere where it
could write an entry (`Stopped`). `ErrorsStop`: a run with an error has left the
scan, or is in the handler that will leave it. Each step is shown to write at
most one line, that of the append in flight (`NextWrites`), so the argument
looks at two cases, the entry's append and all the others.

*ForwardLive, second part.* `LInv` is about runs in which no write was merged into a
torn line. `CycleInv` says what each place in the program knows of the cycle: what is
about to be resolved is over and unresolved, what is about to be saved has no
selection yet. `SelectionsAgree` says that the selections in memory are those on disk
even after an append raised, when the other indexes may lag behind: the append that
raises is the one that would have told the index. `LoopInStep` orders the loop, an
entry after its observation, a resolution after its window; `PublishedInStep` says
that what is about to be announced was not. `CleanStep` and its corollary `RecordsStep`
say what each stream may become in one step, in terms of the helpers that read it
(`KeysIn`, `EntrySide`, `SavedSelection`), and the parts are proved from that. The
refinement maps the ledger's variables to these helpers; once a write has merged, the
ledger only stutters.

*ManualSignal.* The identifiers kept in memory are not what makes the ledger free of
repetitions: they are pruned. What does is order. `LedgerInOrder` says that windows
increase along the file and none is ahead of the clock, so `locked_for_window` may look
at the newest record only; `MemoryInStep` says that the newest record in memory is
the last line; `LockInStep`, that a window without a saved signal is later than
every window of the file. An append then extends the order (`LedgerGrows`), and
`OneSignalPerWindow` follows from it. A spoken signal is in the file and so of an
earlier window than the one being saved: that is why nothing is spoken twice.
The order rests on a wall clock that does not go back. The counts agree with the
ledger (`FrequencyMatchesLedger`) because a window is counted by its lock when it is
left, and a lock stands for a line of the ledger except inside the append
(`LockedHasSignal`); a line added later is of a window not yet left (`CountInStep`).

*PolicyTelemetry.* The memory of completions forgets, so a completion may be made twice.
`MemoryCovers` is the strengthening for `RepeatsAreFar`: every completion on disk has its
entry in the log, and that entry is at most as far from the end of the log as the line is
from the end of the file, or one further, after a write onto a torn tail. A pair that is
due and was evicted has `Cap` entries after it (`EvictedIsFar`), so the line it repeats is
that far back (`DueIsFar`). The content of completions has an invariant of its own, `CInv`,
which holds for a tail of any length. `RowsInOrder`: observations lie in the order of their
windows. `EarlierDone`: a window before the latest with an observation has all its
completions, since `ExpiredAreCompleted` held when a row of a later one was written. So of
the rows that a start does not read only those of the latest window may still matter, and
these are the last of the file: the newest row is always read (`LastIsRead`), and when the
window has no more rows than a start reads, all are (`LatestIsRead`). `MemoryKnows` says
what the process then has: the latest window among the observed, its first signals, and no
signal that is not on disk. `CompletionsAreOld` and `ScanInTime` say that a completion and
an observation written later are never of the same window: a first signal cannot change
under a completion already made. `VisitInStep`: an observed window that is over is
completed or still on the list of the scan.

*VoiceQueue.* `Ordered` relates the queue, the line in the worker's hand and the lines
spoken: each is newer than the next, and the number still to be given is newer than
all. One lemma for each thing that happens to a queue (a line or a marker enters, the
head leaves, the line in hand is spoken) shows that `Ordered` stays; the actions then
cite them. `RoomForHands` keeps the callers between the steps of `say` within the bound
on lines. `LateInStep` says why a stop is prompt: a line begun after the flag is the
last, for the worker looks at the flag before it gets another. `EachLineInOnePlace`
adds that every step moves one line, and that by `Ordered` the head is not behind itself
(`HeadLeaves`).

*AlertRouter.* `Recording` follows a selection from the scan that made it to its
announcement: it is of the window of that scan, made in the entry zone, was not in the
store before, and no selection of its window has been spoken. `BoughtIsStored` and
`SaidInTime` bind what was spoken to the store, which only `Record` writes. No invariant
mentions a request thread: `NextSays` shows that whatever those threads do, no
selection is spoken but by the scanner. For the throttle `VoicedInZone` says that the voice
last announced a selection of an asset in the entry zone of a window already
bought. The zone ends with the window, so two zones lie a window apart (`ZonesApart`),
and the throttle is due (`ThrottleIsDue`). A tick of the zone stands for the minutes in
which a selection may be made; in the code the distance is a window less that zone.

*WebStream.* A frame handed to a connection is shown, or one at least as new is on its way
(`NothingNewerIsLost`, `OnItsWay`): in the backlog of the connection or on the wire. A full
backlog sheds its oldest frame. That loses nothing new: only the push thread fills a backlog, and
it numbers upwards (`PushedUpwards`), so the frame it then adds is as new as any.

*ContractRecorder.* A row is settled once because the queue of due contracts repeats
none and names open rows only (`QueueInv`), although it is computed once and worked off
over many steps with crashes between. `EndsInv`: a contract ends after its window and
its grace, and never one that the scan goes on to observe, so an ended row is not
written again (`ObservedIsOpen`). `LabelInv` and `SourceInv` hold row by row:
`RowsStep` shows that a step ends one row, observes one, or leaves all. `CopyInv` says that a
row about to be copied is not in the copy. For the refinement `ClockStep` shows that a
minute ends at most one window, so that a tick of the recorder is one step of
`ContractLifecycle` or none.

*EntryPolicy, Selection.* `EntryInv`: the recorded entry is the first scan that enters. The
replay's conjunction and the engine's ladder are shown to refuse the same scans, one refusal
at a time, for every scan and policy of the types; then both take the first that is left.
`SnapInv`: a snapshot is what a scan, a quote and the policy give. A snapshot that is selected
has come through both ladders and the selection's own gates, and the margin the selection
computes again is the one that was refused below the threshold.

*ResolutionV3.* `TradeIsKept` holds because a pass is short. `PassIsShort` bounds the time since the
top of the pass by the downloads so far, so at most one window ends inside it;
`SignalsAreFresh` says that until that happens the signals are of the contract of the pass. A
signal of an earlier contract, locked in a pass that saw the end, is marked `late` and left out
of the property; the next `Top` resets it.

*ManualScan.* A quote is a sequence of answers, between which the exchange may close the market.
`BookIsOfAnOpenMarket`: when the book is asked for, the market was open at some moment of the
scan (`WasOpen`), if the scan's window is still the one under way (`WindowGoesOn`);
`AnswerIsOfAnOpenMarket` carries that over to the scan, whose context is of the asset it is at
(`ProviderInStep`).

*ShadowStore.* `KnownIsOnDisk` and `ObservedFirst`: the identifiers in memory are of rows on disk,
and a scan that comes to a candidate has its observation there. Hence `CandidatesHaveObservations`
without any condition on the memory. The audit is harder, because the memory forgets.
`StreamIsSound` says that a file has no row twice and that its newest rows are in memory, where
newest means that fewer than `Limit` readable lines follow (`Recent`). A point that is not
remembered is new to the file: the lines after it would be of the same instant and of other
assets, and those are fewer than `Limit` (`HereIsNew`). For a resolution there is no such order.
`NotFarBefore` gives one: of two resolutions the later is of an observation at most `Limit` lines
before those of the earlier. If a contract that is due had a forgotten resolution, the `Limit`
resolutions after it would all be of observations within `Limit` lines of its own, before or
behind, and with it one too many for `ScannedOften` (`DueIsNew`).

*KalshiStudies.* `FittedHere` says what the model of step 5 has learned at each place of the program,
`VouchedFor` that the model step 6 holds is that of the manifest it read, `ManifestIsSealed` that what a
manifest's model learned came before the holdout the manifest describes. Step 6 splits a list of
another day, but goes on only if the splits are reproduced, so the two holdouts begin
at one window (`CompareKeeps`). `ScoresAreSealed` then holds score by score. Windows of a split
rise because the positions of `Listed` do, which is proved by counting.

*SVIEvidence.* `FileIsMade`: until two lines merge, the file is the events made, perhaps with a torn
rest. A scan's forecasts are of windows not over when it begins, and what is resolved is
(`ResolvedHadEnded`); so a line that is added speaks of no resolved contract, and the report that was
kept because no resolution was new is the one that would be made (`ReportIsKept`).

*SVIResearch.* `NoCaseDecides` is arithmetic: if one value alone is as large as the sum of all,
the deviation from the mean is too large for the bound that `LowerPositive` asks for. Sums are
over a record of any length. `Total` is a recursive function, and `Carried` and `StepsToEnd` are
the induction along it, from the least place at which it would fail; `TotalWithout` says what
is left of a sum without one value, and `NoValueDecides` that this is positive.

*Backtest.* `LivedIsSeen`: what the observer keeps of a scan is what the programs derive from the
frames at that instant. A frame that grows agrees with the former one on the bars a scan may
read (`Grown`, `Agree`), and each operator of `Replay` is shown to read no other. For the folds,
`TrainsOnThePast` follows from the windows of the blocks, which rise.

*Phases.* `RowsApart` says of every score that the rows whose outcomes it learned come before
those it is judged on, and before held-out rows also those it was chosen by; and of what is
fitted or chosen that it rests on development rows only. `JudgedByTheFuture` names the
exceptions, each for a dependence the code has and the model keeps: simulated paths and the
agreement are judged on rows whose moves were drawn from (`Exempt`); what the summary of
phase 6 recommends is chosen by the outcomes held out (`OfTheHoldout`); the features of
phase 4, and what is chosen and fitted with them, rest on how often values are missing in the
holdout (`OfTheFeatures`). The scales of fragility are values of the rows they judge (`seen`),
which only matters where rows are held out. Each step adds scores of one
shape, and one lemma for each shape shows where its rows lie in the split. `WrittenSoFar`: at each
place in a program, the files of the steps before it are of the run under way, so that
the summary tells of files that are there.

*Helpers.* `JsonlLog_proofs` has what a write and an interrupted write leave of a file, and
two facts on least and greatest positions, from which follows what
`CHOOSE i \in I : \A j \in I : i <= j` returns. They need well-founded induction
over the numbers, which the library has as a theorem without an operator parameter.

*Only model-checked.*

- Liveness (`ErrorStopsTheRun`, `SavedIsSpoken`, `StopEndsTheWorker`, `QueuedIsServed`,
  `PageReconnects`, `RecoversFromOutage`, `LocksEnd`, `NothingIsForgotten`): fairness and `ENABLED`
  are beyond the prover.
- The findings, which are counterexamples.

## Plan

Every module of the plan is written: the stores and the programs over them (`JsonlLog`,
`ForwardStore`, `ForwardLive`, `ManualSignal`, `PolicyTelemetry`, `ShadowStore`,
`ContractRecorder`), the threads (`VoiceQueue`, `AlertRouter`, `WebStream`), the decisions
(`EntryPolicy`, `Economics`, `Selection`, `KalshiProvider`, `ManualScan`, `ResolutionV3`), SVI,
and the programs that study a history. Every invariant of the runs is proved. Two things are
not.

1. `CountsMatchTheFile` (`PolicyTelemetry`), which no run lists: its proof needs the
   size of the file counted row by row.
2. The liveness properties stay with TLC.

## Not modelled

- *Of SVI* the platform manifest, the replay of the evidence, and the folds and bins of
  its reports, which are sums over the cases; a clock that steps back, after which the
  replay refuses the file.
- *Settlement references* (`reference/`) collect trades of an external index; of
  them `ManualScan` has the interval around the distance, and its verdict, and
  `KalshiStudies` what the studies of steps 7 and 8 learn their bounds from.
- *Simulation, indicators, estimators, calibrators and statistics* are arithmetic
  on floating-point numbers. Of the studies and the research programs the modules
  have which data each step reads, which is what can silently be wrong.
- *Reports of phase 11* are tables over finished streams. *Panels, themes and
  the content of a frame* are layout.
- *The v4 runner's console and the scripts that probe an endpoint or draw a logo*
  are one-shot programs. Of the v3 program the ledgers, the speech and the
  screens are left out.
- *The network and the exchange* are outside the program: an action takes any
  answer they may give.
