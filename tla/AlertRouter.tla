------------------------------ MODULE AlertRouter ------------------------------
(***************************************************************************)
(* What the operator of mantis_v4_live.py hears: AlertRouter               *)
(* (mantis_v4/ui/alerts.py) between the scanner, which writes the operator *)
(* state and emits events on its own thread, and the web server, whose     *)
(* request threads arm the router when a browser has finished its boot     *)
(* sequence.                                                               *)
(*                                                                         *)
(* Time is counted in ticks, Slots to a window, the last one the entry     *)
(* zone.  Events are abstracted to the line they would speak: entries and  *)
(* waits never reach this bus, and tones pass the same two tests as        *)
(* speech, so both are left out.  The scan loop is the one ForwardLive     *)
(* models record by record; here it keeps its selections only.             *)
(***************************************************************************)
EXTENDS Naturals, Sequences

CONSTANTS
  AssetSeq,   \* cfg.active_assets, in scan order
  Requests,   \* request threads of the server that acknowledge READY
  Nothing,    \* no selection, no page
  Gate,       \* startup_alert_suppression_seconds, in ticks
  Boot,       \* boot_duration, in ticks
  Interval,   \* voice_min_interval_seconds, in ticks
  Slots,      \* ticks in a window
  MaxTime,    \* bound: ticks the clock passes through
  MaxRuns     \* bound: process starts

Assets    == {AssetSeq[i] : i \in DOMAIN AssetSeq}
Times     == 0 .. MaxTime
Window(t) == t \div Slots
Windows   == {Window(t) : t \in Times}
InEntryZone(t) == t % Slots = Slots - 1

\* The router starts with a gate of at least the boot and a second.
ASSUME GateAssumption == {Gate, Boot, Interval} \subseteq Nat /\ Gate > Boot
ASSUME ClockAssumption == Slots \in Nat \ {0} /\ {MaxTime, MaxRuns} \subseteq Nat

Selections == [win : Windows, asset : Assets]

ASSUME AssetAssumption == AssetSeq \in Seq(Assets)
ASSUME NothingAssumption == Nothing \notin Selections \cup Times

Speech ==
  [kind : {"online"}] \cup [kind : {"primary"}, sel : Selections, at : Times]
  \cup [kind : {"notice"}, asset : Assets, at : Times]

VARIABLES
  now,        \* the clock
  run,        \* process starts
  began,      \* when the router of this process was built
  scan,       \* where the scanner is
  at,         \* index of the asset being scanned
  inst,       \* the instant this scan captured
  seen,       \* cycle_snapshots is not empty
  pick,       \* the selection being recorded
  stored,     \* [window -> selection]: primary_selections.jsonl
  op,         \* operator state: its primary selection and persisted
  armed,      \* _armed
  online,     \* _online_announced
  last,       \* _last_primary_selection
  voiced,     \* _last_voice
  serving,    \* the web server runs
  page,       \* when a browser page first began its boot
  isReady,    \* presentation_ready
  req         \* where each request thread is

\* History, read by properties only.
VARIABLES
  said,       \* lines handed to the voice in this run, in order
  bought,     \* selections spoken, in all runs, in order
  muted       \* selections of this run whose announcement was suppressed:
              \* the router was not live, or the window was over

clock   == <<now, run, began>>
scanner == <<scan, at, inst, seen, pick, stored>>
router  == <<armed, online, last, voiced>>
web     == <<serving, page, isReady, req>>
heard   == <<said, bought, muted>>
routerVars == <<clock, scanner, op, router, web, heard>>

NoSelection == [sel |-> Nothing, persisted |-> FALSE]

\* A process starts with a router of its own and nothing shown; the
\* terminal front end, or a server that failed, arms it at once.
Fresh(web_) ==
  /\ scan' = "idle" /\ at' = 1 /\ inst' = now /\ seen' = FALSE /\ pick' = Nothing
  /\ op' = NoSelection /\ began' = now
  /\ armed' = ~web_ /\ online' = ~web_
  /\ last' = Nothing /\ voiced' = [k \in {"primary", "notice"} \X Assets |-> Nothing]
  /\ serving' = web_ /\ page' = Nothing /\ isReady' = FALSE
  /\ req' = [r \in Requests |-> "absent"]
  /\ said' = IF web_ THEN <<>> ELSE <<[kind |-> "online"]>>
  /\ muted' = {}

RouterInit ==
  /\ now = 0 /\ run = 0 /\ began = 0
  /\ scan = "down" /\ at = 1 /\ inst = 0 /\ seen = FALSE /\ pick = Nothing
  /\ stored = [w \in Windows |-> Nothing]
  /\ op = NoSelection /\ armed = FALSE /\ online = FALSE /\ last = Nothing
  /\ voiced = [k \in {"primary", "notice"} \X Assets |-> Nothing]
  /\ serving = FALSE /\ page = Nothing /\ isReady = FALSE
  /\ req = [r \in Requests |-> "absent"]
  /\ said = <<>> /\ bought = <<>> /\ muted = {}

\* The first start, or a restart after the process ended at any point.
Start ==
  /\ run < MaxRuns
  /\ run' = run + 1
  /\ \E web_ \in BOOLEAN : Fresh(web_)
  /\ UNCHANGED <<now, stored, bought>>

-----------------------------------------------------------------------------
\* Speech is live once armed, or once the gate has expired.
Live == armed \/ now - began >= Gate

\* _allow: one line per key in an interval.
Allowed(key) == voiced[key] = Nothing \/ now - voiced[key] >= Interval

\* A line goes to the voice if the router is live and its key is due.
Speak(key, line) ==
  IF Live /\ Allowed(key)
    THEN said' = Append(said, line) /\ voiced' = [voiced EXCEPT ![key] = now]
    ELSE UNCHANGED <<said, voiced>>

\* Mutant of ActionablePrimary: the end of the window is not looked at.
ActionablePrimaryEver(sel) == op.persisted /\ op.sel = sel

\* _actionable_primary: what is announced is the selection the operator state
\* shows as persisted, and its window is not over.
ActionablePrimary(sel) ==
  op.persisted /\ op.sel = sel /\ Window(now) <= sel.win

\* Mutant of AnnouncePrimary: one voice key for all lines of an asset.
AnnouncePrimaryOneKey(sel) ==
  IF ~ActionablePrimary(sel)
    THEN /\ muted' = muted \cup {sel}
         /\ UNCHANGED <<said, voiced, last, bought>>
    ELSE /\ last' = sel
         /\ Speak(<<"notice", sel.asset>>, [kind |-> "primary", sel |-> sel, at |-> now])
         /\ muted' = IF Live THEN muted ELSE muted \cup {sel}
         /\ bought' = IF said' # said THEN Append(bought, sel) ELSE bought

\* handle(PRIMARY_SELECTION): the identity is remembered whether or not the
\* line is spoken.
AnnouncePrimary(sel) ==
  IF ~ActionablePrimary(sel)
    THEN /\ muted' = muted \cup {sel}
         /\ UNCHANGED <<said, voiced, last, bought>>
    ELSE IF last = sel
      THEN UNCHANGED heard /\ UNCHANGED <<voiced, last>>
      ELSE /\ last' = sel
           /\ Speak(<<"primary", sel.asset>>, [kind |-> "primary", sel |-> sel, at |-> now])
           /\ muted' = IF Live THEN muted ELSE muted \cup {sel}
           /\ bought' = IF said' # said THEN Append(bought, sel) ELSE bought

-----------------------------------------------------------------------------
\* The scanner's thread.  A new window clears the selection but not the
\* operator state.
BeginScan ==
  /\ scan = "idle"
  /\ scan' = "assets" /\ at' = 1 /\ inst' = now /\ seen' = FALSE
  /\ UNCHANGED <<clock, pick, stored, op, router, web, heard>>

Scanning == scan = "assets" /\ at <= Len(AssetSeq)

\* The asset was evaluated; a resolution of it may have been announced.
AssetScanned ==
  /\ Scanning
  /\ seen' = TRUE /\ at' = at + 1
  /\ \/ UNCHANGED <<said, voiced>>
     \/ Speak(<<"notice", AssetSeq[at]>>,
              [kind |-> "notice", asset |-> AssetSeq[at], at |-> now])
  /\ UNCHANGED <<clock, scan, inst, pick, stored, op, armed, online, last, web,
                 bought, muted>>

\* No data: mark_no_data replaces the operator state, and the hold is
\* announced.
AssetHeld ==
  /\ Scanning
  /\ at' = at + 1
  /\ op' = NoSelection
  /\ Speak(<<"notice", AssetSeq[at]>>,
           [kind |-> "notice", asset |-> AssetSeq[at], at |-> now])
  /\ UNCHANGED <<clock, scan, inst, seen, pick, stored, armed, online, last, web,
                 bought, muted>>

\* select_primary, or the selection of this window found in the store; the
\* operator state shows it as persisted only in the second case.
Select ==
  /\ scan = "assets" /\ at > Len(AssetSeq)
  /\ LET w == Window(inst)
     IN  IF stored[w] # Nothing
           THEN /\ op' = [sel |-> stored[w], persisted |-> TRUE]
                /\ scan' = "idle" /\ pick' = Nothing
           ELSE \E s \in {Nothing} \cup {s \in Selections : s.win = w} :
                  /\ s # Nothing => seen /\ InEntryZone(inst)
                  /\ op' = IF seen THEN [sel |-> s, persisted |-> FALSE] ELSE op
                  /\ scan' = IF s = Nothing THEN "idle" ELSE "record"
                  /\ pick' = s
  /\ UNCHANGED <<clock, at, inst, seen, stored, router, web, heard>>

\* The selection is appended to the store; only then shown as persisted.
Record ==
  /\ scan = "record"
  /\ stored' = [stored EXCEPT ![pick.win] = pick]
  /\ op' = [sel |-> pick, persisted |-> TRUE]
  /\ scan' = "announce"
  /\ UNCHANGED <<clock, at, inst, seen, pick, router, web, heard>>

Announce ==
  /\ scan = "announce"
  /\ AnnouncePrimary(pick)
  /\ scan' = "idle"
  /\ UNCHANGED <<clock, at, inst, seen, pick, stored, op, armed, online, web>>

\* The scanner leaves its loop, or the process dies: nothing more is said.
Stop ==
  /\ scan \notin {"down", "stopped"}
  /\ scan' = "stopped"
  /\ UNCHANGED <<clock, at, inst, seen, pick, stored, op, router, web, heard>>

Scanner ==
  BeginScan \/ AssetScanned \/ AssetHeld \/ Select \/ Record \/ Announce \/ Stop

-----------------------------------------------------------------------------
\* A browser loads the page, some time after the server started, and begins
\* its boot sequence.  A page loaded again acknowledges READY again.
LoadPage ==
  /\ serving /\ page = Nothing
  /\ page' = now
  /\ UNCHANGED <<clock, scanner, op, router, serving, isReady, req, heard>>

\* The boot is over and the page acknowledges READY on a request thread.
PostReady(r) ==
  /\ page # Nothing /\ now - page >= Boot
  /\ req[r] = "absent"
  /\ req' = [req EXCEPT ![r] = "test"]
  /\ UNCHANGED <<clock, scanner, op, router, serving, page, isReady, heard>>

\* mark_presentation_ready tests the event and sets it in two steps.
TestReady(r) ==
  /\ req[r] = "test"
  /\ req' = [req EXCEPT ![r] = IF isReady THEN "done" ELSE "arm"]
  /\ UNCHANGED <<clock, scanner, op, router, serving, page, isReady, heard>>

\* arm(), under the router's lock: the first caller announces.
Arm(r) ==
  /\ req[r] = "arm"
  /\ isReady' = TRUE /\ armed' = TRUE /\ online' = TRUE
  /\ req' = [req EXCEPT ![r] = IF online THEN "done" ELSE "online"]
  /\ UNCHANGED <<clock, scanner, op, last, voiced, serving, page, heard>>

\* ... after the lock is released.
SayOnline(r) ==
  /\ req[r] = "online"
  /\ said' = Append(said, [kind |-> "online"])
  /\ req' = [req EXCEPT ![r] = "done"]
  /\ UNCHANGED <<clock, scanner, op, router, serving, page, isReady, bought, muted>>

WebThreads ==
  \/ LoadPage
  \/ \E r \in Requests : PostReady(r) \/ TestReady(r) \/ Arm(r) \/ SayOnline(r)

Tick ==
  /\ now < MaxTime /\ now' = now + 1
  /\ UNCHANGED <<run, began, scanner, op, router, web, heard>>

RouterNext == Start \/ Scanner \/ WebThreads \/ Tick

RouterSpec == RouterInit /\ [][RouterNext]_routerVars

-----------------------------------------------------------------------------
\* A BUY is spoken at most once per window over all runs, while its window is
\* open, and names the selection on disk (handle, _actionable_primary, main).
PrimarySpokenOnceInTime ==
  /\ \A i, j \in DOMAIN bought : i # j => bought[i].win # bought[j].win
  /\ \A i \in DOMAIN said : said[i].kind = "primary" =>
       stored[said[i].sel.win] = said[i].sel /\ Window(said[i].at) = said[i].sel.win

\* No throttle swallows a BUY: unless the router was not live yet or the window
\* was over, what this run recorded and announced was spoken (_allow).
LivePrimaryIsSpoken ==
  scan = "idle" /\ last # Nothing =>
    last \in muted \/ \E i \in DOMAIN said :
                         said[i].kind = "primary" /\ said[i].sel = last

\* PHASE9_OPERATOR_GUIDE: asset names and entry sides cannot interrupt the
\* startup soundtrack; speech is gated during the boot.
BootIsQuiet ==
  [][\A l \in Speech : said' = Append(said, l) /\ l.kind # "online" /\ page # Nothing
       => now - page >= Boot]_routerVars

=============================================================================
