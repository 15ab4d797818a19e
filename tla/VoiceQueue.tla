------------------------------ MODULE VoiceQueue ------------------------------
(***************************************************************************)
(* VoiceEngine (mantis_v4/ui/voice.py): callers put lines into a bounded   *)
(* queue that sheds its oldest one, a worker thread speaks them, and stop  *)
(* asks the worker to end.  AudioEngine (ui/audio.py) plays cues through   *)
(* the same queue and worker.                                              *)
(*                                                                         *)
(* say() is not atomic: it tries to put, removes the oldest line, and      *)
(* tries again, and between these the worker and the other caller move.    *)
(* The scanner's thread says what the alert router or the manual signal    *)
(* mode hands it, and calls stop at its end; the web server's thread says  *)
(* one line, "MANTIS online.", when the browser is ready (AlertRouter.arm).*)
(* A line is numbered when it enters the queue.                            *)
(***************************************************************************)
EXTENDS Naturals, Sequences, SequencesExt

CONSTANTS
  NONE,         \* no line
  STOP,         \* the stop marker
  Cap,          \* MAX_PENDING
  MaxFailures,  \* MAX_FAILURES
  MaxLines      \* bound: lines that enter the queue

Lines   == 1 .. MaxLines
Callers == {"scanner", "web"}

ASSUME BoundAssumption == {Cap, MaxFailures, MaxLines} \subseteq Nat \ {0}
ASSUME MarkerAssumption == NONE \notin Lines /\ STOP \notin Lines /\ NONE # STOP

VARIABLES
  queue,      \* _queue
  pc,         \* where each caller is in say(), the scanner also in stop()
  next,       \* the number of the next line to enter the queue
  stop,       \* _stop
  worker,     \* where the worker is
  text,       \* the line the worker has in hand
  failures,   \* _failures
  available   \* _available

\* History, read by properties only.
VARIABLES
  shed,       \* lines evicted
  failed,     \* lines the speaker raised on
  spoken,     \* lines spoken, in order
  late        \* lines whose speaking began after stop was set

calls   == <<pc, next>>
working == <<worker, text, failures, available, failed, spoken, late>>
vars == <<queue, calls, stop, working, shed>>

Init ==
  /\ queue = <<>>
  /\ pc = [c \in Callers |-> "idle"]
  /\ next = 1 /\ stop = FALSE
  /\ worker = "loop" /\ text = NONE /\ failures = 0 /\ available = TRUE
  /\ shed = {} /\ failed = {} /\ spoken = <<>> /\ late = 0

Goto(c, where) == pc' = [pc EXCEPT ![c] = where]

\* say() returns; the web server's thread has nothing more to say.
Return(c) == Goto(c, IF c = "web" THEN "over" ELSE "idle")

\* A caller's line enters the queue.
Enqueue == queue' = Append(queue, next) /\ next' = next + 1

-----------------------------------------------------------------------------
\* say(): a voice that gave up refuses at once.  (Both callers may be here.)
Say(c) ==
  /\ pc[c] = "idle" /\ next < MaxLines
  /\ IF available THEN Goto(c, "put") ELSE Return(c)
  /\ UNCHANGED <<queue, next, stop, working, shed>>

\* put_nowait: the line is in the queue, or the queue is full.
Put(c) ==
  /\ pc[c] = "put"
  /\ IF Len(queue) < Cap
       THEN Enqueue /\ Return(c)
       ELSE Goto(c, "full") /\ UNCHANGED <<queue, next>>
  /\ UNCHANGED <<stop, working, shed>>

\* Mutant of Evict: the newest line makes room.
EvictNewest(c) ==
  /\ pc[c] = "full" /\ queue # <<>>
  /\ queue' = Front(queue)
  /\ shed' = shed \cup ({Last(queue)} \ {STOP})
  /\ Goto(c, "again")
  /\ UNCHANGED <<next, stop, working>>

\* get_nowait: the oldest line makes room, unless the worker has taken them all.
Evict(c) ==
  /\ pc[c] = "full"
  /\ IF queue = <<>>
       THEN Return(c) /\ UNCHANGED <<queue, shed>>
       ELSE /\ queue' = Tail(queue)
            /\ shed' = shed \cup ({Head(queue)} \ {STOP})
            /\ Goto(c, "again")
  /\ UNCHANGED <<next, stop, working>>

\* Mutant of PutAgain: there must be room by now.
PutAgainUnchecked(c) ==
  /\ pc[c] = "again"
  /\ Enqueue
  /\ Return(c)
  /\ UNCHANGED <<stop, working, shed>>

\* The second put_nowait; the other caller may have taken the room.
PutAgain(c) ==
  /\ pc[c] = "again"
  /\ IF Len(queue) < Cap THEN Enqueue ELSE UNCHANGED <<queue, next>>
  /\ Return(c)
  /\ UNCHANGED <<stop, working, shed>>

\* stop(), by the scanner's thread: the flag, then the marker if there is room;
\* it then waits for the worker, for a second at most.
StopFlag ==
  /\ pc["scanner"] = "idle"
  /\ stop' = TRUE
  /\ Goto("scanner", "marker")
  /\ UNCHANGED <<queue, next, working, shed>>

StopMarker ==
  /\ pc["scanner"] = "marker"
  /\ queue' = IF Len(queue) < Cap THEN Append(queue, STOP) ELSE queue
  /\ Goto("scanner", "over")
  /\ UNCHANGED <<next, stop, working, shed>>

-----------------------------------------------------------------------------
\* Mutant of Loop: only the marker ends the worker.
LoopUnchecked ==
  /\ worker = "loop"
  /\ worker' = "get"
  /\ UNCHANGED <<queue, calls, stop, text, failures, available, shed,
                 failed, spoken, late>>

\* The head of the worker's loop.
Loop ==
  /\ worker = "loop"
  /\ worker' = IF stop THEN "over" ELSE "get"
  /\ UNCHANGED <<queue, calls, stop, text, failures, available, shed,
                 failed, spoken, late>>

\* Mutant of Get: the line stays in the queue while it is spoken.
GetKeeps ==
  /\ worker = "get"
  /\ \/ queue = <<>> /\ worker' = "loop" /\ UNCHANGED <<text, late>>
     \/ /\ queue # <<>>
        /\ IF Head(queue) = STOP
             THEN worker' = "over" /\ UNCHANGED <<text, late>>
             ELSE /\ worker' = "speak" /\ text' = Head(queue)
                  /\ late' = IF stop THEN late + 1 ELSE late
  /\ UNCHANGED <<queue, calls, stop, failures, available, shed,
                 failed, spoken>>

\* _queue.get: nothing within a quarter of a second, the marker, or a line.
Get ==
  /\ worker = "get"
  /\ \/ queue = <<>> /\ worker' = "loop" /\ UNCHANGED <<queue, text, late>>
     \/ /\ queue # <<>>
        /\ queue' = Tail(queue)
        /\ IF Head(queue) = STOP
             THEN worker' = "over" /\ UNCHANGED <<text, late>>
             ELSE /\ worker' = "speak" /\ text' = Head(queue)
                  /\ late' = IF stop THEN late + 1 ELSE late
  /\ UNCHANGED <<calls, stop, failures, available, shed, failed, spoken>>

\* The speaker returned.
Spoke ==
  /\ worker = "speak"
  /\ worker' = "loop" /\ text' = NONE
  /\ spoken' = Append(spoken, text)
  /\ UNCHANGED <<queue, calls, stop, failures, available, shed, failed,
                 late>>

\* Mutant of SpeakerRaised: the line is tried again behind the others.
SpeakerRetries ==
  /\ worker = "speak"
  /\ worker' = "loop" /\ text' = NONE
  /\ failures' = failures + 1
  /\ available' = (available /\ failures' < MaxFailures)
  /\ queue' = IF Len(queue) < Cap THEN Append(queue, text) ELSE queue
  /\ failed' = IF Len(queue) < Cap THEN failed ELSE failed \cup {text}
  /\ UNCHANGED <<calls, stop, shed, spoken, late>>

\* Mutant of SpeakerRaised: the exception ends the worker.
SpeakerKills ==
  /\ worker = "speak"
  /\ worker' = "over" /\ text' = NONE
  /\ failed' = failed \cup {text}
  /\ UNCHANGED <<queue, calls, stop, failures, available, shed, spoken, late>>

\* The speaker raised, or timed out; too many failures disable the voice.
SpeakerRaised ==
  /\ worker = "speak"
  /\ worker' = "loop" /\ text' = NONE
  /\ failures' = failures + 1
  /\ available' = (available /\ failures' < MaxFailures)
  /\ failed' = failed \cup {text}
  /\ UNCHANGED <<queue, calls, stop, shed, spoken, late>>

Work == Loop \/ Get \/ Spoke \/ SpeakerRaised

Call(c) == Put(c) \/ Evict(c) \/ PutAgain(c)

Next ==
  \/ \E c \in Callers : Say(c) \/ Call(c)
  \/ StopFlag \/ StopMarker
  \/ Work

Spec == Init /\ [][Next]_vars

\* Threads run; the speaker returns or times out.
FairSpec == Spec /\ WF_vars(Work) /\ \A c \in Callers : WF_vars(Call(c))

-----------------------------------------------------------------------------
InQueue == Range(queue) \ {STOP}

\* Types: in particular the queue never exceeds its limit (queue.Queue(maxsize)).
TypeOK ==
  /\ queue \in Seq(Lines \cup {STOP}) /\ Len(queue) <= Cap
  /\ pc \in [Callers -> {"idle", "put", "full", "again", "marker", "over"}]
  /\ next \in 1 .. MaxLines + 1
  /\ stop \in BOOLEAN /\ worker \in {"loop", "get", "speak", "over"}
  /\ text \in Lines \cup {NONE} /\ failures \in Nat /\ available \in BOOLEAN
  /\ {shed, failed} \subseteq SUBSET Lines
  /\ spoken \in Seq(Lines) /\ late \in Nat

\* A line that entered the queue is in one place ever after: queued, in the
\* worker's hand, spoken, failed or shed (say, _run).
EachLineInOnePlace ==
  LET places == <<InQueue, {text} \ {NONE}, Range(spoken), failed, shed>>
  IN  /\ 1 .. next - 1 = UNION Range(places)
      /\ \A j, k \in DOMAIN places : j # k => places[j] \cap places[k] = {}

\* Lines are spoken in the order they were queued, each at most once, whatever
\* was shed or failed in between (say, _run).
SpokenInOrder == \A i, j \in DOMAIN spoken : i < j => spoken[i] < spoken[j]

\* A line is shed only in favour of newer ones: every line still queued is newer
\* (say: get_nowait takes the oldest).
OldestIsShed == [][\A l \in shed' \ shed : \A m \in InQueue' : m > l]_vars

\* Once stop is set, the worker begins at most one more line (_run).
StopIsPrompt == late <= 1

\* The worker ends once stop is set, also when the marker did not fit or was
\* evicted by a later line (stop, _run).
StopEndsTheWorker == stop ~> worker = "over"

\* A queued line is spoken, fails or is shed, unless stop was called: no failure
\* of the speaker leaves lines waiting for ever (_run).
QueuedIsServed ==
  \A l \in Lines :
    l \in InQueue ~> (stop \/ l \in failed \cup shed \cup Range(spoken))

=============================================================================
