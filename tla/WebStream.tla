------------------------------- MODULE WebStream -------------------------------
(***************************************************************************)
(* The event stream of the command centre: CommandCenterServer and its     *)
(* clients (mantis_v4/ui/webserver.py), and the page that applies what it  *)
(* receives (web/app.js).                                                  *)
(*                                                                         *)
(* The push thread and every request thread build frames with payload():   *)
(* a copy of the state, then a number.                                     *)
(* The push thread appends its frame to the backlog of each registered     *)
(* client; a client's own request thread writes a first frame and then     *)
(* what it drains.  The page drops a frame whose number is not above the   *)
(* last one it applied.  State is abstracted to the number of writes to    *)
(* CommandCenterState.                                                     *)
(***************************************************************************)
EXTENDS Naturals, Sequences, FiniteSets

CONSTANTS
  Conns,        \* connections the page opens, one after the other
  NONE,         \* no connection
  Cap,          \* MAX_CLIENT_BACKLOG
  MaxClients,   \* MAX_SSE_CLIENTS
  MaxVersion,   \* bound: writes to the state
  MaxSequence   \* bound: no push once so many frames are built

\* Frames are built by the push thread, by the request that loads the page and
\* by the request thread of each connection.
Threads == {"push", "load"} \cup Conns
Frames  == [version : 0 .. MaxVersion, number : Nat]

\* What the constants have to satisfy; MCFrontEnd assumes it.
Bounds == {Cap, MaxClients, MaxVersion, MaxSequence} \subseteq Nat \ {0}
ThreadsDiffer == NONE \notin Threads /\ {"push", "load"} \cap Conns = {}

VARIABLES
  version,    \* writes to CommandCenterState
  sequence,   \* _sequence
  step,       \* where each thread is in payload()
  frame,      \* the frame it is building
  conn,       \* [Conns -> where its request thread is]
  clients,    \* _clients
  backlog,    \* [Conns -> _Client.frames]
  wire,       \* [Conns -> frames written and not yet read]
  current,    \* the connection the page listens to
  shown       \* the last frame the page applied: its snapshot, lastSequence

\* History, read by properties only.
VARIABLE sent \* [Conns -> frames handed to the connection]

building == <<step, frame, sequence>>
streams  == <<conn, clients, backlog, wire, sent>>
page     == <<current, shown>>
vars == <<version, building, streams, page>>

Init ==
  /\ version = 0 /\ sequence = 0
  /\ step = [t \in Threads |-> "idle"]
  /\ frame = [t \in Threads |-> [version |-> 0, number |-> 0]]
  /\ conn = [c \in Conns |-> "closed"] /\ clients = {}
  /\ backlog = [c \in Conns |-> <<>>] /\ wire = [c \in Conns |-> <<>>]
  /\ current = NONE /\ shown = [version |-> 0, number |-> 0]
  /\ sent = [c \in Conns |-> {}]

\* The scanner writes the state.
Write ==
  /\ version < MaxVersion /\ version' = version + 1
  /\ UNCHANGED <<building, streams, page>>

-----------------------------------------------------------------------------
\* Who builds a frame: the push thread while somebody listens, the page's first
\* request, and a request thread that has registered.
Wanted(t) ==
  CASE t = "push" -> clients # {} /\ sequence < MaxSequence
    [] t = "load" -> shown.number = 0
    [] OTHER      -> conn[t] = "prime"

\* payload(): the snapshot is copied under the state's lock,
Copy(t) ==
  /\ step[t] = "idle" /\ Wanted(t)
  /\ step' = [step EXCEPT ![t] = "number"]
  /\ frame' = [frame EXCEPT ![t].version = version]
  /\ UNCHANGED <<version, sequence, streams, page>>

\* and only then numbered.  No lock is held, but the interpreter does not
\* switch threads inside "_sequence += 1" and the reading back.
Number(t) ==
  /\ step[t] = "number"
  /\ sequence' = sequence + 1
  /\ frame' = [frame EXCEPT ![t].number = sequence + 1]
  /\ step' = [step EXCEPT ![t] = "ready"]
  /\ UNCHANGED <<version, streams, page>>

Finished(t) == step[t] = "ready" /\ step' = [step EXCEPT ![t] = "idle"]

\* Mutant of Shed: the newest frames are dropped.
ShedNewest(frames) ==
  IF Len(frames) > Cap THEN SubSeq(frames, 1, Cap) ELSE frames

\* push(): the oldest frames beyond the cap are dropped.
Shed(frames) ==
  IF Len(frames) > Cap
    THEN SubSeq(frames, Len(frames) - Cap + 1, Len(frames)) ELSE frames

\* _push_loop hands its frame to every client registered by now.
Push ==
  /\ Finished("push")
  /\ backlog' = [c \in Conns |-> IF c \in clients
                   THEN Shed(Append(backlog[c], frame["push"])) ELSE backlog[c]]
  /\ sent' = [c \in Conns |-> IF c \in clients
                THEN sent[c] \cup {frame["push"]} ELSE sent[c]]
  /\ UNCHANGED <<version, frame, sequence, conn, clients, wire, page>>

-----------------------------------------------------------------------------
\* Mutant of Applied: whatever arrives is applied.
AppliedAlways(f) == f

\* apply(): only a frame with a higher number replaces what is shown.
Applied(f) == IF f.number > shown.number THEN f ELSE shown

\* The page starts from /snapshot.json and then opens the stream.
Load ==
  /\ Finished("load")
  /\ shown' = Applied(frame["load"])
  /\ UNCHANGED <<version, frame, sequence, streams, current>>

\* EventSource connects, and connects again after an error.
Connect(c) ==
  /\ shown.number > 0 /\ current = NONE /\ conn[c] = "closed"
  /\ current' = c
  /\ conn' = [conn EXCEPT ![c] = "register"]
  /\ UNCHANGED <<version, building, clients, backlog, wire, sent, shown>>

\* register(): a connection beyond the limit raises and is closed; the page
\* tries again.
Register(c) ==
  /\ conn[c] = "register"
  /\ IF Cardinality(clients) >= MaxClients
       THEN /\ conn' = [conn EXCEPT ![c] = "closed"]
            /\ current' = IF current = c THEN NONE ELSE current
            /\ UNCHANGED clients
       ELSE /\ conn' = [conn EXCEPT ![c] = "prime"]
            /\ clients' = clients \cup {c}
            /\ UNCHANGED current
  /\ UNCHANGED <<version, building, backlog, wire, sent, shown>>

\* Mutant of Unregister: a client whose write failed is not removed.
UnregisterNot(c) ==
  /\ conn' = [conn EXCEPT ![c] = "gone"]
  /\ backlog' = [backlog EXCEPT ![c] = <<>>] /\ wire' = [wire EXCEPT ![c] = <<>>]
  /\ UNCHANGED clients

\* The write raises because the page is gone: the finally clause of _stream.
Unregister(c) ==
  /\ conn' = [conn EXCEPT ![c] = "gone"]
  /\ clients' = clients \ {c}
  /\ backlog' = [backlog EXCEPT ![c] = <<>>] /\ wire' = [wire EXCEPT ![c] = <<>>]

\* The first frame, so that the page need not wait for the next push.
Prime(c) ==
  /\ Finished(c)
  /\ IF current = c
       THEN /\ conn' = [conn EXCEPT ![c] = "stream"]
            /\ wire' = [wire EXCEPT ![c] = Append(@, frame[c])]
            /\ sent' = [sent EXCEPT ![c] = @ \cup {frame[c]}]
            /\ UNCHANGED <<clients, backlog>>
       ELSE Unregister(c) /\ UNCHANGED sent
  /\ UNCHANGED <<version, frame, sequence, page>>

\* drain() and write every frame of the backlog.
Drain(c) ==
  /\ conn[c] = "stream" /\ current = c /\ backlog[c] # <<>>
  /\ wire' = [wire EXCEPT ![c] = @ \o backlog[c]]
  /\ backlog' = [backlog EXCEPT ![c] = <<>>]
  /\ UNCHANGED <<version, building, conn, clients, sent, page>>

\* A frame or the beat of every 15 seconds finds the connection broken.
FindBroken(c) ==
  /\ conn[c] = "stream" /\ current # c
  /\ Unregister(c)
  /\ UNCHANGED <<version, building, sent, page>>

\* The page reads the next frame.
Receive(c) ==
  /\ current = c /\ wire[c] # <<>>
  /\ shown' = Applied(Head(wire[c]))
  /\ wire' = [wire EXCEPT ![c] = Tail(@)]
  /\ UNCHANGED <<version, building, conn, clients, backlog, sent, current>>

\* The connection breaks; what was on its way is lost.
Break ==
  /\ current # NONE /\ conn[current] \in {"prime", "stream"}
  /\ current' = NONE
  /\ UNCHANGED <<version, building, streams, shown>>

Serve(c) == Register(c) \/ Prime(c) \/ Drain(c) \/ FindBroken(c)
Build(t) == Copy(t) \/ Number(t)

Next ==
  \/ Write \/ Push \/ Load \/ Break
  \/ \E t \in Threads : Build(t)
  \/ \E c \in Conns : Connect(c) \/ Serve(c) \/ Receive(c)

Spec == Init /\ [][Next]_vars

\* Threads run on; the page reads, and tries a connection again and again.
FairSpec ==
  /\ Spec
  /\ WF_vars(Push) /\ WF_vars(Load)
  /\ \A t \in Threads : WF_vars(Build(t))
  /\ \A c \in Conns : WF_vars(Serve(c)) /\ WF_vars(Receive(c)) /\ WF_vars(Connect(c))

-----------------------------------------------------------------------------
Idle(c) == backlog[c] = <<>> /\ wire[c] = <<>>

\* A page that has read everything shows the newest of the frames handed to
\* its connection: what a full backlog sheds is covered by a frame that
\* follows, and an overtaken frame does not replace a newer one (push, drain,
\* apply).
NewestFrameIsShown ==
  current # NONE /\ conn[current] = "stream" /\ Idle(current) =>
    \A f \in sent[current] : f.number <= shown.number

\* A page that has lost its connection gets another one, or runs out of them,
\* although the server may still hold the dead ones (register, unregister).
PageReconnects ==
  (shown.number > 0 /\ current = NONE) ~>
    \/ current # NONE /\ conn[current] \in {"prime", "stream"}
    \/ \A c \in Conns : conn[c] \in {"prime", "stream", "gone"}

\* PHASE9_OPERATOR_GUIDE, things MANTIS will never do: show a stale number as
\* if it were current.  What replaces the state on screen is no older.
ShownNeverGoesBack == [][shown'.version >= shown.version]_vars

=============================================================================
