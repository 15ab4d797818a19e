------------------------------ MODULE MCFrontEnd ------------------------------
(***************************************************************************)
(* The two parts of the front end that have threads of their own: the      *)
(* voice, of VoiceQueue, and the event stream, of WebStream with two       *)
(* connections, one of which the server can hold.  They share no state, so *)
(* what one does is the same whatever the other is doing; a behaviour      *)
(* moves one of them, chosen at the start, and leaves the other where it   *)
(* began.                                                                  *)
(***************************************************************************)
EXTENDS VoiceQueue

CONSTANTS Conns, Backlog, MaxClients, MaxVersion, MaxSequence

VARIABLES
  part,       \* the part that moves
  version, sequence, step, frame, conn, clients, backlog, wire, current, shown,
  sent        \* see WebStream

webVars == <<version, sequence, step, frame, conn, clients, backlog, wire,
             current, shown, sent>>

Web == INSTANCE WebStream WITH Cap <- Backlog

ASSUME WebAssumption == Web!Bounds /\ Web!ThreadsDiffer

FrontEndInit == part \in {"voice", "stream"} /\ Init /\ Web!Init

Voice(action)  == part = "voice" /\ action /\ UNCHANGED <<part, webVars>>
Stream(action) == part = "stream" /\ action /\ UNCHANGED <<part, vars>>

FrontEndNext ==
  \/ \E c \in Callers : Voice(Say(c))
  \/ \E c \in Callers : Voice(Call(c))
  \/ Voice(StopFlag)
  \/ Voice(StopMarker)
  \/ Voice(Work)
  \/ Stream(Web!Write)
  \/ Stream(Web!Push)
  \/ Stream(Web!Load)
  \/ Stream(Web!Break)
  \/ \E t \in Web!Threads : Stream(Web!Build(t))
  \/ \E c \in Conns : Stream(Web!Connect(c))
  \/ \E c \in Conns : Stream(Web!Serve(c))
  \/ \E c \in Conns : Stream(Web!Receive(c))

\* The fairness of VoiceQueue!FairSpec and of WebStream!FairSpec.
FrontEndSpec ==
  /\ FrontEndInit /\ [][FrontEndNext]_<<part, vars, webVars>>
  /\ WF_vars(Voice(Work))
  /\ \A c \in Callers : WF_vars(Voice(Call(c)))
  /\ WF_webVars(Stream(Web!Push)) /\ WF_webVars(Stream(Web!Load))
  /\ \A t \in Web!Threads : WF_webVars(Stream(Web!Build(t)))
  /\ \A c \in Conns :
       /\ WF_webVars(Stream(Web!Serve(c)))
       /\ WF_webVars(Stream(Web!Receive(c)))
       /\ WF_webVars(Stream(Web!Connect(c)))

\* A page that has read everything shows the newest frame (WebStream).
NewestFrameIsShown == Web!NewestFrameIsShown

\* A page that lost its connection gets another one (WebStream).
PageReconnects == Web!PageReconnects

=============================================================================
