---------------------------- MODULE FrontEnd_proofs ----------------------------
(***************************************************************************)
(* Proofs about what the operator hears and sees: the voice (VoiceQueue),  *)
(* the page (WebStream, as MCFrontEnd composes it) and the alerts          *)
(* (AlertRouter).                                                          *)
(*                                                                         *)
(* The voice, for every size of the queue, every limit of failures and     *)
(* every number of lines: what is spoken is in the order of the queue,     *)
(* what is shed is older than what stays, and a stop lets the worker begin *)
(* at most one more line.                                                  *)
(*                                                                         *)
(* The page, for every backlog, every number of clients and every set of   *)
(* connections: what the page shows once it has read everything.           *)
(*                                                                         *)
(* The alerts, for every list of assets, any number of request threads,    *)
(* every length of a window, gate and throttle, and every bound.           *)
(***************************************************************************)
EXTENDS MCFrontEnd, AlertRouter, TLAPS

-----------------------------------------------------------------------------
\* The voice.

Entries == Lines \cup {STOP}

\* The lines of a queue q, in order, are newer than the line t in the worker's
\* hand, which is newer than every line in s, the spoken ones; none is as new
\* as n, the next one.
Ordered(q, n, t, s) ==
  /\ \A i \in DOMAIN q : q[i] # STOP => q[i] < n
  /\ \A i, j \in DOMAIN q :
       i < j /\ q[i] # STOP /\ q[j] # STOP => q[i] < q[j]
  /\ t # NONE => t < n /\ \A i \in DOMAIN q : q[i] # STOP => t < q[i]
  /\ \A k \in DOMAIN s :
       /\ s[k] < n /\ (t # NONE => s[k] < t)
       /\ \A i \in DOMAIN q : q[i] # STOP => s[k] < q[i]
  /\ \A j, k \in DOMAIN s : j < k => s[j] < s[k]

\* Callers between the start and the end of say() find a number for their line.
InHand(c) == pc[c] \in {"put", "full", "again"}
RoomForHands ==
  /\ \A c \in Callers : InHand(c) => next <= MaxLines
  /\ (\A c \in Callers : InHand(c)) => next < MaxLines

\* The worker has a line in hand only while it speaks.
HandInStep == worker = "speak" <=> text # NONE

\* The line begun after the stop is the last: the worker does not get another.
LateInStep ==
  /\ late <= 1
  /\ late = 1 => stop /\ worker # "get"

IInv ==
  /\ TypeOK
  /\ RoomForHands
  /\ HandInStep
  /\ LateInStep
  /\ Ordered(queue, next, text, spoken)

-----------------------------------------------------------------------------
\* A new line, being the newest, keeps the order.
LEMMA EnqueueOrdered ==
  ASSUME NEW q \in Seq(Entries), NEW n \in 1 .. MaxLines, NEW t \in Lines \cup {NONE},
         NEW s \in Seq(Lines), Ordered(q, n, t, s)
  PROVE  Ordered(Append(q, n), n + 1, t, s)
<1> USE BoundAssumption, MarkerAssumption DEF Lines, Entries
<1>1. /\ DOMAIN Append(q, n) = 1 .. Len(q) + 1 /\ DOMAIN q = 1 .. Len(q)
      /\ \A i \in 1 .. Len(q) : Append(q, n)[i] = q[i]
      /\ Append(q, n)[Len(q) + 1] = n
  OBVIOUS
<1>2. \A i \in 1 .. Len(q) : q[i] # STOP => q[i] \in Nat
  OBVIOUS
<1>3. \A k \in DOMAIN s : s[k] \in Nat
  OBVIOUS
<1>4. Len(q) \in Nat /\ n \in Nat /\ (t # NONE => t \in Nat)
  OBVIOUS
<1>5. \A i \in 1 .. Len(q) + 1 : i \in 1 .. Len(q) \/ i = Len(q) + 1
  BY <1>4
<1> HIDE BoundAssumption, MarkerAssumption DEF Lines, Entries
<1> QED
  BY <1>1, <1>2, <1>3, <1>4, <1>5 DEF Ordered

\* The stop marker is no line.
LEMMA MarkerOrdered ==
  ASSUME NEW q \in Seq(Entries), NEW n \in Nat, NEW t \in Lines \cup {NONE},
         NEW s \in Seq(Lines), Ordered(q, n, t, s)
  PROVE  Ordered(Append(q, STOP), n, t, s)
<1>1. /\ DOMAIN Append(q, STOP) = 1 .. Len(q) + 1 /\ DOMAIN q = 1 .. Len(q)
      /\ \A i \in 1 .. Len(q) : Append(q, STOP)[i] = q[i]
      /\ Append(q, STOP)[Len(q) + 1] = STOP
  BY DEF Entries
<1>2. \A i \in 1 .. Len(q) + 1 : i \in 1 .. Len(q) \/ i = Len(q) + 1
  BY DEF Entries
<1> QED
  BY <1>1, <1>2 DEF Ordered

\* Removing the head keeps the order, and what stays is newer than the head.
LEMMA TailOrdered ==
  ASSUME NEW q \in Seq(Entries), NEW n \in Nat, NEW t \in Lines \cup {NONE},
         NEW s \in Seq(Lines), Ordered(q, n, t, s), q # <<>>
  PROVE  /\ Ordered(Tail(q), n, t, s)
         /\ Head(q) # STOP =>
              \A i \in DOMAIN Tail(q) : Tail(q)[i] # STOP => Head(q) < Tail(q)[i]
         /\ Head(q) # STOP /\ t = NONE => Ordered(Tail(q), n, Head(q), s)
<1>1. /\ Len(q) \in Nat \ {0} /\ DOMAIN q = 1 .. Len(q)
      /\ DOMAIN Tail(q) = 1 .. Len(q) - 1
      /\ \A i \in 1 .. Len(q) - 1 : Tail(q)[i] = q[i + 1]
      /\ Head(q) = q[1]
  BY DEF Entries
<1>2. \A i \in 1 .. Len(q) - 1 : i \in 1 .. Len(q) /\ i + 1 \in 1 .. Len(q) /\ 1 < i + 1
  BY <1>1
<1>3. \A i, j \in 1 .. Len(q) - 1 : i < j => i + 1 < j + 1
  BY <1>1
<1>4. 1 \in DOMAIN q
  BY <1>1
<1> QED
  BY <1>1, <1>2, <1>3, <1>4 DEF Ordered

\* The line in hand, once spoken, is the last of the spoken ones.
LEMMA SpokenOrdered ==
  ASSUME NEW q \in Seq(Entries), NEW n \in Nat, NEW t \in Lines,
         NEW s \in Seq(Lines), Ordered(q, n, t, s)
  PROVE  Ordered(q, n, NONE, Append(s, t)) /\ Ordered(q, n, NONE, s)
<1>1. /\ DOMAIN Append(s, t) = 1 .. Len(s) + 1 /\ DOMAIN s = 1 .. Len(s)
      /\ \A i \in 1 .. Len(s) : Append(s, t)[i] = s[i]
      /\ Append(s, t)[Len(s) + 1] = t
  OBVIOUS
<1>2. /\ Len(s) \in Nat
      /\ \A i \in 1 .. Len(s) + 1 : i \in 1 .. Len(s) \/ i = Len(s) + 1
  OBVIOUS
<1>3. t # NONE
  BY MarkerAssumption
<1>4. \A j, k \in 1 .. Len(s) + 1 :
        j < k => j \in 1 .. Len(s) /\ (k \in 1 .. Len(s) \/ k = Len(s) + 1)
  BY <1>2
<1> QED
  BY <1>1, <1>2, <1>3, <1>4 DEF Ordered

\* What the lemmas on the order ask of the state.
LEMMA StateTypes ==
  ASSUME TypeOK
  PROVE  /\ queue \in Seq(Entries) /\ next \in Nat
         /\ text \in Lines \cup {NONE} /\ spoken \in Seq(Lines)
<1> QED
  BY BoundAssumption DEF TypeOK, Entries

\* A caller on its way through say() leaves room for the other's line.
LEMMA HandsKept ==
  ASSUME TypeOK, RoomForHands, NEW c \in Callers, InHand(c), NEW w, Goto(c, w),
         next' = next
  PROVE  RoomForHands'
<1>1. \A d \in Callers : InHand(d)' => InHand(d)
  BY DEF Goto, InHand, TypeOK
<1> QED
  BY <1>1 DEF RoomForHands

\* A caller whose line has entered the queue is no longer in need of a number.
LEMMA HandsEnqueued ==
  ASSUME TypeOK, RoomForHands, NEW c \in Callers, InHand(c), Return(c),
         next' = next + 1
  PROVE  RoomForHands'
<1>1. ~InHand(c)' /\ \A d \in Callers \ {c} : InHand(d)' => InHand(d)
  BY DEF Return, Goto, InHand, TypeOK
<1>2. \A d \in Callers : InHand(d)' => \A e \in Callers : InHand(e)
  BY <1>1 DEF Callers
<1>3. \A d \in Callers : InHand(d)' => next < MaxLines
  BY <1>2 DEF RoomForHands
<1>4. next \in Nat
  BY DEF TypeOK
<1> QED
  BY <1>1, <1>3, <1>4, BoundAssumption DEF RoomForHands

\* A line enters a queue with room.
LEMMA EnqueueIInv ==
  ASSUME IInv, NEW c \in Callers, InHand(c), Len(queue) < Cap, Enqueue, Return(c),
         UNCHANGED <<stop, working, shed>>
  PROVE  IInv'
<1> USE BoundAssumption
<1>1. next \in 1 .. MaxLines
  BY DEF IInv, TypeOK, RoomForHands
<1>2. RoomForHands'
  BY HandsEnqueued DEF IInv, Enqueue
<1>3. Ordered(queue, next, text, spoken)'
  BY <1>1, EnqueueOrdered DEF IInv, TypeOK, Enqueue, Entries, working
<1>4. queue' \in Seq(Lines \cup {STOP}) /\ Len(queue') = Len(queue) + 1
  BY <1>1 DEF IInv, TypeOK, Enqueue, Lines
<1>5. pc' \in [Callers -> {"idle", "put", "full", "again", "marker", "over"}]
  BY DEF IInv, TypeOK, Return, Goto
<1>6. Len(queue) \in Nat /\ next' \in 1 .. MaxLines + 1
  BY <1>1 DEF Enqueue, IInv, TypeOK
<1>7. TypeOK'
  BY <1>4, <1>5, <1>6 DEF IInv, TypeOK, working
<1>8. HandInStep' /\ LateInStep'
  BY DEF IInv, HandInStep, LateInStep, working
<1> QED
  BY <1>2, <1>3, <1>7, <1>8 DEF IInv

\* A caller moves on and the queue stays as it is.
LEMMA MoveIInv ==
  ASSUME IInv, NEW c \in Callers, InHand(c),
         NEW w \in {"idle", "put", "full", "again", "marker", "over"}, Goto(c, w),
         UNCHANGED <<queue, next, stop, working, shed>>
  PROVE  IInv'
<1>1. RoomForHands'
  BY HandsKept DEF IInv
<1>2. TypeOK'
  BY DEF IInv, TypeOK, Goto, working
<1>3. HandInStep' /\ LateInStep' /\ Ordered(queue, next, text, spoken)'
  BY DEF IInv, HandInStep, LateInStep, Ordered, working
<1> QED
  BY <1>1, <1>2, <1>3 DEF IInv

\* The inductive invariant holds of an idle worker.
LEMMA InitIInv == Init => IInv
<1> SUFFICES ASSUME Init PROVE IInv
  OBVIOUS
<1> USE BoundAssumption, MarkerAssumption DEF Init
<1>1. <<>> \in Seq(Lines \cup {STOP}) /\ <<>> \in Seq(Lines) /\ Len(<<>>) = 0
  OBVIOUS
<1>2. TypeOK
  <2>1. queue \in Seq(Lines \cup {STOP}) /\ Len(queue) <= Cap
    BY <1>1
  <2>2. pc \in [Callers -> {"idle", "put", "full", "again", "marker", "over"}]
    OBVIOUS
  <2>3. next \in 1 .. MaxLines + 1 /\ failures \in Nat /\ late \in Nat
    OBVIOUS
  <2>4. {shed, failed} \subseteq SUBSET Lines /\ spoken \in Seq(Lines)
    BY <1>1
  <2> QED
    BY <2>1, <2>2, <2>3, <2>4 DEF TypeOK
<1>3. RoomForHands
  BY DEF RoomForHands, InHand, Callers
<1>4. HandInStep /\ LateInStep
  BY DEF HandInStep, LateInStep
<1>5. Ordered(queue, next, text, spoken)
  BY DEF Ordered
<1> QED
  BY <1>2, <1>3, <1>4, <1>5 DEF IInv

-----------------------------------------------------------------------------
\* say() keeps the invariant.
LEMMA SayIInv == ASSUME IInv, NEW c \in Callers, Say(c) \/ Call(c) PROVE IInv'
<1>1. ASSUME Say(c) PROVE IInv'
  <2> USE <1>1
  <2>1. \E w \in {"put", "idle", "over"} : Goto(c, w)
    BY DEF Say, Return
  <2>2. RoomForHands'
    BY BoundAssumption DEF Say, RoomForHands, IInv, TypeOK
  <2>3. TypeOK'
    BY <2>1 DEF Say, IInv, TypeOK, Goto, working
  <2>4. HandInStep' /\ LateInStep' /\ Ordered(queue, next, text, spoken)'
    BY DEF Say, IInv, HandInStep, LateInStep, Ordered, working
  <2> QED
    BY <2>2, <2>3, <2>4 DEF IInv
<1>2. ASSUME Put(c) PROVE IInv'
  <2>1. InHand(c)
    BY <1>2 DEF Put, InHand
  <2>2. CASE Len(queue) < Cap
    BY <1>2, <2>1, <2>2, EnqueueIInv DEF Put
  <2>3. CASE ~(Len(queue) < Cap)
    BY <1>2, <2>1, <2>3, MoveIInv DEF Put
  <2> QED
    BY <2>2, <2>3
<1>3. ASSUME PutAgain(c) PROVE IInv'
  <2>1. InHand(c)
    BY <1>3 DEF PutAgain, InHand
  <2>2. CASE Len(queue) < Cap
    BY <1>3, <2>1, <2>2, EnqueueIInv DEF PutAgain
  <2>3. CASE ~(Len(queue) < Cap)
    <3>1. \E w \in {"idle", "over"} : Goto(c, w)
      BY <1>3 DEF PutAgain, Return
    <3> QED
      BY <1>3, <2>1, <2>3, <3>1, MoveIInv DEF PutAgain
  <2> QED
    BY <2>2, <2>3
<1>4. ASSUME Evict(c) PROVE IInv'
  <2>1. InHand(c)
    BY <1>4 DEF Evict, InHand
  <2>2. CASE queue = <<>>
    <3>1. \E w \in {"idle", "over"} : Goto(c, w)
      BY <1>4, <2>2 DEF Evict, Return
    <3> QED
      BY <1>4, <2>1, <2>2, <3>1, MoveIInv DEF Evict
  <2>3. CASE queue # <<>>
    <3> USE <1>4, <2>3
    <3>1. RoomForHands'
      BY <2>1, HandsKept DEF IInv, Evict
    <3>2. queue' \in Seq(Lines \cup {STOP}) /\ Len(queue') = Len(queue) - 1
      <4>1. queue \in Seq(Lines \cup {STOP}) /\ queue' = Tail(queue)
        BY DEF IInv, TypeOK, Evict
      <4>2. Tail(queue) \in Seq(Lines \cup {STOP})
        BY <4>1
      <4>3. Len(Tail(queue)) = Len(queue) - 1
        BY <4>1
      <4> QED BY <4>1, <4>2, <4>3
    <3>3. Head(queue) \in Lines \cup {STOP}
      BY DEF IInv, TypeOK
    <3>4. Len(queue) \in Nat /\ Cap \in Nat
      BY BoundAssumption DEF IInv, TypeOK
    <3>5. shed' \subseteq Lines
      BY <3>3 DEF IInv, TypeOK, Evict
    <3>6. pc' \in [Callers -> {"idle", "put", "full", "again", "marker", "over"}]
      BY DEF IInv, TypeOK, Evict, Goto
    <3>7. TypeOK'
      BY <3>2, <3>4, <3>5, <3>6 DEF IInv, TypeOK, Evict, working
    <3>8. Ordered(queue, next, text, spoken)'
      BY StateTypes, TailOrdered DEF IInv, Evict, working
    <3>9. HandInStep' /\ LateInStep'
      BY DEF IInv, Evict, HandInStep, LateInStep, working
    <3> QED
      BY <3>1, <3>7, <3>8, <3>9 DEF IInv
  <2> QED
    BY <2>2, <2>3
<1> QED
  BY <1>1, <1>2, <1>3, <1>4 DEF Call

\* stop() keeps the invariant.
LEMMA StopIInv == ASSUME IInv, StopFlag \/ StopMarker PROVE IInv'
<1>1. "scanner" \in Callers
  BY DEF Callers
<1>2. ASSUME StopFlag PROVE IInv'
  <2> USE <1>2
  <2>1. \A c \in Callers : InHand(c)' => InHand(c)
    BY DEF StopFlag, Goto, InHand, IInv, TypeOK
  <2>2. RoomForHands'
    BY <2>1 DEF IInv, RoomForHands, StopFlag
  <2>3. TypeOK'
    BY DEF StopFlag, IInv, TypeOK, Goto, working
  <2>4. HandInStep' /\ LateInStep' /\ Ordered(queue, next, text, spoken)'
    BY DEF StopFlag, IInv, HandInStep, LateInStep, Ordered, working
  <2> QED
    BY <2>2, <2>3, <2>4 DEF IInv
<1>3. ASSUME StopMarker PROVE IInv'
  <2> USE <1>3
  <2>1. \A c \in Callers : InHand(c)' => InHand(c)
    BY DEF StopMarker, Goto, InHand, IInv, TypeOK
  <2>2. RoomForHands'
    BY <2>1 DEF IInv, RoomForHands, StopMarker
  <2>3. queue' \in Seq(Lines \cup {STOP}) /\ Len(queue') <= Cap
    BY BoundAssumption DEF StopMarker, IInv, TypeOK
  <2>4. TypeOK'
    BY <2>3 DEF StopMarker, IInv, TypeOK, Goto, working
  <2>5. next \in Nat
    BY DEF IInv, TypeOK
  <2>6. Ordered(queue, next, text, spoken)'
    <3>1. CASE Len(queue) < Cap
      BY <2>5, <3>1, MarkerOrdered DEF StopMarker, IInv, TypeOK, Entries, working
    <3>2. CASE ~(Len(queue) < Cap)
      BY <3>2 DEF StopMarker, IInv, working
    <3> QED
      BY <3>1, <3>2
  <2>7. HandInStep' /\ LateInStep'
    BY DEF StopMarker, IInv, HandInStep, LateInStep, working
  <2> QED
    BY <2>2, <2>4, <2>6, <2>7 DEF IInv
<1> QED
  BY <1>2, <1>3

\* The worker keeps the invariant.
LEMMA WorkIInv == ASSUME IInv, Work PROVE IInv'
<1>1. RoomForHands'
  BY DEF IInv, RoomForHands, InHand, Work, Loop, Get, Spoke, SpeakerRaised, calls
<1>2. ASSUME Loop PROVE IInv'
  <2>1. TypeOK' /\ HandInStep' /\ LateInStep' /\ Ordered(queue, next, text, spoken)'
    BY <1>2 DEF Loop, IInv, TypeOK, HandInStep, LateInStep, Ordered, calls
  <2> QED
    BY <1>1, <2>1 DEF IInv
<1>3. ASSUME Get PROVE IInv'
  <2>1. CASE queue = <<>>
    <3>1. TypeOK' /\ HandInStep' /\ LateInStep' /\ Ordered(queue, next, text, spoken)'
      BY <1>3, <2>1 DEF Get, IInv, TypeOK, HandInStep, LateInStep, Ordered, calls
    <3> QED
      BY <1>1, <3>1 DEF IInv
  <2>2. CASE queue # <<>>
    <3> USE <1>3, <2>2
    <3>1. /\ queue' \in Seq(Lines \cup {STOP}) /\ Len(queue') <= Cap
          /\ Head(queue) \in Lines \cup {STOP}
      <4>1. queue \in Seq(Lines \cup {STOP}) /\ Len(queue) <= Cap /\ queue' = Tail(queue)
        BY DEF Get, IInv, TypeOK
      <4> QED
        BY <4>1, BoundAssumption
    <3>2. text = NONE /\ late = 0
      BY DEF Get, IInv, HandInStep, LateInStep, TypeOK
    <3>3. CASE Head(queue) = STOP
      <4>1. TypeOK' /\ HandInStep' /\ LateInStep'
        BY <3>1, <3>2, <3>3 DEF Get, IInv, TypeOK, HandInStep, LateInStep, calls
      <4>2. Ordered(queue, next, text, spoken)'
        BY <3>3, StateTypes, TailOrdered DEF Get, IInv, calls
      <4> QED
        BY <1>1, <4>1, <4>2 DEF IInv
    <3>4. CASE Head(queue) # STOP
      <4>1. Head(queue) \in Lines /\ Head(queue) # NONE
        BY <3>1, <3>4, MarkerAssumption
      <4>2. TypeOK'
        BY <3>1, <3>2, <3>4, <4>1 DEF Get, IInv, TypeOK, calls
      <4>3. HandInStep' /\ LateInStep'
        BY <3>2, <3>4, <4>1 DEF Get, HandInStep, LateInStep
      <4>4. Ordered(queue, next, text, spoken)'
        BY <3>2, <3>4, StateTypes, TailOrdered DEF Get, IInv, calls
      <4> QED
        BY <1>1, <4>2, <4>3, <4>4 DEF IInv
    <3> QED
      BY <3>3, <3>4
  <2> QED
    BY <2>1, <2>2
<1>4. ASSUME Spoke \/ SpeakerRaised PROVE IInv'
  <2>1. text \in Lines
    BY <1>4, MarkerAssumption DEF Spoke, SpeakerRaised, IInv, TypeOK, HandInStep
  <2>2. next \in Nat
    BY DEF IInv, TypeOK
  <2>3. TypeOK'
    <3>1. Append(spoken, text) \in Seq(Lines) /\ failed \cup {text} \subseteq Lines
      BY <2>1 DEF IInv, TypeOK
    <3>2. CASE Spoke
      BY <3>1, <3>2 DEF Spoke, IInv, TypeOK, calls
    <3>3. CASE SpeakerRaised
      BY <3>1, <3>3 DEF SpeakerRaised, IInv, TypeOK, calls
    <3> QED
      BY <1>4, <3>2, <3>3
  <2>4. Ordered(queue, next, text, spoken)'
    BY <1>4, <2>1, <2>2, SpokenOrdered
      DEF Spoke, SpeakerRaised, IInv, TypeOK, Entries, calls
  <2>5. HandInStep' /\ LateInStep'
    BY <1>4 DEF Spoke, SpeakerRaised, IInv, HandInStep, LateInStep
  <2> QED
    BY <1>1, <2>3, <2>4, <2>5 DEF IInv
<1> QED
  BY <1>2, <1>3, <1>4 DEF Work

\* Every step keeps the inductive invariant.
LEMMA NextIInv == IInv /\ [Next]_vars => IInv'
<1> SUFFICES ASSUME IInv, [Next]_vars PROVE IInv'
  OBVIOUS
<1>1. ASSUME UNCHANGED vars PROVE IInv'
  BY <1>1 DEF IInv, TypeOK, RoomForHands, InHand, HandInStep, LateInStep, Ordered,
    vars, calls, working
<1> QED
  BY <1>1, SayIInv, StopIInv, WorkIInv DEF Next

-----------------------------------------------------------------------------
\* The types, the queue's limit among them (queue.Queue).
THEOREM TypeCorrect == Spec => []TypeOK
<1>1. IInv => TypeOK
  BY DEF IInv
<1> QED
  BY <1>1, InitIInv, NextIInv, PTL DEF Spec

\* Lines are spoken in the order they were queued, each at most once, whatever
\* the callers and the worker interleave, shed and fail (say, _run).
THEOREM InOrder == Spec => []SpokenInOrder
<1>1. IInv => SpokenInOrder
  BY DEF IInv, Ordered, SpokenInOrder
<1> QED
  BY <1>1, InitIInv, NextIInv, PTL DEF Spec

\* After the flag is set, the worker begins at most one more line (stop, _run).
THEOREM Prompt == Spec => []StopIsPrompt
<1>1. IInv => StopIsPrompt
  BY DEF IInv, LateInStep, StopIsPrompt
<1> QED
  BY <1>1, InitIInv, NextIInv, PTL DEF Spec

\* What is shed is older than every line that stays (say).
THEOREM Oldest == Spec => OldestIsShed
<1>1. IInv /\ [Next]_vars =>
        [\A l \in shed' \ shed : \A m \in InQueue' : m > l]_vars
  <2> SUFFICES ASSUME IInv, Next, NEW l \in shed' \ shed, NEW m \in InQueue'
              PROVE  m > l
    OBVIOUS
  <2>1. PICK c \in Callers : Evict(c) /\ queue # <<>>
    BY DEF Next, Call, Say, Put, Evict, PutAgain, StopFlag, StopMarker, Work, Loop,
      Get, Spoke, SpeakerRaised
  <2>2. l = Head(queue) /\ l # STOP /\ queue' = Tail(queue)
    BY <2>1 DEF Evict
  <2>3. PICK i \in DOMAIN Tail(queue) : m = Tail(queue)[i] /\ m # STOP
    BY <2>2 DEF InQueue, Range
  <2>4. l < m
    BY <2>1, <2>2, <2>3, StateTypes, TailOrdered DEF IInv
  <2>5. l \in Nat /\ m \in Nat
    <3>1. Head(queue) \in Lines \cup {STOP} /\ Tail(queue)[i] \in Lines \cup {STOP}
      BY <2>1, <2>3 DEF IInv, TypeOK
    <3> QED
      BY <2>2, <2>3, <3>1, BoundAssumption DEF Lines
  <2> QED
    BY <2>4, <2>5
<1> QED
  BY <1>1, InitIInv, NextIInv, PTL DEF Spec, OldestIsShed

-----------------------------------------------------------------------------
(***************************************************************************)
(* No line is lost or doubled.                                             *)
(***************************************************************************)
LinesIn(q) == Range(q) \ {STOP}

Hand(t) == {t} \ {NONE}

\* The lines that entered the queue are parted among five places.
Parted(n, q, t, s, f, d) ==
  /\ 1 .. n - 1 = q \cup t \cup s \cup f \cup d
  /\ q \cap t = {} /\ q \cap s = {} /\ q \cap f = {} /\ q \cap d = {}
  /\ t \cap s = {} /\ t \cap f = {} /\ t \cap d = {}
  /\ s \cap f = {} /\ s \cap d = {} /\ f \cap d = {}

Placed == Parted(next, InQueue, Hand(text), Range(spoken), failed, shed)

\* A sequence that gains an element gains it in its range.
LEMMA RangeGrows ==
  ASSUME NEW S, NEW q \in Seq(S), NEW x \in S
  PROVE  Range(Append(q, x)) = Range(q) \cup {x}
<1>1. /\ DOMAIN Append(q, x) = 1 .. Len(q) + 1 /\ DOMAIN q = 1 .. Len(q)
      /\ \A i \in 1 .. Len(q) : Append(q, x)[i] = q[i]
      /\ Append(q, x)[Len(q) + 1] = x /\ Len(q) \in Nat
  OBVIOUS
<1>2. 1 .. Len(q) + 1 = 1 .. Len(q) \cup {Len(q) + 1}
  BY <1>1
<1> QED BY <1>1, <1>2 DEF Range

\* The head of a queue is in the queue, and a line nowhere behind it.
LEMMA HeadLeaves ==
  ASSUME NEW q \in Seq(Entries), NEW n \in Nat, NEW t \in Lines \cup {NONE},
         NEW s \in Seq(Lines), Ordered(q, n, t, s), q # <<>>
  PROVE  /\ Head(q) = STOP => LinesIn(q) = LinesIn(Tail(q))
         /\ Head(q) # STOP => /\ LinesIn(q) = LinesIn(Tail(q)) \cup {Head(q)}
                              /\ Head(q) \notin LinesIn(Tail(q)) /\ Head(q) \in Lines
<1>1. /\ Len(q) \in Nat \ {0} /\ DOMAIN q = 1 .. Len(q)
      /\ DOMAIN Tail(q) = 1 .. Len(q) - 1
      /\ \A i \in 1 .. Len(q) - 1 : Tail(q)[i] = q[i + 1]
      /\ Head(q) = q[1] /\ Head(q) \in Entries
  BY DEF Entries
<1>2. \A i \in 1 .. Len(q) : i = 1 \/ (i - 1 \in 1 .. Len(q) - 1 /\ i = (i - 1) + 1)
  BY <1>1
<1>3. \A i \in 1 .. Len(q) - 1 : i + 1 \in 1 .. Len(q)
  BY <1>1
<1>4. 1 \in 1 .. Len(q)
  BY <1>1
<1>5. Range(q) = Range(Tail(q)) \cup {Head(q)}
  <2>1. ASSUME NEW x \in Range(q) PROVE x \in Range(Tail(q)) \cup {Head(q)}
    <3>1. PICK i \in 1 .. Len(q) : x = q[i]
      BY <1>1 DEF Range
    <3>2. CASE i = 1
      BY <1>1, <3>1, <3>2
    <3>3. CASE i # 1
      <4>1. i - 1 \in DOMAIN Tail(q) /\ Tail(q)[i - 1] = x
        BY <1>1, <1>2, <3>1, <3>3
      <4> QED BY <4>1 DEF Range
    <3> QED BY <3>2, <3>3
  <2>2. ASSUME NEW x \in Range(Tail(q)) PROVE x \in Range(q)
    BY <1>1, <1>3, <2>2 DEF Range
  <2>3. Head(q) \in Range(q)
    BY <1>1, <1>4 DEF Range
  <2> QED BY <2>1, <2>2, <2>3
<1>6. CASE Head(q) = STOP
  BY <1>5, <1>6 DEF LinesIn
<1>7. CASE Head(q) # STOP
  <2>1. Head(q) \in Lines
    BY <1>1, <1>7 DEF Entries
  <2>2. Head(q) \notin LinesIn(Tail(q))
    <3> SUFFICES ASSUME Head(q) \in LinesIn(Tail(q)) PROVE FALSE
      OBVIOUS
    <3>1. PICK i \in DOMAIN Tail(q) : Head(q) = Tail(q)[i]
      BY DEF LinesIn, Range
    <3>2. Head(q) < Head(q)
      BY <1>7, <3>1, TailOrdered
    <3> QED BY <2>1, <3>2, BoundAssumption DEF Lines
  <2> QED BY <1>5, <1>7, <2>1, <2>2 DEF LinesIn
<1> QED BY <1>6, <1>7

\* A line changes places, or a new one enters the queue.
LEMMA NextPlaced == IInv /\ Placed /\ [Next]_vars => Placed'
<1> SUFFICES ASSUME IInv, Placed, [Next]_vars PROVE Placed'
  OBVIOUS
<1> USE DEF calls, working
<1>1. /\ queue \in Seq(Entries) /\ next \in Nat /\ text \in Lines \cup {NONE}
      /\ spoken \in Seq(Lines) /\ Ordered(queue, next, text, spoken)
  BY StateTypes DEF IInv
<1>2. ASSUME UNCHANGED <<next, queue, text, spoken, failed, shed>> PROVE Placed'
  BY <1>2, <1>1 DEF Placed, Parted, InQueue, Hand
<1>3. ASSUME NEW c \in Callers, InHand(c), Enqueue,
             UNCHANGED <<text, spoken, failed, shed>>
      PROVE  Placed'
  <2>1. next \in Lines /\ next # STOP
    BY <1>3, BoundAssumption, MarkerAssumption DEF IInv, TypeOK, RoomForHands, Lines
  <2>2. InQueue' = InQueue \cup {next}
    <3>1. Range(queue') = Range(queue) \cup {next}
      BY <1>1, <1>3, <2>1, RangeGrows DEF Enqueue, Entries
    <3> QED BY <2>1, <3>1 DEF InQueue
  <2>3. next' = next + 1 /\ next \in 1 .. MaxLines
    BY <1>3, <2>1 DEF Enqueue, Lines
  <2>4. 1 .. next' - 1 = (1 .. next - 1) \cup {next} /\ next \notin 1 .. next - 1
    BY <1>1, <2>3
  <2> QED BY <1>3, <2>2, <2>4 DEF Placed, Parted, Hand
<1>4. ASSUME NEW c \in Callers, Evict(c) PROVE Placed'
  <2>1. CASE queue = << >>
    BY <1>2, <1>4, <2>1 DEF Evict
  <2>2. CASE queue # << >>
    <3>1. /\ queue' = Tail(queue) /\ shed' = shed \cup ({Head(queue)} \ {STOP})
          /\ UNCHANGED <<next, text, spoken, failed>>
      BY <1>4, <2>2 DEF Evict
    <3>2. /\ InQueue = LinesIn(queue) /\ InQueue' = LinesIn(Tail(queue))
      BY <3>1 DEF InQueue, LinesIn
    <3>3. CASE Head(queue) = STOP
      <4>1. InQueue' = InQueue /\ shed' = shed
        BY <1>1, <2>2, <3>1, <3>2, <3>3, HeadLeaves
      <4> QED BY <3>1, <4>1 DEF Placed, Parted, Hand
    <3>4. CASE Head(queue) # STOP
      <4>1. /\ InQueue = InQueue' \cup {Head(queue)} /\ Head(queue) \notin InQueue'
            /\ shed' = shed \cup {Head(queue)}
        BY <1>1, <2>2, <3>1, <3>2, <3>4, HeadLeaves
      <4> QED BY <3>1, <4>1 DEF Placed, Parted, Hand
    <3> QED BY <3>3, <3>4
  <2> QED BY <2>1, <2>2
<1>5. ASSUME NEW c \in Callers, Say(c) \/ Put(c) \/ PutAgain(c) PROVE Placed'
  <2>1. \/ UNCHANGED <<next, queue, text, spoken, failed, shed>>
        \/ InHand(c) /\ Enqueue /\ UNCHANGED <<text, spoken, failed, shed>>
    BY <1>5 DEF Say, Put, PutAgain, InHand
  <2> QED BY <1>2, <1>3, <2>1
<1>6. CASE StopFlag \/ StopMarker
  <2>1. UNCHANGED <<next, text, spoken, failed, shed>>
    BY <1>6 DEF StopFlag, StopMarker
  <2>2. queue' = queue \/ queue' = Append(queue, STOP)
    BY <1>6 DEF StopFlag, StopMarker
  <2>3. InQueue' = InQueue
    <3>1. Range(Append(queue, STOP)) = Range(queue) \cup {STOP}
      <4>1. STOP \in Entries
        BY DEF Entries
      <4> QED BY <1>1, <4>1, RangeGrows
    <3> QED BY <2>2, <3>1 DEF InQueue
  <2> QED BY <2>1, <2>3 DEF Placed, Parted, Hand
<1>7. CASE Loop
  BY <1>2, <1>7 DEF Loop
<1>8. CASE Get
  <2>1. text = NONE
    BY <1>8 DEF Get, IInv, HandInStep
  <2>2. UNCHANGED <<next, spoken, failed, shed>>
    BY <1>8 DEF Get
  <2>3. CASE queue' = queue /\ text' = text
    BY <1>2, <2>2, <2>3
  <2>4. CASE queue # << >> /\ queue' = Tail(queue)
    <3>1. InQueue = LinesIn(queue) /\ InQueue' = LinesIn(Tail(queue))
      BY <2>4 DEF InQueue, LinesIn
    <3>2. CASE Head(queue) = STOP
      <4>1. text' = text /\ InQueue' = InQueue
        BY <1>1, <1>8, <2>4, <3>1, <3>2, HeadLeaves DEF Get
      <4> QED BY <2>2, <4>1 DEF Placed, Parted, Hand
    <3>3. CASE Head(queue) # STOP
      <4>1. text' = Head(queue)
        BY <1>8, <2>4, <3>3 DEF Get
      <4>2. /\ InQueue = InQueue' \cup {Head(queue)} /\ Head(queue) \notin InQueue'
            /\ Head(queue) \in Lines
        BY <1>1, <2>4, <3>1, <3>3, HeadLeaves
      <4>3. Hand(text) = {} /\ Hand(text') = {Head(queue)}
        BY <2>1, <4>1, <4>2, MarkerAssumption DEF Hand
      <4> QED BY <2>2, <4>2, <4>3 DEF Placed, Parted
    <3> QED BY <3>2, <3>3
  <2> QED BY <1>8, <2>3, <2>4 DEF Get
<1>9. CASE Spoke \/ SpeakerRaised
  <2>1. text # NONE /\ text \in Lines
    BY <1>1, <1>9 DEF Spoke, SpeakerRaised, IInv, HandInStep
  <2>2. Hand(text) = {text} /\ Hand(text') = {}
    BY <1>9, <2>1 DEF Spoke, SpeakerRaised, Hand
  <2>3. UNCHANGED <<next, queue, shed>> /\ InQueue' = InQueue
    BY <1>9 DEF Spoke, SpeakerRaised, InQueue
  <2>4. \/ Range(spoken') = Range(spoken) \cup {text} /\ failed' = failed
        \/ spoken' = spoken /\ failed' = failed \cup {text}
    <3>1. Range(Append(spoken, text)) = Range(spoken) \cup {text}
      BY <1>1, <2>1, RangeGrows
    <3> QED BY <1>9, <3>1 DEF Spoke, SpeakerRaised
  <2> QED BY <2>2, <2>3, <2>4 DEF Placed, Parted
<1>10. CASE UNCHANGED vars
  BY <1>2, <1>10 DEF vars
<1> QED BY <1>4, <1>5, <1>6, <1>7, <1>8, <1>9, <1>10 DEF Next, Work, Call

\* A line that entered the queue is queued, in the worker's hand, spoken, failed
\* or shed, and in one of these places only, whatever the callers, the stop and
\* the worker interleave (say, _run).
THEOREM OnePlace == Spec => []EachLineInOnePlace
<1>1. Init => Placed
  <2> SUFFICES ASSUME Init PROVE Placed
    OBVIOUS
  <2>1. InQueue = {} /\ Hand(text) = {} /\ Range(spoken) = {} /\ failed = {} /\ shed = {}
    BY DEF Init, InQueue, Hand, Range
  <2>2. 1 .. next - 1 = {}
    BY DEF Init
  <2> QED BY <2>1, <2>2 DEF Placed, Parted
<1>2. Placed => EachLineInOnePlace
  <2> SUFFICES ASSUME Placed PROVE EachLineInOnePlace
    OBVIOUS
  <2> DEFINE places == <<InQueue, {text} \ {NONE}, Range(spoken), failed, shed>>
  <2>1. /\ DOMAIN places = 1 .. 5 /\ places[1] = InQueue /\ places[2] = {text} \ {NONE}
        /\ places[3] = Range(spoken) /\ places[4] = failed /\ places[5] = shed
    OBVIOUS
  <2>2. 1 .. 5 = {1, 2, 3, 4, 5}
    OBVIOUS
  <2>3. Range(places) = {InQueue, {text} \ {NONE}, Range(spoken), failed, shed}
    BY <2>1, <2>2 DEF Range
  <2>4. 1 .. next - 1 = UNION Range(places)
    BY <2>3 DEF Placed, Parted, Hand
  <2>5. \A j, k \in DOMAIN places : j # k => places[j] \cap places[k] = {}
    BY <2>1, <2>2 DEF Placed, Parted, Hand
  <2> QED BY <2>4, <2>5 DEF EachLineInOnePlace
<1> QED BY <1>1, <1>2, InitIInv, NextIInv, NextPlaced, PTL DEF Spec

-----------------------------------------------------------------------------
\* The page.

\* The variables of WebStream.
WebTypeOK ==
  /\ version \in 0 .. MaxVersion /\ sequence \in Nat
  /\ step \in [Web!Threads -> {"idle", "number", "ready"}]
  /\ frame \in [Web!Threads -> Web!Frames]
  /\ conn \in [Conns -> {"closed", "register", "prime", "stream", "gone"}]
  /\ clients \in SUBSET Conns
  /\ backlog \in [Conns -> Seq(Web!Frames)] /\ wire \in [Conns -> Seq(Web!Frames)]
  /\ current \in Conns \cup {NONE} /\ shown \in Web!Frames
  /\ sent \in [Conns -> SUBSET Web!Frames]

\* Only a connection that has registered is handed frames.
OnlyClientsAreSent ==
  \A c \in Conns :
    /\ c \in clients => conn[c] \in {"prime", "stream"}
    /\ conn[c] \in {"closed", "register"} => sent[c] = {}

\* A request thread builds its first frame after it registered.
PrimesInStep ==
  \A c \in Conns : step[c] # "idle" => conn[c] = "prime"

\* The push thread numbers its frames upwards, and a backlog has no others.
PushedUpwards ==
  /\ frame["push"].number <= sequence
  /\ \A c \in Conns : \A i \in DOMAIN backlog[c] :
       backlog[c][i].number <= frame["push"].number

\* A frame at least as new as number n is on its way to the page.
OnItsWay(c, n) ==
  \/ \E i \in DOMAIN backlog[c] : n <= backlog[c][i].number
  \/ \E i \in DOMAIN wire[c] : n <= wire[c][i].number

\* What was handed to the page's connection is shown, or a frame as new as it
\* is, or is on its way.
NothingNewerIsLost ==
  \A c \in Conns :
    current = c /\ conn[c] \in {"prime", "stream"} =>
      \A f \in sent[c] : f.number <= shown.number \/ OnItsWay(c, f.number)

WebInv ==
  /\ WebTypeOK /\ OnlyClientsAreSent /\ PrimesInStep
  /\ PushedUpwards /\ NothingNewerIsLost

-----------------------------------------------------------------------------
\* What a full backlog sheds leaves the newest entries, the last one included.
LEMMA ShedKeepsTheLast ==
  ASSUME NEW b \in Seq(Web!Frames), NEW f \in Web!Frames
  PROVE  LET s == Web!Shed(Append(b, f)) IN
         /\ s \in Seq(Web!Frames)
         /\ \E i \in DOMAIN s : s[i] = f
         /\ \A i \in DOMAIN s : s[i] = f \/ \E j \in DOMAIN b : s[i] = b[j]
<1> DEFINE a == Append(b, f)
           s == Web!Shed(a)
<1>0. Backlog \in Nat \ {0}
  BY WebAssumption DEF Web!Bounds
<1> USE <1>0
<1>1. /\ a \in Seq(Web!Frames) /\ Len(a) = Len(b) + 1 /\ a[Len(b) + 1] = f
      /\ \A i \in 1 .. Len(b) : a[i] = b[i]
  OBVIOUS
<1>2. CASE Len(a) <= Backlog
  <2>1. s = a
    BY <1>1, <1>2 DEF Web!Shed
  <2>2. QED BY <1>1, <2>1
<1>3. CASE Len(a) > Backlog
  <2> DEFINE m == Len(a) - Backlog
  <2>1. s = SubSeq(a, m + 1, Len(a)) /\ m \in Nat /\ m < Len(a)
    BY <1>1, <1>3 DEF Web!Shed
  <2>2. /\ s \in Seq(Web!Frames) /\ Len(s) = Backlog
        /\ \A i \in 1 .. Backlog : s[i] = a[i + m]
    BY <1>1, <2>1
  <2>3. s[Backlog] = f /\ Backlog \in DOMAIN s
    BY <1>1, <2>2
  <2>4. \A i \in DOMAIN s : s[i] = f \/ \E j \in DOMAIN b : s[i] = b[j]
    <3>1. TAKE i \in DOMAIN s
    <3>2. i \in 1 .. Backlog
      BY <2>2
    <3>3. s[i] = a[i + m]
      BY <2>2, <3>2
    <3>4. i + m \in 1 .. Len(b) + 1
      <4>1. Len(b) \in Nat /\ m \in Nat /\ m = Len(b) + 1 - Backlog
        BY <1>1, <2>1
      <4>2. QED BY <3>2, <4>1
    <3>5. QED BY <1>1, <3>3, <3>4
  <2>5. QED BY <2>2, <2>3, <2>4
<1>4. QED BY <1>1, <1>2, <1>3


-----------------------------------------------------------------------------
\* The frames of a sequence have numbers.
LEMMA FramesAreNumbered ==
  ASSUME NEW s \in Seq(Web!Frames), NEW i \in DOMAIN s
  PROVE  s[i] \in Web!Frames /\ s[i].number \in Nat
<1>1. s[i] \in Web!Frames
  OBVIOUS
<1>2. QED BY <1>1 DEF Web!Frames

\* What is appended comes after all that was there.
LEMMA AppendedAfter ==
  ASSUME NEW v \in Seq(Web!Frames), NEW w \in Seq(Web!Frames)
  PROVE  /\ \A i \in DOMAIN v : i \in DOMAIN (v \o w) /\ (v \o w)[i] = v[i]
         /\ \A i \in DOMAIN w : /\ Len(v) + i \in DOMAIN (v \o w)
                               /\ (v \o w)[Len(v) + i] = w[i]
<1>1. /\ Len(v) \in Nat /\ DOMAIN v = 1 .. Len(v) /\ Len(w) \in Nat /\ DOMAIN w = 1 .. Len(w)
      /\ v \o w \in Seq(Web!Frames) /\ Len(v \o w) = Len(v) + Len(w)
      /\ DOMAIN (v \o w) = 1 .. Len(v) + Len(w)
      /\ \A k \in 1 .. Len(v) + Len(w) :
           (v \o w)[k] = IF k <= Len(v) THEN v[k] ELSE w[k - Len(v)]
  OBVIOUS
<1>2. QED BY <1>1

\* Nothing is sent or shown before the first frame.
LEMMA WebInitially == Web!Init => WebInv
<1> SUFFICES ASSUME Web!Init PROVE WebInv
  OBVIOUS
<1>1. NONE \notin Conns /\ "push" \notin Conns /\ "push" \in Web!Threads
  BY WebAssumption DEF Web!ThreadsDiffer, Web!Threads
<1>2. WebTypeOK
  <2>1. [version |-> 0, number |-> 0] \in Web!Frames
    BY WebAssumption DEF Web!Frames, Web!Bounds
  <2>2. QED
    BY <2>1, WebAssumption DEF Web!Init, WebTypeOK, Web!Bounds
<1>3. OnlyClientsAreSent /\ PrimesInStep
  BY DEF Web!Init, OnlyClientsAreSent, PrimesInStep, Web!Threads
<1>4. PushedUpwards
  BY <1>1 DEF Web!Init, PushedUpwards
<1>5. NothingNewerIsLost
  BY DEF Web!Init, NothingNewerIsLost
<1>6. QED BY <1>2, <1>3, <1>4, <1>5 DEF WebInv

\* The scanner writes the state.
LEMMA WriteKeeps == WebInv /\ Web!Write => WebInv'
<1> SUFFICES ASSUME WebInv, Web!Write PROVE WebInv'
  OBVIOUS
<1> USE DEF WebInv, Web!Write, Web!building, Web!streams, Web!page
<1>1. WebTypeOK'
  BY WebAssumption DEF WebTypeOK, Web!Bounds
<1>2. QED
  BY <1>1 DEF OnlyClientsAreSent, PrimesInStep, PushedUpwards, NothingNewerIsLost, OnItsWay

\* A frame being built is not on its way yet.
LEMMA BuildKeeps ==
  ASSUME WebInv, NEW t \in Web!Threads, Web!Build(t)
  PROVE  WebInv'
<1>0. "push" \in Web!Threads
  BY DEF Web!Threads
<1>1. CASE Web!Copy(t)
  <2> USE <1>1 DEF WebInv, Web!Copy, Web!streams, Web!page
  <2>1. frame'[t] = [frame[t] EXCEPT !.version = version]
    BY DEF WebTypeOK
  <2>2. frame'[t] \in Web!Frames /\ frame'[t].number = frame[t].number
    BY <2>1 DEF WebTypeOK, Web!Frames
  <2>3. WebTypeOK'
    BY <2>2 DEF WebTypeOK
  <2>4. PushedUpwards'
    <3>1. frame'["push"].number = frame["push"].number
      BY <1>0, <2>2 DEF WebTypeOK
    <3>2. QED BY <3>1 DEF PushedUpwards
  <2>5. PrimesInStep'
    <3>1. t \in Conns => Web!Wanted(t) /\ conn[t] = "prime"
      BY WebAssumption DEF Web!Wanted, Web!ThreadsDiffer
    <3>2. QED BY <3>1 DEF PrimesInStep, WebTypeOK
  <2>6. QED
    BY <2>3, <2>4, <2>5 DEF OnlyClientsAreSent, NothingNewerIsLost, OnItsWay
<1>2. CASE Web!Number(t)
  <2> USE <1>2 DEF WebInv, Web!Number, Web!streams, Web!page
  <2>1. frame'[t] = [frame[t] EXCEPT !.number = sequence + 1]
    BY DEF WebTypeOK
  <2>2. frame'[t] \in Web!Frames /\ frame'[t].number = sequence + 1
    <3>1. frame[t] \in Web!Frames /\ sequence + 1 \in Nat
      BY DEF WebTypeOK
    <3>2. QED BY <2>1, <3>1, Zenon DEF Web!Frames
  <2>3. WebTypeOK'
    BY <2>2 DEF WebTypeOK
  <2>4. PushedUpwards'
    <3>1. /\ frame'["push"].number \in {frame["push"].number, sequence + 1}
          /\ frame["push"].number \in Nat /\ sequence \in Nat
      <4>1. frame["push"].number \in Nat /\ sequence \in Nat
        BY <1>0 DEF WebTypeOK, Web!Frames
      <4>2. CASE t = "push"
        BY <2>2, <4>1, <4>2
      <4>3. CASE t # "push"
        BY <1>0, <4>1, <4>3 DEF WebTypeOK
      <4>4. QED BY <4>2, <4>3
    <3>2. \A c \in Conns : \A i \in DOMAIN backlog[c] : backlog[c][i].number \in Nat
      BY FramesAreNumbered DEF WebTypeOK
    <3>3. /\ frame["push"].number <= frame'["push"].number
          /\ frame'["push"].number <= sequence'
      BY <3>1 DEF PushedUpwards
    <3>4. QED BY <3>1, <3>2, <3>3 DEF PushedUpwards
  <2>5. PrimesInStep'
    BY DEF PrimesInStep, WebTypeOK, Web!Threads
  <2>6. QED
    BY <2>3, <2>4, <2>5 DEF OnlyClientsAreSent, NothingNewerIsLost, OnItsWay
<1>3. QED BY <1>1, <1>2 DEF Web!Build

\* The newest of all frames covers what a full backlog sheds.
LEMMA PushKeeps == WebInv /\ Web!Push => WebInv'
<1> SUFFICES ASSUME WebInv, Web!Push PROVE WebInv'
  OBVIOUS
<1> DEFINE f == frame["push"]
<1> USE DEF WebInv, Web!Push, Web!Finished, Web!page
<1>1. f \in Web!Frames /\ "push" \in Web!Threads /\ f.number \in Nat
  BY DEF WebTypeOK, Web!Threads, Web!Frames
<1>2. ASSUME NEW c \in Conns
      PROVE  /\ backlog[c] \in Seq(Web!Frames) /\ backlog'[c] \in Seq(Web!Frames)
             /\ \A i \in DOMAIN backlog'[c] :
                  backlog'[c][i] = f \/ \E j \in DOMAIN backlog[c] : backlog'[c][i] = backlog[c][j]
             /\ c \in clients => \E i \in DOMAIN backlog'[c] : backlog'[c][i] = f
             /\ c \notin clients => backlog'[c] = backlog[c] /\ sent'[c] = sent[c]
             /\ c \in clients => sent'[c] = sent[c] \cup {f}
  <2>1. backlog[c] \in Seq(Web!Frames)
    BY DEF WebTypeOK
  <2>2. CASE c \in clients
    <3>1. backlog'[c] = Web!Shed(Append(backlog[c], f)) /\ sent'[c] = sent[c] \cup {f}
      BY <2>2
    <3> DEFINE s == Web!Shed(Append(backlog[c], f))
    <3>2. /\ s \in Seq(Web!Frames)
          /\ \E i \in DOMAIN s : s[i] = f
          /\ \A i \in DOMAIN s : s[i] = f \/ \E j \in DOMAIN backlog[c] : s[i] = backlog[c][j]
      BY <1>1, <2>1, ShedKeepsTheLast
    <3>3. backlog'[c] = s
      BY <3>1
    <3> HIDE DEF s
    <3>4. QED BY <2>1, <2>2, <3>1, <3>2, <3>3
  <2>3. CASE c \notin clients
    BY <2>1, <2>3
  <2>4. QED BY <2>1, <2>2, <2>3
<1>3. WebTypeOK'
  <2>1. backlog' \in [Conns -> Seq(Web!Frames)]
    BY <1>2
  <2>2. sent' \in [Conns -> SUBSET Web!Frames]
    BY <1>1, <1>2 DEF WebTypeOK
  <2>3. step' \in [Web!Threads -> {"idle", "number", "ready"}]
    BY DEF WebTypeOK
  <2>4. QED BY <2>1, <2>2, <2>3 DEF WebTypeOK
<1>4. OnlyClientsAreSent' /\ PrimesInStep'
  BY <1>2 DEF OnlyClientsAreSent, PrimesInStep, WebTypeOK, Web!Threads
<1>5. PushedUpwards'
  <2>1. frame' = frame /\ sequence' = sequence
    OBVIOUS
  <2>2. ASSUME NEW c \in Conns, NEW i \in DOMAIN backlog'[c]
        PROVE  backlog'[c][i].number <= f.number
    <3>1. backlog'[c][i] = f \/ \E j \in DOMAIN backlog[c] : backlog'[c][i] = backlog[c][j]
      BY <1>2, <2>2
    <3>2. QED BY <1>1, <3>1 DEF PushedUpwards
  <2>3. QED BY <2>1, <2>2 DEF PushedUpwards
<1>6. NothingNewerIsLost'
  <2> SUFFICES ASSUME NEW c \in Conns, current' = c, conn'[c] \in {"prime", "stream"},
                      NEW g \in sent'[c]
               PROVE  g.number <= shown'.number \/ OnItsWay(c, g.number)'
    BY DEF NothingNewerIsLost
  <2>1. CASE c \notin clients
    BY <1>2, <2>1 DEF NothingNewerIsLost, OnItsWay
  <2>2. CASE c \in clients
    <3>1. PICK k \in DOMAIN backlog'[c] : backlog'[c][k] = f
      BY <1>2, <2>2
    <3>2. g = f \/ g \in sent[c]
      BY <1>2, <2>2
    <3>3. CASE g = f
      BY <1>1, <3>1, <3>3 DEF OnItsWay
    <3>4. CASE g \in sent[c]
      <4>1. g.number \in Nat
        BY <3>4 DEF WebTypeOK, Web!Frames
      <4>2. CASE \E i \in DOMAIN backlog[c] : g.number <= backlog[c][i].number
        <5>1. PICK i \in DOMAIN backlog[c] : g.number <= backlog[c][i].number
          BY <4>2
        <5>2. backlog[c][i].number \in Nat
          BY <1>2, FramesAreNumbered
        <5>3. backlog[c][i].number <= f.number
          BY DEF PushedUpwards
        <5>4. g.number <= backlog'[c][k].number
          BY <1>1, <3>1, <4>1, <5>1, <5>2, <5>3
        <5>5. QED BY <5>4 DEF OnItsWay
      <4>3. CASE ~\E i \in DOMAIN backlog[c] : g.number <= backlog[c][i].number
        BY <3>4, <4>3 DEF NothingNewerIsLost, OnItsWay
      <4>4. QED BY <4>2, <4>3
    <3>5. QED BY <3>2, <3>3, <3>4
  <2>3. QED BY <2>1, <2>2
<1>7. QED BY <1>3, <1>4, <1>5, <1>6

\* What is shown only becomes newer.
LEMMA AppliedIsNewer ==
  ASSUME WebTypeOK, NEW f \in Web!Frames
  PROVE  /\ Web!Applied(f) \in Web!Frames
         /\ shown.number <= Web!Applied(f).number /\ f.number <= Web!Applied(f).number
<1>1. f.number \in Nat /\ shown \in Web!Frames /\ shown.number \in Nat
  BY DEF WebTypeOK, Web!Frames
<1>2. QED BY <1>1 DEF Web!Applied

\* A page that shows something newer lacks nothing it did not lack before.
LEMMA NewerKeeps ==
  ASSUME WebInv, shown' \in Web!Frames, shown.number <= shown'.number,
         UNCHANGED <<version, sequence, frame, conn, clients, backlog, wire, sent, current>>,
         step' \in [Web!Threads -> {"idle", "number", "ready"}], PrimesInStep'
  PROVE  WebInv'
<1> USE DEF WebInv
<1>1. WebTypeOK'
  BY DEF WebTypeOK
<1>2. OnlyClientsAreSent' /\ PushedUpwards'
  BY DEF OnlyClientsAreSent, PushedUpwards
<1>3. NothingNewerIsLost'
  <2> SUFFICES ASSUME NEW c \in Conns, current = c, conn[c] \in {"prime", "stream"},
                      NEW f \in sent[c]
               PROVE  f.number <= shown'.number \/ OnItsWay(c, f.number)
    BY DEF NothingNewerIsLost, OnItsWay
  <2>1. f.number <= shown.number \/ OnItsWay(c, f.number)
    BY DEF NothingNewerIsLost
  <2>2. {f.number, shown.number, shown'.number} \subseteq Nat
    BY DEF WebTypeOK, Web!Frames
  <2>3. QED BY <2>1, <2>2
<1>4. QED BY <1>1, <1>2, <1>3

\* A page that is loaded.
LEMMA LoadKeeps == WebInv /\ Web!Load => WebInv'
<1> SUFFICES ASSUME WebInv, Web!Load PROVE WebInv'
  OBVIOUS
<1> USE DEF Web!Load, Web!Finished, Web!streams
<1>1. frame["load"] \in Web!Frames /\ WebTypeOK
  BY DEF WebInv, WebTypeOK, Web!Threads
<1>2. shown' \in Web!Frames /\ shown.number <= shown'.number
  BY <1>1, AppliedIsNewer
<1>3. step' \in [Web!Threads -> {"idle", "number", "ready"}]
  BY <1>1 DEF WebTypeOK
<1>4. PrimesInStep'
  BY DEF WebInv, WebTypeOK, PrimesInStep, Web!Threads
<1>5. QED BY <1>2, <1>3, <1>4, NewerKeeps

\* A connection that just opened has been handed nothing.
LEMMA ConnectKeeps ==
  ASSUME WebInv, NEW c \in Conns, Web!Connect(c)
  PROVE  WebInv'
<1> USE DEF WebInv, Web!Connect, Web!building
<1>1. WebTypeOK'
  BY DEF WebTypeOK
<1>2. conn'[c] = "register" /\ \A d \in Conns \ {c} : conn'[d] = conn[d]
  BY DEF WebTypeOK
<1>3. OnlyClientsAreSent' /\ PrimesInStep'
  BY <1>2 DEF OnlyClientsAreSent, PrimesInStep
<1>4. PushedUpwards'
  BY DEF PushedUpwards
<1>5. NothingNewerIsLost'
  BY <1>2 DEF NothingNewerIsLost
<1>6. QED BY <1>1, <1>3, <1>4, <1>5

\* A connection that is registered.
LEMMA RegisterKeeps ==
  ASSUME WebInv, NEW c \in Conns, Web!Register(c)
  PROVE  WebInv'
<1> USE DEF WebInv, Web!Register, Web!building
<1>1. WebTypeOK'
  BY DEF WebTypeOK
<1>2. /\ conn'[c] \in {"closed", "prime"} /\ sent[c] = {}
      /\ \A d \in Conns \ {c} : conn'[d] = conn[d]
      /\ clients' \subseteq clients \cup {c}
      /\ c \in clients' => conn'[c] = "prime"
  BY DEF WebTypeOK, OnlyClientsAreSent
<1>3. OnlyClientsAreSent'
  <2> SUFFICES ASSUME NEW d \in Conns
               PROVE  /\ d \in clients' => conn'[d] \in {"prime", "stream"}
                      /\ conn'[d] \in {"closed", "register"} => sent[d] = {}
    BY DEF OnlyClientsAreSent
  <2>1. CASE d = c
    BY <1>2, <2>1
  <2>2. CASE d # c
    BY <1>2, <2>2 DEF OnlyClientsAreSent
  <2>3. QED BY <2>1, <2>2
<1>4. PushedUpwards'
  BY DEF PushedUpwards
<1>5. NothingNewerIsLost'
  <2> SUFFICES ASSUME NEW d \in Conns, current' = d, conn'[d] \in {"prime", "stream"},
                      NEW f \in sent[d]
               PROVE  f.number <= shown.number \/ OnItsWay(d, f.number)
    BY DEF NothingNewerIsLost, OnItsWay
  <2>1. current = d /\ d # c
    BY <1>2, WebAssumption DEF Web!ThreadsDiffer, Web!Threads
  <2>2. QED BY <1>2, <2>1 DEF NothingNewerIsLost
<1>6. PrimesInStep'
  BY <1>2 DEF PrimesInStep
<1>7. QED BY <1>1, <1>3, <1>4, <1>5, <1>6

\* A client that is gone is not the page's connection.
LEMMA UnregisterKeeps ==
  ASSUME WebInv, NEW c \in Conns, current # c, conn[c] \in {"prime", "stream"},
         Web!Unregister(c),
         UNCHANGED <<version, sequence, frame, sent, current, shown>>,
         step' \in [Web!Threads -> {"idle", "number", "ready"}], PrimesInStep'
  PROVE  WebInv'
<1> USE DEF WebInv, Web!Unregister
<1>1. WebTypeOK'
  BY DEF WebTypeOK
<1>2. /\ conn'[c] = "gone" /\ backlog'[c] = <<>> /\ c \notin clients'
      /\ \A d \in Conns \ {c} : /\ conn'[d] = conn[d] /\ backlog'[d] = backlog[d]
                                 /\ wire'[d] = wire[d]
      /\ clients' \subseteq clients
  BY DEF WebTypeOK
<1>3. OnlyClientsAreSent'
  BY <1>2 DEF OnlyClientsAreSent
<1>4. PushedUpwards'
  <2>1. ASSUME NEW d \in Conns, NEW i \in DOMAIN backlog'[d]
        PROVE  backlog'[d][i].number <= frame["push"].number
    <3>1. d # c
      BY <1>2, <2>1
    <3>2. QED BY <1>2, <2>1, <3>1 DEF PushedUpwards
  <2>2. QED BY <2>1 DEF PushedUpwards
<1>5. NothingNewerIsLost'
  BY <1>2 DEF NothingNewerIsLost, OnItsWay
<1>6. QED BY <1>1, <1>3, <1>4, <1>5

\* The first frame is on the wire.
LEMMA PrimeKeeps ==
  ASSUME WebInv, NEW c \in Conns, Web!Prime(c)
  PROVE  WebInv'
<1> USE DEF Web!Prime, Web!Finished, Web!page
<1>0. c \in Web!Threads /\ frame[c] \in Web!Frames /\ frame[c].number \in Nat
  BY DEF WebInv, WebTypeOK, Web!Threads, Web!Frames
<1>1. step' \in [Web!Threads -> {"idle", "number", "ready"}] /\ conn[c] = "prime"
  BY DEF WebInv, WebTypeOK, PrimesInStep
<1>5. PrimesInStep'
  BY <1>0 DEF WebInv, WebTypeOK, PrimesInStep, Web!Unregister, Web!Threads
<1>2. CASE current # c
  BY <1>1, <1>5, <1>2, UnregisterKeeps
<1>3. CASE current = c
  <2> USE <1>3 DEF WebInv
  <2>1. /\ conn'[c] = "stream" /\ wire'[c] = Append(wire[c], frame[c])
        /\ sent'[c] = sent[c] \cup {frame[c]} /\ wire[c] \in Seq(Web!Frames)
        /\ \A d \in Conns \ {c} : /\ conn'[d] = conn[d] /\ sent'[d] = sent[d]
    BY DEF WebTypeOK
  <2>2. WebTypeOK'
    <3>1. Append(wire[c], frame[c]) \in Seq(Web!Frames) /\ sent[c] \cup {frame[c]} \in SUBSET Web!Frames
      BY <1>0, <2>1 DEF WebTypeOK
    <3>2. wire' \in [Conns -> Seq(Web!Frames)] /\ sent' \in [Conns -> SUBSET Web!Frames]
      BY <3>1 DEF WebTypeOK
    <3>3. QED BY <1>1, <3>2 DEF WebTypeOK
  <2>3. OnlyClientsAreSent'
    BY <2>1 DEF OnlyClientsAreSent
  <2>4. PushedUpwards'
    BY DEF PushedUpwards
  <2>5. NothingNewerIsLost'
    <3> SUFFICES ASSUME NEW f \in sent'[c]
                 PROVE  f.number <= shown.number \/ OnItsWay(c, f.number)'
      BY DEF NothingNewerIsLost, OnItsWay
    <3>1. /\ DOMAIN wire'[c] = 1 .. Len(wire[c]) + 1 /\ DOMAIN wire[c] = 1 .. Len(wire[c])
          /\ \A i \in DOMAIN wire[c] : i \in DOMAIN wire'[c] /\ wire'[c][i] = wire[c][i]
          /\ wire'[c][Len(wire[c]) + 1] = frame[c] /\ Len(wire[c]) + 1 \in DOMAIN wire'[c]
      BY <2>1, <1>0
    <3>2. CASE f = frame[c]
      <4>1. f.number <= frame[c].number
        BY <1>0, <3>2
      <4>2. QED BY <3>1, <4>1 DEF OnItsWay
    <3>3. CASE f \in sent[c]
      <4>1. f.number <= shown.number \/ OnItsWay(c, f.number)
        BY <1>1, <3>3 DEF NothingNewerIsLost
      <4>2. QED BY <3>1, <4>1 DEF OnItsWay
    <3>4. QED BY <2>1, <3>2, <3>3
  <2>6. QED BY <1>5, <2>2, <2>3, <2>4, <2>5
<1>4. QED BY <1>2, <1>3

\* What the backlog had is on the wire.
LEMMA DrainKeeps ==
  ASSUME WebInv, NEW c \in Conns, Web!Drain(c)
  PROVE  WebInv'
<1> USE DEF WebInv, Web!Drain, Web!building, Web!page
<1> DEFINE w == wire[c]
           b == backlog[c]
<1>1. /\ w \in Seq(Web!Frames) /\ b \in Seq(Web!Frames)
      /\ wire'[c] = w \o b /\ backlog'[c] = <<>>
      /\ \A d \in Conns \ {c} : wire'[d] = wire[d] /\ backlog'[d] = backlog[d]
  BY DEF WebTypeOK
<1>2. WebTypeOK'
  BY <1>1 DEF WebTypeOK
<1>3. OnlyClientsAreSent' /\ PrimesInStep'
  BY DEF OnlyClientsAreSent, PrimesInStep
<1>4. PushedUpwards'
  <2>1. ASSUME NEW d \in Conns, NEW i \in DOMAIN backlog'[d]
        PROVE  backlog'[d][i].number <= frame["push"].number
    <3>1. d # c
      BY <1>1, <2>1
    <3>2. QED BY <1>1, <2>1, <3>1 DEF PushedUpwards
  <2>2. QED BY <2>1 DEF PushedUpwards
<1>5. NothingNewerIsLost'
  <2> SUFFICES ASSUME NEW f \in sent[c], OnItsWay(c, f.number)
               PROVE  OnItsWay(c, f.number)'
    BY DEF NothingNewerIsLost
  <2>1. CASE \E i \in DOMAIN b : f.number <= b[i].number
    <3>1. PICK i \in DOMAIN b : f.number <= b[i].number
      BY <2>1
    <3>2. /\ Len(w) + i \in DOMAIN (w \o b) /\ (w \o b)[Len(w) + i] = b[i]
      BY <1>1, <3>1, AppendedAfter
    <3>3. QED BY <1>1, <3>1, <3>2 DEF OnItsWay
  <2>2. CASE \E i \in DOMAIN w : f.number <= w[i].number
    <3>1. PICK i \in DOMAIN w : f.number <= w[i].number
      BY <2>2
    <3>2. i \in DOMAIN (w \o b) /\ (w \o b)[i] = w[i]
      BY <1>1, <3>1, AppendedAfter
    <3>3. QED BY <1>1, <3>1, <3>2 DEF OnItsWay
  <2>3. QED BY <2>1, <2>2 DEF OnItsWay
<1>6. QED BY <1>2, <1>3, <1>4, <1>5

\* A dead connection that the server finds.
LEMMA FindBrokenKeeps ==
  ASSUME WebInv, NEW c \in Conns, Web!FindBroken(c)
  PROVE  WebInv'
<1> USE DEF Web!FindBroken, Web!building, Web!page
<1>1. step' \in [Web!Threads -> {"idle", "number", "ready"}]
  BY DEF WebInv, WebTypeOK
<1>2. PrimesInStep'
  BY DEF WebInv, WebTypeOK, PrimesInStep, Web!Unregister
<1>3. QED BY <1>1, <1>2, UnregisterKeeps

\* The frame that is read is shown, unless something newer is.
LEMMA ReceiveKeeps ==
  ASSUME WebInv, NEW c \in Conns, Web!Receive(c)
  PROVE  WebInv'
<1> USE DEF WebInv, Web!Receive, Web!building
<1> DEFINE w == wire[c]
<1>1. /\ w \in Seq(Web!Frames) /\ w # <<>> /\ wire'[c] = Tail(w)
      /\ \A d \in Conns \ {c} : wire'[d] = wire[d]
  BY DEF WebTypeOK
<1>2. Head(w) \in Web!Frames /\ Head(w) = w[1] /\ w[1].number \in Nat
  <2>1. 1 \in DOMAIN w /\ Head(w) = w[1]
    BY <1>1
  <2>2. QED BY <1>1, <2>1, FramesAreNumbered
<1>3. /\ shown' \in Web!Frames /\ shown.number <= shown'.number
      /\ w[1].number <= shown'.number
  BY <1>2, AppliedIsNewer
<1>4. WebTypeOK'
  <2>1. Tail(w) \in Seq(Web!Frames)
    BY <1>1
  <2>2. wire' \in [Conns -> Seq(Web!Frames)]
    BY <2>1 DEF WebTypeOK
  <2>3. QED BY <1>3, <2>2 DEF WebTypeOK
<1>5. OnlyClientsAreSent' /\ PrimesInStep' /\ PushedUpwards'
  BY DEF OnlyClientsAreSent, PrimesInStep, PushedUpwards
<1>6. NothingNewerIsLost'
  <2> SUFFICES ASSUME conn[c] \in {"prime", "stream"}, NEW f \in sent[c]
               PROVE  f.number <= shown'.number \/ OnItsWay(c, f.number)'
    BY DEF NothingNewerIsLost
  <2>1. {f.number, shown.number, shown'.number} \subseteq Nat
    BY <1>3 DEF WebTypeOK, Web!Frames
  <2>2. CASE f.number <= shown.number
    BY <1>3, <2>1, <2>2
  <2>3. CASE \E i \in DOMAIN backlog[c] : f.number <= backlog[c][i].number
    BY <2>3 DEF OnItsWay
  <2>4. CASE \E i \in DOMAIN w : f.number <= w[i].number
    <3>1. PICK i \in DOMAIN w : f.number <= w[i].number
      BY <2>4
    <3>2. CASE i = 1
      BY <1>2, <1>3, <2>1, <3>1, <3>2
    <3>3. CASE i # 1
      <4>1. i - 1 \in DOMAIN Tail(w) /\ Tail(w)[i - 1] = w[i]
        BY <1>1, <3>3
      <4>2. QED BY <1>1, <3>1, <4>1 DEF OnItsWay
    <3>4. QED BY <3>2, <3>3
  <2>5. QED BY <2>2, <2>3, <2>4 DEF NothingNewerIsLost, OnItsWay
<1>7. QED BY <1>4, <1>5, <1>6

\* A connection that breaks.
LEMMA BreakKeeps == WebInv /\ Web!Break => WebInv'
<1> SUFFICES ASSUME WebInv, Web!Break PROVE WebInv'
  OBVIOUS
<1> USE DEF WebInv, Web!Break, Web!building, Web!streams
<1>1. NONE \notin Conns
  BY WebAssumption DEF Web!ThreadsDiffer, Web!Threads
<1>2. QED
  BY <1>1 DEF WebTypeOK, OnlyClientsAreSent, PrimesInStep, PushedUpwards,
                NothingNewerIsLost

-----------------------------------------------------------------------------
\* Every step of the composition keeps what the pages rely on.
LEMMA WebStepKeeps == WebInv /\ [FrontEndNext]_<<part, vars, webVars>> => WebInv'
<1> SUFFICES ASSUME WebInv, [FrontEndNext]_<<part, vars, webVars>> PROVE WebInv'
  OBVIOUS
<1>1. ASSUME UNCHANGED webVars PROVE WebInv'
  BY <1>1 DEF webVars, WebInv, WebTypeOK, OnlyClientsAreSent, PrimesInStep, PushedUpwards,
              NothingNewerIsLost, OnItsWay
<1>2. CASE Stream(Web!Write)
  BY <1>2, WriteKeeps DEF Stream
<1>3. CASE Stream(Web!Push)
  BY <1>3, PushKeeps DEF Stream
<1>4. CASE Stream(Web!Load)
  BY <1>4, LoadKeeps DEF Stream
<1>5. CASE Stream(Web!Break)
  BY <1>5, BreakKeeps DEF Stream
<1>6. CASE \E t \in Web!Threads : Stream(Web!Build(t))
  BY <1>6, BuildKeeps DEF Stream
<1>7. CASE \E c \in Conns : Stream(Web!Connect(c))
  BY <1>7, ConnectKeeps DEF Stream
<1>8. CASE \E c \in Conns : Stream(Web!Serve(c))
  BY <1>8, RegisterKeeps, PrimeKeeps, DrainKeeps, FindBrokenKeeps DEF Stream, Web!Serve
<1>9. CASE \E c \in Conns : Stream(Web!Receive(c))
  BY <1>9, ReceiveKeeps DEF Stream
<1>10. CASE UNCHANGED <<part, vars, webVars>>
  BY <1>1, <1>10
<1>11. CASE \/ \E c \in Callers : Voice(Say(c))
            \/ \E c \in Callers : Voice(Call(c))
            \/ Voice(StopFlag) \/ Voice(StopMarker) \/ Voice(Work)
  BY <1>1, <1>11 DEF Voice
<1>12. QED
  BY <1>2, <1>3, <1>4, <1>5, <1>6, <1>7, <1>8, <1>9, <1>10, <1>11 DEF FrontEndNext

\* A page with nothing left to read shows the newest frame.
LEMMA NewestFollows == WebInv => NewestFrameIsShown
<1> SUFFICES ASSUME WebInv, current # NONE, conn[current] = "stream", Web!Idle(current),
                    NEW f \in sent[current]
             PROVE  f.number <= shown.number
  BY DEF NewestFrameIsShown, Web!NewestFrameIsShown
<1>1. current \in Conns
  BY DEF WebInv, WebTypeOK
<1>2. f.number <= shown.number \/ OnItsWay(current, f.number)
  BY <1>1 DEF WebInv, NothingNewerIsLost
<1>3. ~OnItsWay(current, f.number)
  BY DEF Web!Idle, OnItsWay
<1>4. QED BY <1>2, <1>3

\* A page that has read everything shows the newest of the frames its
\* connection was handed, for any backlog, any number of clients and any
\* number of connections that break (push, drain, register, apply).
THEOREM NewestIsShown == FrontEndSpec => []NewestFrameIsShown
<1>1. FrontEndInit => WebInv
  BY WebInitially DEF FrontEndInit
<1>2. QED
  BY <1>1, WebStepKeeps, NewestFollows, PTL DEF FrontEndSpec

-----------------------------------------------------------------------------
\* The alerts.

Keys == {"primary", "notice"} \X Assets

RouterTypeOK ==
  /\ now \in Times /\ run \in 0 .. MaxRuns /\ began \in Times
  /\ scan \in {"down", "idle", "assets", "record", "announce", "stopped"}
  /\ at \in 1 .. Len(AssetSeq) + 1 /\ inst \in Times /\ seen \in BOOLEAN
  /\ pick \in Selections \cup {Nothing}
  /\ stored \in [Windows -> Selections \cup {Nothing}]
  /\ op \in [sel : Selections \cup {Nothing}, persisted : BOOLEAN]
  /\ armed \in BOOLEAN /\ online \in BOOLEAN /\ last \in Selections \cup {Nothing}
  /\ voiced \in [Keys -> Times \cup {Nothing}]
  /\ serving \in BOOLEAN /\ page \in Times \cup {Nothing} /\ isReady \in BOOLEAN
  /\ req \in [Requests -> {"absent", "test", "arm", "online", "done"}]
  /\ said \in Seq(Speech) /\ bought \in Seq(Selections) /\ muted \subseteq Selections

\* What is being recorded was selected in the last slot of the window of the
\* scan, and no selection of that window has been spoken.
Recording ==
  /\ inst <= now
  /\ scan \in {"record", "announce"} =>
       pick \in Selections /\ pick.win = Window(inst) /\ InEntryZone(inst)
  /\ scan = "record" => stored[pick.win] = Nothing
  /\ scan = "announce" =>
       /\ stored[pick.win] = pick
       /\ \A i \in DOMAIN bought : bought[i].win # pick.win

\* A spoken selection is on disk, and is of the window it was spoken in.
BoughtIsStored == \A i \in DOMAIN bought : stored[bought[i].win] = bought[i]

BoughtOnce ==
  \A i, j \in DOMAIN bought : i # j => bought[i].win # bought[j].win

SaidInTime ==
  \A i \in DOMAIN said : said[i].kind = "primary" =>
    stored[said[i].sel.win] = said[i].sel /\ Window(said[i].at) = said[i].sel.win

\* The voice last announced a selection of an asset in the entry zone of a
\* window of which a selection was spoken.
VoicedInZone ==
  \A a \in Assets : voiced[<<"primary", a>>] # Nothing =>
    /\ voiced[<<"primary", a>>] <= now
    /\ InEntryZone(voiced[<<"primary", a>>])
    /\ \E i \in DOMAIN bought : bought[i].win = Window(voiced[<<"primary", a>>])

\* A selection that was to be announced was, or was muted for a reason.
LastIsHeard ==
  last # Nothing =>
    last \in muted \/ \E i \in DOMAIN said :
                         said[i].kind = "primary" /\ said[i].sel = last

RouterIInv ==
  RouterTypeOK /\ Recording /\ BoughtIsStored /\ BoughtOnce /\ SaidInTime /\ VoicedInZone

-----------------------------------------------------------------------------
(***************************************************************************)
(* Ticks and windows.                                                      *)
(***************************************************************************)
\* A tick is its window's number of whole windows and a slot.
LEMMA SlotOf ==
  ASSUME NEW t \in Nat
  PROVE  /\ Window(t) \in Nat /\ t % Slots \in 0 .. Slots - 1
         /\ t = Slots * Window(t) + (t % Slots)
BY ClockAssumption DEF Window

\* Windows begin one after another.
LEMMA WindowsFollow ==
  ASSUME NEW v \in Nat, NEW w \in Nat, v < w
  PROVE  Slots * w >= Slots * v + Slots
<1>1. PICK d \in Nat : w = v + 1 + d
  <2>1. w - v - 1 \in Nat /\ w = v + 1 + (w - v - 1)
    OBVIOUS
  <2> QED BY <2>1
<1>2. Slots * (v + 1 + d) = Slots * v + Slots + Slots * d
  BY ClockAssumption
<1>3. Slots * d \in Nat /\ Slots * v \in Nat
  BY ClockAssumption
<1> QED BY <1>1, <1>2, <1>3, ClockAssumption

\* A later tick is of no earlier window.
LEMMA WindowsGrow ==
  ASSUME NEW s \in Nat, NEW t \in Nat, s <= t
  PROVE  Window(s) <= Window(t)
<1> DEFINE p == Slots * Window(s)
           q == Slots * Window(t)
           a == s % Slots
           b == t % Slots
<1>1. /\ Window(s) \in Nat /\ a \in 0 .. Slots - 1 /\ s = p + a
      /\ Window(t) \in Nat /\ b \in 0 .. Slots - 1 /\ t = q + b
  BY SlotOf
<1>2. p \in Nat /\ q \in Nat
  BY <1>1, ClockAssumption
<1> SUFFICES ASSUME Window(t) < Window(s) PROVE FALSE
  BY <1>1
<1>3. p >= q + Slots
  BY <1>1, WindowsFollow
<1> HIDE DEF p, q, a, b
<1> QED BY <1>1, <1>2, <1>3, ClockAssumption

\* The last slot of a window is its last tick,
LEMMA ZoneEndsWindow ==
  ASSUME NEW s \in Nat, NEW t \in Nat, s <= t, InEntryZone(s), Window(t) = Window(s)
  PROVE  t = s
<1> DEFINE p == Slots * Window(s)
           b == t % Slots
<1>1. /\ s = p + (s % Slots) /\ s % Slots = Slots - 1 /\ Window(s) \in Nat
      /\ t = p + b /\ b \in 0 .. Slots - 1
  BY SlotOf DEF InEntryZone
<1>2. p \in Nat
  BY <1>1, ClockAssumption
<1> HIDE DEF p, b
<1> QED BY <1>1, <1>2, ClockAssumption

\* ... so those of two windows lie a window apart.
LEMMA ZonesApart ==
  ASSUME NEW s \in Nat, NEW t \in Nat, s <= t, InEntryZone(s), InEntryZone(t),
         Window(s) # Window(t)
  PROVE  t - s >= Slots
<1> DEFINE p == Slots * Window(s)
           q == Slots * Window(t)
<1>1. /\ s = p + (s % Slots) /\ s % Slots = Slots - 1 /\ Window(s) \in Nat
      /\ t = q + (t % Slots) /\ t % Slots = Slots - 1 /\ Window(t) \in Nat
  BY SlotOf DEF InEntryZone
<1>2. Window(s) < Window(t)
  BY <1>1, WindowsGrow
<1>3. q >= p + Slots
  BY <1>1, <1>2, WindowsFollow
<1>4. p \in Nat /\ q \in Nat
  BY <1>1, ClockAssumption
<1> HIDE DEF p, q
<1> QED BY <1>1, <1>3, <1>4, ClockAssumption

-----------------------------------------------------------------------------
(***************************************************************************)
(* Types.                                                                  *)
(***************************************************************************)
\* The lines that can be spoken are lines.
LEMMA LineTypes ==
  /\ [kind |-> "online"] \in Speech
  /\ \A a \in Assets, t \in Times : [kind |-> "notice", asset |-> a, at |-> t] \in Speech
  /\ \A s \in Selections, t \in Times :
       [kind |-> "primary", sel |-> s, at |-> t] \in Speech
BY DEF Speech

\* An announcement keeps the types of the router.
LEMMA SpeakTypes ==
  ASSUME RouterTypeOK, NEW k \in Keys, NEW l \in Speech, Speak(k, l)
  PROVE  said' \in Seq(Speech) /\ voiced' \in [Keys -> Times \cup {Nothing}]
<1>1. said \in Seq(Speech) /\ voiced \in [Keys -> Times \cup {Nothing}] /\ now \in Times
  BY DEF RouterTypeOK
<1>2. CASE Live /\ Allowed(k)
  BY <1>1, <1>2 DEF Speak
<1>3. CASE ~(Live /\ Allowed(k))
  BY <1>1, <1>3 DEF Speak
<1> QED BY <1>2, <1>3

\* The asset of a place in the scan.
LEMMA AssetAt ==
  ASSUME RouterTypeOK, Scanning
  PROVE  AssetSeq[at] \in Assets /\ at + 1 \in 1 .. Len(AssetSeq) + 1
BY AssetAssumption DEF RouterTypeOK, Scanning, Assets

\* The router starts with the types it keeps.
LEMMA InitTypes == RouterInit => RouterTypeOK
<1> SUFFICES ASSUME RouterInit PROVE RouterTypeOK
  OBVIOUS
<1>1. 0 \in Times /\ 0 \in 0 .. MaxRuns /\ 1 \in 1 .. Len(AssetSeq) + 1
  BY ClockAssumption, AssetAssumption DEF Times
<1>2. /\ stored \in [Windows -> Selections \cup {Nothing}]
      /\ voiced \in [Keys -> Times \cup {Nothing}]
      /\ req \in [Requests -> {"absent", "test", "arm", "online", "done"}]
      /\ op \in [sel : Selections \cup {Nothing}, persisted : BOOLEAN]
  BY DEF RouterInit, NoSelection, Keys
<1>3. said \in Seq(Speech) /\ bought \in Seq(Selections) /\ muted \subseteq Selections
  BY DEF RouterInit
<1> QED BY <1>1, <1>2, <1>3 DEF RouterInit, RouterTypeOK

\* Every step keeps the types.
LEMMA NextTypes == RouterTypeOK /\ Recording /\ [RouterNext]_routerVars => RouterTypeOK'
<1> SUFFICES ASSUME RouterTypeOK, Recording, [RouterNext]_routerVars
             PROVE  RouterTypeOK'
  OBVIOUS
<1> USE DEF clock, scanner, router, web, heard
<1>1. /\ now \in Times /\ Nothing \notin Selections /\ Nothing \notin Times
      /\ said \in Seq(Speech) /\ bought \in Seq(Selections) /\ muted \subseteq Selections
      /\ voiced \in [Keys -> Times \cup {Nothing}]
      /\ stored \in [Windows -> Selections \cup {Nothing}]
  BY NothingAssumption DEF RouterTypeOK
<1>2. CASE Start
  <2>1. run' \in 0 .. MaxRuns /\ now' = now /\ stored' = stored /\ bought' = bought
    BY <1>2, ClockAssumption DEF Start, RouterTypeOK
  <2>2. PICK web_ \in BOOLEAN : Fresh(web_)
    BY <1>2 DEF Start
  <2>3. voiced' \in [Keys -> Times \cup {Nothing}]
    BY <2>2 DEF Fresh, Keys
  <2>4. said' \in Seq(Speech)
    BY <2>2, LineTypes DEF Fresh
  <2>5. /\ op' \in [sel : Selections \cup {Nothing}, persisted : BOOLEAN]
        /\ req' \in [Requests -> {"absent", "test", "arm", "online", "done"}]
    BY <2>2 DEF Fresh, NoSelection
  <2>6. at' \in 1 .. Len(AssetSeq) + 1
    BY <2>2, AssetAssumption DEF Fresh
  <2>7. /\ scan' = "idle" /\ inst' = now /\ seen' = FALSE /\ pick' = Nothing /\ began' = now
        /\ armed' \in BOOLEAN /\ online' \in BOOLEAN /\ last' = Nothing
        /\ serving' \in BOOLEAN /\ page' = Nothing /\ isReady' = FALSE /\ muted' = {}
    BY <2>2 DEF Fresh
  <2> QED BY <1>1, <2>1, <2>3, <2>4, <2>5, <2>6, <2>7 DEF RouterTypeOK
<1>3. CASE BeginScan \/ Stop
  <2>1. at' \in 1 .. Len(AssetSeq) + 1
    BY <1>3, AssetAssumption DEF BeginScan, Stop, RouterTypeOK
  <2> QED BY <1>3, <2>1 DEF BeginScan, Stop, RouterTypeOK
<1>4. ASSUME AssetScanned \/ AssetHeld PROVE RouterTypeOK'
  <2>1. Scanning
    BY <1>4 DEF AssetScanned, AssetHeld
  <2>2. at' \in 1 .. Len(AssetSeq) + 1 /\ AssetSeq[at] \in Assets
    BY <1>4, <2>1, AssetAt DEF AssetScanned, AssetHeld
  <2>3. said' \in Seq(Speech) /\ voiced' \in [Keys -> Times \cup {Nothing}]
    <3>1. CASE UNCHANGED <<said, voiced>>
      BY <1>1, <3>1
    <3>2. <<"notice", AssetSeq[at]>> \in Keys
      BY <2>2 DEF Keys
    <3>3. [kind |-> "notice", asset |-> AssetSeq[at], at |-> now] \in Speech
      BY <1>1, <2>2, LineTypes
    <3> QED BY <1>4, <3>1, <3>2, <3>3, SpeakTypes DEF AssetScanned, AssetHeld
  <2>4. /\ op' \in [sel : Selections \cup {Nothing}, persisted : BOOLEAN]
        /\ seen' \in BOOLEAN
    <3>1. op \in [sel : Selections \cup {Nothing}, persisted : BOOLEAN] /\ seen \in BOOLEAN
      BY DEF RouterTypeOK
    <3>2. NoSelection \in [sel : Selections \cup {Nothing}, persisted : BOOLEAN]
      BY DEF NoSelection
    <3>3. op' \in {op, NoSelection} /\ seen' \in {seen, TRUE}
      BY <1>4 DEF AssetScanned, AssetHeld
    <3> QED BY <3>1, <3>2, <3>3
  <2>5. UNCHANGED <<clock, scan, inst, pick, stored, armed, online, last, web,
                    bought, muted>>
    BY <1>4 DEF AssetScanned, AssetHeld
  <2> QED BY <2>2, <2>3, <2>4, <2>5 DEF RouterTypeOK
<1>5. CASE Select
  <2>1. Window(inst) \in Windows
    BY DEF RouterTypeOK, Windows
  <2>2. stored[Window(inst)] \in Selections \cup {Nothing}
    BY <1>1, <2>1
  <2>3. /\ op' \in [sel : Selections \cup {Nothing}, persisted : BOOLEAN]
        /\ scan' \in {"idle", "record"} /\ pick' \in Selections \cup {Nothing}
    <3>1. CASE stored[Window(inst)] # Nothing
      <4>1. /\ op' = [sel |-> stored[Window(inst)], persisted |-> TRUE]
            /\ scan' = "idle" /\ pick' = Nothing
        BY <1>5, <3>1 DEF Select
      <4> QED BY <2>2, <4>1
    <3>2. CASE stored[Window(inst)] = Nothing
      <4>1. PICK s \in {Nothing} \cup {s \in Selections : s.win = Window(inst)} :
              /\ op' = IF seen THEN [sel |-> s, persisted |-> FALSE] ELSE op
              /\ scan' = IF s = Nothing THEN "idle" ELSE "record"
              /\ pick' = s
        BY <1>5, <3>2 DEF Select
      <4>2. s \in Selections \cup {Nothing}
        OBVIOUS
      <4>3. op \in [sel : Selections \cup {Nothing}, persisted : BOOLEAN]
        BY DEF RouterTypeOK
      <4>4. op' \in [sel : Selections \cup {Nothing}, persisted : BOOLEAN]
        BY <4>1, <4>2, <4>3
      <4> QED BY <4>1, <4>2, <4>4
    <3> QED BY <3>1, <3>2
  <2> QED BY <1>5, <2>3 DEF Select, RouterTypeOK
<1>6. CASE Record
  <2>1. pick \in Selections
    BY <1>6 DEF Record, Recording
  <2>2. stored' \in [Windows -> Selections \cup {Nothing}]
    BY <1>1, <1>6, <2>1 DEF Record
  <2> QED BY <1>6, <2>1, <2>2 DEF Record, RouterTypeOK
<1>7. CASE Announce
  <2>1. pick \in Selections /\ pick.asset \in Assets
    BY <1>7 DEF Announce, Recording, Selections
  <2>2. <<"primary", pick.asset>> \in Keys
    BY <2>1 DEF Keys
  <2>3. [kind |-> "primary", sel |-> pick, at |-> now] \in Speech
    BY <1>1, <2>1, LineTypes
  <2>4. /\ said' \in Seq(Speech) /\ voiced' \in [Keys -> Times \cup {Nothing}]
        /\ bought' \in Seq(Selections) /\ muted' \subseteq Selections
        /\ last' \in Selections \cup {Nothing}
    <3>1. CASE ~ActionablePrimary(pick)
      BY <1>1, <1>7, <2>1, <3>1 DEF Announce, AnnouncePrimary, RouterTypeOK
    <3>2. CASE ActionablePrimary(pick) /\ last = pick
      BY <1>1, <1>7, <3>2 DEF Announce, AnnouncePrimary, RouterTypeOK
    <3>3. CASE ActionablePrimary(pick) /\ last # pick
      <4>1. Speak(<<"primary", pick.asset>>, [kind |-> "primary", sel |-> pick, at |-> now])
        BY <1>7, <3>3 DEF Announce, AnnouncePrimary
      <4>2. /\ last' = pick /\ bought' \in {bought, Append(bought, pick)}
            /\ muted' \in {muted, muted \cup {pick}}
        BY <1>7, <3>3 DEF Announce, AnnouncePrimary
      <4>3. said' \in Seq(Speech) /\ voiced' \in [Keys -> Times \cup {Nothing}]
        BY <2>2, <2>3, <4>1, SpeakTypes
      <4>4. bought' \in Seq(Selections)
        BY <1>1, <2>1, <4>2
      <4>5. muted' \subseteq Selections /\ last' \in Selections \cup {Nothing}
        BY <1>1, <2>1, <4>2
      <4> QED BY <4>3, <4>4, <4>5
    <3> QED BY <3>1, <3>2, <3>3
  <2> QED BY <1>7, <2>4 DEF Announce, RouterTypeOK
<1>8. CASE LoadPage
  BY <1>8 DEF LoadPage, RouterTypeOK
<1>9. ASSUME NEW r \in Requests, PostReady(r) \/ TestReady(r) \/ Arm(r) \/ SayOnline(r)
      PROVE  RouterTypeOK'
  <2>1. req' \in [Requests -> {"absent", "test", "arm", "online", "done"}]
    BY <1>9 DEF PostReady, TestReady, Arm, SayOnline, RouterTypeOK
  <2>2. said' \in Seq(Speech)
    <3>1. said' = said \/ said' = Append(said, [kind |-> "online"])
      BY <1>9 DEF PostReady, TestReady, Arm, SayOnline
    <3>2. [kind |-> "online"] \in Speech
      BY LineTypes
    <3>3. said \in Seq(Speech)
      BY <1>1
    <3> QED BY <3>1, <3>2, <3>3
  <2>3. armed' \in BOOLEAN /\ online' \in BOOLEAN /\ isReady' \in BOOLEAN
    BY <1>9 DEF PostReady, TestReady, Arm, SayOnline, RouterTypeOK
  <2>4. UNCHANGED <<clock, scanner, op, last, voiced, serving, page, bought, muted>>
    BY <1>9 DEF PostReady, TestReady, Arm, SayOnline
  <2> QED BY <2>1, <2>2, <2>3, <2>4 DEF RouterTypeOK
<1>10. CASE Tick
  <2>1. now' \in Times
    BY <1>10, ClockAssumption DEF Tick, RouterTypeOK, Times
  <2> QED BY <1>10, <2>1 DEF Tick, RouterTypeOK
<1>11. CASE UNCHANGED routerVars
  BY <1>11 DEF routerVars, RouterTypeOK
<1> QED BY <1>2, <1>3, <1>4, <1>5, <1>6, <1>7, <1>8, <1>9, <1>10, <1>11
        DEF RouterNext, Scanner, WebThreads

-----------------------------------------------------------------------------
(***************************************************************************)
(* What a step says.                                                       *)
(***************************************************************************)
PrimaryKey(a) == <<"primary", a>>

\* The process began again: nothing is said yet but that it is online.
Begins ==
  /\ UNCHANGED <<now, stored, bought>> /\ last' = Nothing
  /\ \A a \in Assets : voiced'[PrimaryKey(a)] = Nothing
  /\ \A i \in DOMAIN said' : said'[i].kind # "primary"

\* No selection is spoken.
Hushed ==
  /\ bought' = bought /\ muted \subseteq muted'
  /\ \A a \in Assets : voiced'[PrimaryKey(a)] = voiced[PrimaryKey(a)]
  /\ said' = said \/ \E l \in Speech : l.kind # "primary" /\ said' = Append(said, l)

\* The selection that was recorded is spoken, in its window.
Spoken ==
  /\ scan = "announce" /\ Window(now) <= pick.win
  /\ said' = Append(said, [kind |-> "primary", sel |-> pick, at |-> now])
  /\ bought' = Append(bought, pick)
  /\ voiced' = [voiced EXCEPT ![PrimaryKey(pick.asset)] = now]
  /\ last' = pick /\ UNCHANGED <<now, stored, muted>>

\* A selection becomes the last one announced without being spoken only if it
\* is muted or its key is not due.
Remembered ==
  \/ last' = last
  \/ /\ scan = "announce" /\ last' = pick /\ Window(now) <= pick.win
     /\ pick \in muted' \/ ~Allowed(PrimaryKey(pick.asset))

\* A sequence is not the one it is appended to.
LEMMA AppendDiffers ==
  ASSUME NEW S, NEW q \in Seq(S), NEW l \in S
  PROVE  Append(q, l) # q
<1>1. Len(Append(q, l)) = Len(q) + 1 /\ Len(q) \in Nat
  OBVIOUS
<1> QED BY <1>1

\* A selection that is announced is spoken, or remembered and muted.
LEMMA AnnounceSays ==
  ASSUME RouterTypeOK, Recording, Announce
  PROVE  Spoken \/ (Hushed /\ Remembered)
<1>1. /\ pick \in Selections /\ now \in Times /\ said \in Seq(Speech)
      /\ voiced \in [Keys -> Times \cup {Nothing}] /\ scan = "announce"
  BY DEF RouterTypeOK, Recording, Announce
<1>2. /\ AnnouncePrimary(pick) /\ now' = now /\ stored' = stored
  BY DEF Announce, clock
<1>3. CASE ~ActionablePrimary(pick)
  <2>1. UNCHANGED <<said, voiced, last, bought>> /\ muted' = muted \cup {pick}
    BY <1>2, <1>3 DEF AnnouncePrimary
  <2> QED BY <2>1 DEF Hushed, Remembered
<1>4. CASE ActionablePrimary(pick) /\ last = pick
  <2>1. UNCHANGED <<said, voiced, last, bought, muted>>
    BY <1>2, <1>4 DEF AnnouncePrimary, heard
  <2> QED BY <2>1 DEF Hushed, Remembered
<1>5. CASE ActionablePrimary(pick) /\ last # pick
  <2> DEFINE line == [kind |-> "primary", sel |-> pick, at |-> now]
  <2>1. /\ Speak(PrimaryKey(pick.asset), line) /\ last' = pick
        /\ muted' = IF Live THEN muted ELSE muted \cup {pick}
        /\ bought' = IF said' # said THEN Append(bought, pick) ELSE bought
    BY <1>2, <1>5 DEF AnnouncePrimary, PrimaryKey
  <2>2. Window(now) <= pick.win
    BY <1>5 DEF ActionablePrimary
  <2>3. line \in Speech
    BY <1>1, LineTypes
  <2>4. CASE Live /\ Allowed(PrimaryKey(pick.asset))
    <3>1. /\ said' = Append(said, line)
          /\ voiced' = [voiced EXCEPT ![PrimaryKey(pick.asset)] = now]
      BY <2>1, <2>4 DEF Speak
    <3>2. said' # said
      BY <1>1, <2>3, <3>1, AppendDiffers
    <3> QED BY <1>1, <1>2, <2>1, <2>2, <2>4, <3>1, <3>2 DEF Spoken
  <2>5. CASE ~(Live /\ Allowed(PrimaryKey(pick.asset)))
    <3>1. UNCHANGED <<said, voiced>>
      BY <2>1, <2>5 DEF Speak
    <3>2. bought' = bought /\ muted \subseteq muted'
      BY <2>1, <3>1
    <3>3. pick \in muted' \/ ~Allowed(PrimaryKey(pick.asset))
      BY <2>1, <2>5
    <3> QED BY <1>1, <2>1, <2>2, <3>1, <3>2, <3>3 DEF Hushed, Remembered
  <2> QED BY <2>4, <2>5
<1> QED BY <1>3, <1>4, <1>5

\* Every step begins the process, says nothing of a selection, or speaks one.
LEMMA NextSays ==
  ASSUME RouterTypeOK, Recording, [RouterNext]_routerVars
  PROVE  Begins \/ Spoken \/ (Hushed /\ Remembered)
<1> USE DEF clock, scanner, router, web, heard
<1>1. voiced \in [Keys -> Times \cup {Nothing}]
  BY DEF RouterTypeOK
<1>2. CASE Start
  <2>1. PICK web_ \in BOOLEAN : Fresh(web_)
    BY <1>2 DEF Start
  <2>2. UNCHANGED <<now, stored, bought>> /\ last' = Nothing
    BY <1>2, <2>1 DEF Start, Fresh
  <2>3. \A a \in Assets : voiced'[PrimaryKey(a)] = Nothing
    BY <2>1 DEF Fresh, PrimaryKey
  <2>4. \A i \in DOMAIN said' : said'[i].kind # "primary"
    <3>1. said' = << >> \/ said' = <<[kind |-> "online"]>>
      BY <2>1 DEF Fresh
    <3> QED BY <3>1
  <2> QED BY <2>2, <2>3, <2>4 DEF Begins
<1>3. CASE AssetScanned \/ AssetHeld
  <2> DEFINE line == [kind |-> "notice", asset |-> AssetSeq[at], at |-> now]
  <2>1. UNCHANGED <<said, voiced>> \/ Speak(<<"notice", AssetSeq[at]>>, line)
    BY <1>3 DEF AssetScanned, AssetHeld
  <2>2. line \in Speech
    BY <1>3, AssetAt, LineTypes DEF AssetScanned, AssetHeld, RouterTypeOK
  <2>3. /\ said' = said \/ said' = Append(said, line)
        /\ voiced' = voiced \/ voiced' = [voiced EXCEPT ![<<"notice", AssetSeq[at]>>] = now]
    BY <2>1 DEF Speak
  <2>4. \A a \in Assets : voiced'[PrimaryKey(a)] = voiced[PrimaryKey(a)]
    BY <1>1, <2>3 DEF PrimaryKey, Keys
  <2>5. line.kind # "primary"
    OBVIOUS
  <2>6. UNCHANGED <<bought, muted, last>>
    BY <1>3 DEF AssetScanned, AssetHeld
  <2> HIDE DEF line
  <2> QED BY <2>2, <2>3, <2>4, <2>5, <2>6 DEF Hushed, Remembered
<1>4. CASE Announce
  BY <1>4, AnnounceSays
<1>5. ASSUME NEW r \in Requests, PostReady(r) \/ TestReady(r) \/ Arm(r) \/ SayOnline(r)
      PROVE  Hushed /\ Remembered
  <2>1. said' = said \/ said' = Append(said, [kind |-> "online"])
    BY <1>5 DEF PostReady, TestReady, Arm, SayOnline
  <2>2. UNCHANGED <<bought, muted, last, voiced>>
    BY <1>5 DEF PostReady, TestReady, Arm, SayOnline
  <2>3. [kind |-> "online"].kind # "primary"
    OBVIOUS
  <2> QED BY <2>1, <2>2, <2>3, LineTypes DEF Hushed, Remembered
<1>6. CASE BeginScan \/ Select \/ Record \/ Stop \/ LoadPage \/ Tick \/ UNCHANGED routerVars
  <2>1. UNCHANGED <<said, voiced, last, bought, muted>>
    BY <1>6 DEF BeginScan, Select, Record, Stop, LoadPage, Tick, routerVars
  <2> QED BY <2>1 DEF Hushed, Remembered
<1> QED BY <1>2, <1>3, <1>4, <1>5, <1>6 DEF RouterNext, Scanner, WebThreads

\* Only Record writes the store, where no selection of the window is.
LEMMA NextStores ==
  ASSUME RouterTypeOK, Recording, [RouterNext]_routerVars
  PROVE  /\ scan = "record" \/ stored' = stored
         /\ \A w \in Windows : stored[w] # Nothing => stored'[w] = stored[w]
<1> USE DEF clock, scanner, router, web, heard
<1>1. CASE Record
  <2>1. /\ stored \in [Windows -> Selections \cup {Nothing}] /\ scan = "record"
        /\ stored' = [stored EXCEPT ![pick.win] = pick] /\ stored[pick.win] = Nothing
    BY <1>1 DEF Record, Recording, RouterTypeOK
  <2> QED BY <2>1
<1>2. CASE \E r \in Requests : PostReady(r) \/ TestReady(r) \/ Arm(r) \/ SayOnline(r)
  BY <1>2 DEF PostReady, TestReady, Arm, SayOnline
<1>3. CASE Start \/ BeginScan \/ AssetScanned \/ AssetHeld \/ Select \/ Announce \/ Stop
  BY <1>3 DEF Start, BeginScan, AssetScanned, AssetHeld, Select, Announce, Stop
<1>4. CASE LoadPage \/ Tick \/ UNCHANGED routerVars
  BY <1>4 DEF LoadPage, Tick, routerVars
<1> QED BY <1>1, <1>2, <1>3, <1>4 DEF RouterNext, Scanner, WebThreads

\* The clock does not go back.
LEMMA NextTicks ==
  ASSUME RouterTypeOK, [RouterNext]_routerVars
  PROVE  now' \in Nat /\ now \in Nat /\ now <= now'
<1> USE DEF clock, scanner, router, web, heard
<1>1. now \in Nat
  BY DEF RouterTypeOK, Times
<1>2. CASE Tick
  BY <1>1, <1>2 DEF Tick
<1>3. CASE \E r \in Requests : PostReady(r) \/ TestReady(r) \/ Arm(r) \/ SayOnline(r)
  BY <1>1, <1>3 DEF PostReady, TestReady, Arm, SayOnline
<1>4. CASE Start \/ Scanner \/ LoadPage \/ UNCHANGED routerVars
  <2>1. now' = now
    BY <1>4 DEF Start, Scanner, BeginScan, AssetScanned, AssetHeld, Select, Record,
                Announce, Stop, LoadPage, routerVars
  <2> QED BY <1>1, <2>1
<1> QED BY <1>2, <1>3, <1>4 DEF RouterNext, WebThreads

-----------------------------------------------------------------------------
(***************************************************************************)
(* The parts of the invariant, step by step.                               *)
(***************************************************************************)
LEMMA NextRecording ==
  ASSUME RouterTypeOK, Recording, BoughtIsStored, [RouterNext]_routerVars
  PROVE  Recording'
<1> USE DEF clock, scanner, router, web, heard
<1>1. now \in Nat /\ now' \in Nat /\ now <= now'
  BY NextTicks
<1>2. inst \in Nat /\ inst <= now
  BY DEF RouterTypeOK, Times, Recording
<1>3. ASSUME scan' \notin {"record", "announce"}, inst' \in {inst, now}
      PROVE  Recording'
  BY <1>1, <1>2, <1>3 DEF Recording
<1>4. CASE Start
  BY <1>3, <1>4 DEF Start, Fresh
<1>5. CASE BeginScan \/ Announce \/ Stop
  BY <1>3, <1>5 DEF BeginScan, Announce, Stop
<1>6. CASE AssetScanned \/ AssetHeld
  BY <1>3, <1>6 DEF AssetScanned, AssetHeld, Scanning
<1>7. CASE Select
  <2>1. CASE scan' = "record"
    <3>1. /\ stored[Window(inst)] = Nothing /\ stored' = stored /\ inst' = inst
      BY <1>7, <2>1 DEF Select
    <3>2. PICK p \in {Nothing} \cup {p \in Selections : p.win = Window(inst)} :
            /\ p # Nothing => seen /\ InEntryZone(inst)
            /\ scan' = IF p = Nothing THEN "idle" ELSE "record"
            /\ pick' = p
      BY <1>7, <3>1 DEF Select
    <3>3. p \in Selections /\ p.win = Window(inst) /\ InEntryZone(inst)
      BY <2>1, <3>2
    <3> QED BY <1>1, <1>2, <2>1, <3>1, <3>2, <3>3 DEF Recording
  <2>2. scan' \in {"idle", "record"} /\ inst' = inst
    BY <1>7 DEF Select
  <2> QED BY <1>3, <2>1, <2>2
<1>8. CASE Record
  <2>1. /\ pick \in Selections /\ pick.win = Window(inst) /\ InEntryZone(inst)
        /\ stored[pick.win] = Nothing
    BY <1>8 DEF Record, Recording
  <2>2. /\ scan' = "announce" /\ pick' = pick /\ inst' = inst /\ bought' = bought
        /\ stored' = [stored EXCEPT ![pick.win] = pick]
    BY <1>8 DEF Record
  <2>3. stored'[pick.win] = pick
    BY <2>1, <2>2 DEF RouterTypeOK, Selections
  <2>4. \A i \in DOMAIN bought : bought[i].win # pick.win
    <3> SUFFICES ASSUME NEW i \in DOMAIN bought, bought[i].win = pick.win
                 PROVE  FALSE
      OBVIOUS
    <3>1. bought[i] = Nothing /\ bought[i] \in Selections
      BY <2>1 DEF BoughtIsStored, RouterTypeOK
    <3> QED BY <3>1, NothingAssumption
  <2> QED BY <1>1, <1>2, <2>1, <2>2, <2>3, <2>4 DEF Recording
<1>9. CASE WebThreads \/ Tick \/ UNCHANGED routerVars
  <2>1. UNCHANGED <<scanner, bought>>
    BY <1>9 DEF WebThreads, LoadPage, PostReady, TestReady, Arm, SayOnline, Tick, routerVars
  <2> QED BY <1>1, <1>2, <2>1 DEF Recording
<1> QED BY <1>4, <1>5, <1>6, <1>7, <1>8, <1>9 DEF RouterNext, Scanner

\* What one more element makes of a sequence.
LEMMA Appended ==
  ASSUME NEW S, NEW q \in Seq(S), NEW l \in S
  PROVE  /\ DOMAIN Append(q, l) = DOMAIN q \cup {Len(q) + 1} /\ Len(q) + 1 \notin DOMAIN q
         /\ \A i \in DOMAIN q : Append(q, l)[i] = q[i]
         /\ Append(q, l)[Len(q) + 1] = l
OBVIOUS

\* Every step keeps what is known of the purchase.
LEMMA NextBought ==
  ASSUME RouterTypeOK, Recording, BoughtIsStored, BoughtOnce, [RouterNext]_routerVars
  PROVE  BoughtIsStored' /\ BoughtOnce'
<1>1. bought \in Seq(Selections) /\ stored \in [Windows -> Selections \cup {Nothing}]
  BY DEF RouterTypeOK
<1>2. \A i \in DOMAIN bought : stored'[bought[i].win] = bought[i]
  <2> SUFFICES ASSUME NEW i \in DOMAIN bought PROVE stored'[bought[i].win] = bought[i]
    OBVIOUS
  <2>1. bought[i] \in Selections /\ bought[i].win \in Windows
    <3>1. bought[i] \in Selections
      BY <1>1
    <3> QED BY <3>1 DEF Selections
  <2>2. stored[bought[i].win] = bought[i] /\ bought[i] # Nothing
    BY <2>1, NothingAssumption DEF BoughtIsStored
  <2> QED BY <2>1, <2>2, NextStores
<1>3. CASE bought' = bought
  BY <1>2, <1>3 DEF BoughtIsStored, BoughtOnce
<1>4. CASE Spoken
  <2>1. /\ bought' = Append(bought, pick) /\ stored' = stored /\ pick \in Selections
        /\ stored[pick.win] = pick /\ \A i \in DOMAIN bought : bought[i].win # pick.win
    BY <1>4 DEF Spoken, Recording
  <2>2. /\ DOMAIN bought' = DOMAIN bought \cup {Len(bought) + 1}
        /\ \A i \in DOMAIN bought : bought'[i] = bought[i]
        /\ bought'[Len(bought) + 1] = pick
    BY <1>1, <2>1, Appended
  <2>3. BoughtIsStored'
    BY <1>2, <2>1, <2>2 DEF BoughtIsStored
  <2>4. BoughtOnce'
    BY <2>1, <2>2 DEF BoughtOnce
  <2> QED BY <2>3, <2>4
<1> QED BY <1>3, <1>4, NextSays DEF Begins, Hushed

\* A selection spoken now is of this window, and now is the entry zone.
LEMMA SpokenNow ==
  ASSUME RouterTypeOK, Recording, Spoken
  PROVE  pick.win = Window(now) /\ InEntryZone(now)
<1>1. /\ inst \in Nat /\ now \in Nat /\ inst <= now /\ Window(now) <= pick.win
      /\ pick.win = Window(inst) /\ InEntryZone(inst)
  BY DEF RouterTypeOK, Times, Recording, Spoken
<1>2. Window(inst) <= Window(now) /\ Window(inst) \in Nat /\ Window(now) \in Nat
  BY <1>1, WindowsGrow, SlotOf
<1>3. Window(now) = Window(inst)
  BY <1>1, <1>2
<1>4. now = inst
  BY <1>1, <1>3, ZoneEndsWindow
<1> QED BY <1>1, <1>4

\* Every step keeps what is known of the announcements.
LEMMA NextSaid ==
  ASSUME RouterTypeOK, Recording, SaidInTime, [RouterNext]_routerVars
  PROVE  SaidInTime'
<1> DEFINE InTime(l, f) ==
             l.kind = "primary" => f[l.sel.win] = l.sel /\ Window(l.at) = l.sel.win
<1>1. said \in Seq(Speech)
  BY DEF RouterTypeOK
<1>2. \A i \in DOMAIN said : InTime(said[i], stored')
  <2> SUFFICES ASSUME NEW i \in DOMAIN said, said[i].kind = "primary"
               PROVE  stored'[said[i].sel.win] = said[i].sel
    BY DEF SaidInTime
  <2>1. said[i] \in Speech
    BY <1>1
  <2>2. said[i].sel \in Selections
    BY <2>1 DEF Speech
  <2>3. said[i].sel.win \in Windows /\ said[i].sel # Nothing
    BY <2>2, NothingAssumption DEF Selections
  <2>4. stored[said[i].sel.win] = said[i].sel
    BY DEF SaidInTime
  <2> QED BY <2>3, <2>4, NextStores
<1>3. ASSUME NEW l \in Speech, said' = Append(said, l), InTime(l, stored')
      PROVE  SaidInTime'
  <2>1. \A i \in DOMAIN said' : InTime(said'[i], stored')
    BY <1>1, <1>2, <1>3, Appended
  <2> QED BY <2>1 DEF SaidInTime
<1>4. CASE Begins
  BY <1>4 DEF Begins, SaidInTime
<1>5. CASE Hushed
  <2>1. CASE said' = said
    BY <1>2, <2>1 DEF SaidInTime
  <2>2. CASE said' # said
    <3>1. PICK l \in Speech : l.kind # "primary" /\ said' = Append(said, l)
      BY <1>5, <2>2 DEF Hushed
    <3> QED BY <1>3, <3>1
  <2> QED BY <2>1, <2>2
<1>6. CASE Spoken
  <2> DEFINE line == [kind |-> "primary", sel |-> pick, at |-> now]
  <2>1. /\ pick \in Selections /\ now \in Times /\ stored[pick.win] = pick
        /\ stored' = stored /\ said' = Append(said, line)
    BY <1>6 DEF Spoken, Recording, RouterTypeOK
  <2>2. line \in Speech
    BY <2>1, LineTypes
  <2>3. InTime(line, stored')
    BY <1>6, <2>1, SpokenNow
  <2> HIDE DEF line, InTime
  <2> QED BY <1>3, <2>1, <2>2, <2>3
<1> QED BY <1>4, <1>5, <1>6, NextSays

\* Every step keeps what is known of the voice.
LEMMA NextVoiced ==
  ASSUME RouterTypeOK, Recording, VoicedInZone, [RouterNext]_routerVars
  PROVE  VoicedInZone'
<1>1. now \in Nat /\ now' \in Nat /\ now <= now'
  BY NextTicks
<1>2. bought \in Seq(Selections) /\ voiced \in [Keys -> Times \cup {Nothing}]
  BY DEF RouterTypeOK
<1> SUFFICES ASSUME NEW a \in Assets, voiced'[PrimaryKey(a)] # Nothing
             PROVE  /\ voiced'[PrimaryKey(a)] <= now'
                    /\ InEntryZone(voiced'[PrimaryKey(a)])
                    /\ \E i \in DOMAIN bought' :
                         bought'[i].win = Window(voiced'[PrimaryKey(a)])
  BY DEF VoicedInZone, PrimaryKey
<1>3. PrimaryKey(a) \in Keys
  BY DEF PrimaryKey, Keys
<1>4. ASSUME voiced'[PrimaryKey(a)] = voiced[PrimaryKey(a)]
      PROVE  /\ voiced'[PrimaryKey(a)] <= now'
             /\ InEntryZone(voiced'[PrimaryKey(a)])
             /\ \E i \in DOMAIN bought : bought[i].win = Window(voiced'[PrimaryKey(a)])
  <2>1. voiced[PrimaryKey(a)] \in Nat
    BY <1>2, <1>3, <1>4 DEF Times
  <2> QED BY <1>1, <1>4, <2>1 DEF VoicedInZone, PrimaryKey
<1>5. CASE Begins
  BY <1>5 DEF Begins
<1>6. CASE Hushed
  BY <1>4, <1>6 DEF Hushed
<1>7. CASE Spoken
  <2>1. /\ pick \in Selections /\ pick.asset \in Assets /\ now' = now
        /\ bought' = Append(bought, pick)
        /\ voiced' = [voiced EXCEPT ![PrimaryKey(pick.asset)] = now]
    BY <1>7 DEF Spoken, Recording, Selections
  <2>2. /\ \A i \in DOMAIN bought : i \in DOMAIN bought' /\ bought'[i] = bought[i]
        /\ Len(bought) + 1 \in DOMAIN bought' /\ bought'[Len(bought) + 1] = pick
    BY <1>2, <2>1, Appended
  <2>3. CASE a = pick.asset
    <3>1. voiced'[PrimaryKey(a)] = now
      BY <1>2, <1>3, <2>1, <2>3
    <3> QED BY <1>1, <1>7, <2>1, <2>2, <3>1, SpokenNow
  <2>4. CASE a # pick.asset
    <3>1. voiced'[PrimaryKey(a)] = voiced[PrimaryKey(a)]
      BY <1>2, <1>3, <2>1, <2>4 DEF PrimaryKey
    <3> QED BY <1>4, <2>2, <3>1
  <2> QED BY <2>3, <2>4
<1> QED BY <1>5, <1>6, <1>7, NextSays

\* The throttle is due for a selection that is in time to be spoken.
LEMMA ThrottleIsDue ==
  ASSUME RouterTypeOK, Recording, VoicedInZone, Interval <= Slots,
         scan = "announce", Window(now) <= pick.win
  PROVE  Allowed(PrimaryKey(pick.asset))
<1> DEFINE t == voiced[PrimaryKey(pick.asset)]
<1> SUFFICES ASSUME t # Nothing PROVE now - t >= Interval
  BY DEF Allowed
<1>1. pick \in Selections /\ pick.asset \in Assets
  BY DEF Recording, Selections
<1>2. PrimaryKey(pick.asset) \in Keys
  BY <1>1 DEF PrimaryKey, Keys
<1>3. t \in Nat /\ now \in Nat
  BY <1>2 DEF RouterTypeOK, Times
<1>4. t <= now /\ InEntryZone(t) /\ \E i \in DOMAIN bought : bought[i].win = Window(t)
  BY <1>1 DEF VoicedInZone, PrimaryKey
<1>5. pick.win # Window(t)
  BY <1>4 DEF Recording
<1>6. /\ inst \in Nat /\ inst <= now /\ pick.win = Window(inst) /\ InEntryZone(inst)
  BY DEF RouterTypeOK, Times, Recording
<1>7. Window(inst) <= Window(now) /\ Window(inst) \in Nat /\ Window(now) \in Nat
  BY <1>3, <1>6, WindowsGrow, SlotOf
<1>8. Window(now) = Window(inst)
  BY <1>6, <1>7
<1>9. now = inst
  BY <1>3, <1>6, <1>8, ZoneEndsWindow
<1> HIDE DEF t
<1>10. now - t >= Slots
  BY <1>3, <1>4, <1>5, <1>6, <1>8, <1>9, ZonesApart
<1> QED BY <1>3, <1>10, ClockAssumption, GateAssumption

\* Every step keeps what is known of the spoken primaries.
LEMMA NextHeard ==
  ASSUME RouterTypeOK, Recording, VoicedInZone, LastIsHeard, Interval <= Slots,
         [RouterNext]_routerVars
  PROVE  LastIsHeard'
<1> DEFINE Said(q, x) == \E i \in DOMAIN q : q[i].kind = "primary" /\ q[i].sel = x
<1>1. said \in Seq(Speech)
  BY DEF RouterTypeOK
<1>2. CASE Begins
  BY <1>2 DEF Begins, LastIsHeard
<1>3. CASE Spoken
  <2> DEFINE line == [kind |-> "primary", sel |-> pick, at |-> now]
  <2>1. /\ line \in Speech /\ said' = Append(said, line) /\ last' = pick
    BY <1>3, LineTypes DEF Spoken, Recording, RouterTypeOK
  <2>2. line.kind = "primary" /\ line.sel = pick
    OBVIOUS
  <2> HIDE DEF line
  <2>3. Said(said', pick)
    BY <1>1, <2>1, <2>2, Appended
  <2> QED BY <2>1, <2>3 DEF LastIsHeard
<1>4. CASE Hushed /\ Remembered
  <2>1. ASSUME NEW x, Said(said, x) PROVE Said(said', x)
    BY <1>1, <1>4, <2>1, Appended DEF Hushed
  <2>2. muted \subseteq muted'
    BY <1>4 DEF Hushed
  <2>3. CASE last' = last
    BY <2>1, <2>2, <2>3 DEF LastIsHeard
  <2>4. CASE last' = pick /\ pick \in muted'
    BY <2>4 DEF LastIsHeard
  <2>5. ~(scan = "announce" /\ Window(now) <= pick.win /\ ~Allowed(PrimaryKey(pick.asset)))
    BY ThrottleIsDue
  <2> QED BY <1>4, <2>3, <2>4, <2>5 DEF Remembered
<1> QED BY <1>2, <1>3, <1>4, NextSays

-----------------------------------------------------------------------------
\* What holds of every behaviour, whatever the throttle.
LEMMA Invariance == RouterSpec => []RouterIInv
<1>1. RouterInit => RouterIInv
  <2> SUFFICES ASSUME RouterInit PROVE RouterIInv
    OBVIOUS
  <2>1. DOMAIN bought = {} /\ DOMAIN said = {}
    BY DEF RouterInit
  <2>2. \A a \in Assets : voiced[<<"primary", a>>] = Nothing
    BY DEF RouterInit
  <2>3. BoughtIsStored /\ BoughtOnce /\ SaidInTime /\ VoicedInZone
    BY <2>1, <2>2 DEF BoughtIsStored, BoughtOnce, SaidInTime, VoicedInZone
  <2>4. Recording
    BY DEF RouterInit, Recording
  <2> QED BY <2>3, <2>4, InitTypes DEF RouterIInv
<1>2. RouterIInv /\ [RouterNext]_routerVars => RouterIInv'
  BY NextTypes, NextRecording, NextBought, NextSaid, NextVoiced DEF RouterIInv
<1> QED BY <1>1, <1>2, PTL DEF RouterSpec

\* Every variable keeps its type (the router's fields, the operator state).
THEOREM RouterTypeCorrect == RouterSpec => []RouterTypeOK
<1>1. RouterIInv => RouterTypeOK
  BY DEF RouterIInv
<1> QED BY <1>1, Invariance, PTL

\* A BUY is spoken at most once per window over all runs, in its window, and
\* names the selection on disk, however the request threads arm the router
\* (handle, _actionable_primary).
THEOREM SpokenInTime == RouterSpec => []PrimarySpokenOnceInTime
<1>1. RouterIInv => PrimarySpokenOnceInTime
  BY DEF RouterIInv, BoughtOnce, SaidInTime, PrimarySpokenOnceInTime
<1> QED BY <1>1, Invariance, PTL

\* A throttle no longer than a window swallows no BUY: what the router announces
\* last is spoken, or was muted because the router was not live or the window
\* was over (_allow).  Selections are made in the entry zone, which ends with
\* the window, so those of two windows lie as far apart as the windows.
THEOREM NothingIsSwallowed ==
  ASSUME Interval <= Slots
  PROVE  RouterSpec => []LivePrimaryIsSpoken
<1>1. RouterInit => LastIsHeard
  BY DEF RouterInit, LastIsHeard
<1>2. RouterIInv /\ LastIsHeard /\ [RouterNext]_routerVars => LastIsHeard'
  BY NextHeard DEF RouterIInv
<1>3. LastIsHeard => LivePrimaryIsSpoken
  BY DEF LastIsHeard, LivePrimaryIsSpoken
<1> QED BY <1>1, <1>2, <1>3, Invariance, PTL DEF RouterSpec

=============================================================================
