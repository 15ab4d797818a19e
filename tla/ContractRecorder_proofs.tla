------------------------ MODULE ContractRecorder_proofs ------------------------
(***************************************************************************)
(* Proofs about what is decided on a contract and what is recorded of it.  *)
(* ContractRecorder, for every price path, every file of the user, every   *)
(* width, grace and tolerance, and every bound; then the entry decision,   *)
(* its replay and the selection, for every scan, quote and policy; then    *)
(* the legacy program's trade, for any tickers and times.                  *)
(***************************************************************************)
EXTENDS ContractRecorder, MCSelection, TLAPS, FiniteSetTheorems,
        WellFoundedInduction


Statuses == {"OPEN", "RESOLVED", "UNRESOLVED"}
Ends     == {"RESOLVED", "UNRESOLVED"}
Outcomes == {"YES", "NO", NONE}
Prices   == {price[t] : t \in Minutes}

\* What a row may hold, given the prices.
RowType ==
  [ref : {r.ref : r \in Records} \cup Prices, source : {"manual", "proxy"},
   rule : {"AT_OR_ABOVE", "PROXY", "UNKNOWN"}, status : Statuses,
   attempts : Nat, outcome : Outcomes,
   terminal : [kind : {"OPEN", "CLOSE"}, bar : Minutes, price : Prices]
                \cup {NONE}]

CsvType == [win : Windows, status : Ends, outcome : Outcomes]

TypeOK ==
  /\ now \in 0 .. Horizon /\ file \in Records \cup {NONE}
  /\ rows \in [Windows -> RowType \cup {NoRow}]
  /\ csv \in Seq(CsvType) /\ scored \subseteq Windows
  /\ pc \in {"down", "idle", "settle", "giveup", "mirror", "observe", "predict"}
  /\ stage \in {"boot", "scan", "stop"} /\ instant \in 0 .. now
  /\ queue \in Seq(Windows)
  /\ DOMAIN cache \subseteq 0 .. now /\ cool \in Nat /\ looked \in BOOLEAN
  /\ edits \in 0 .. MaxEdits /\ faults \in 0 .. MaxFaults

HasEnded(w) == rows[w].status \in Ends
Over(w, t)  == End(w) + Grace <= t

\* The contracts still to settle are due, open and each there once; of the
\* first one the row may have ended already.
QueueInv ==
  /\ \A i, j \in DOMAIN queue : i # j => queue[i] # queue[j]
  /\ \A i \in DOMAIN queue :
       /\ Over(queue[i], instant)
       /\ IF i = 1 /\ pc = "mirror" THEN HasEnded(queue[i])
                                    ELSE rows[queue[i]].status = "OPEN"
  /\ pc \in {"giveup", "mirror"} => queue # << >>
  /\ pc \in {"settle", "giveup", "mirror"} \/ queue = << >>

\* A contract ends when it is over, and before the instant of the scan that
\* goes on to observe.
EndsInv ==
  /\ \A w \in Windows : HasEnded(w) => Over(w, now)
  /\ stage = "scan" /\ pc \in {"settle", "giveup", "mirror", "observe"} =>
       \A w \in Windows : HasEnded(w) => Over(w, instant)
  /\ pc = "observe" => stage = "scan"

\* A row about to be copied is not in the copy.
CopyInv ==
  pc = "mirror" => \A i \in DOMAIN csv : csv[i].win # queue[1]

-----------------------------------------------------------------------------
(***************************************************************************)
(* Numbers: windows of minutes, and the least and greatest of a set.       *)
(***************************************************************************)
\* The bounds are numbers.
LEMMA Bounds ==
  /\ Width \in Nat /\ Width > 0 /\ MaxAttempts \in Nat /\ Horizon \in Nat
  /\ Grace \in Nat /\ Tolerance \in Nat /\ Cooldown \in Nat
  /\ MaxEdits \in Nat /\ MaxFaults \in Nat
BY BoundAssumption

\* The ends of windows are numbers in their order.
LEMMA EndsInOrder ==
  /\ \A w \in Nat : Start(w) \in Nat /\ End(w) \in Nat /\ End(w) = Start(w) + Width
  /\ \A v, w \in Nat : v < w => End(v) <= Start(w) /\ End(v) < End(w)
  /\ Windows \subseteq 0 .. Horizon
  /\ \A w \in Windows : w \in Nat /\ Start(w) \in Nat /\ End(w) \in Nat
<1>1. ASSUME NEW w \in Nat
      PROVE  Start(w) \in Nat /\ End(w) \in Nat /\ End(w) = Start(w) + Width
  <2>1. (w + 1) * Width = w * Width + Width /\ w * Width \in Nat
    BY Bounds
  <2> QED BY <2>1, Bounds DEF Start, End
<1>2. ASSUME NEW v \in Nat, NEW w \in Nat, v < w
      PROVE  End(v) <= Start(w) /\ End(v) < End(w)
  <2>1. \E k \in Nat : w = v + 1 + k
    <3>1. w - v - 1 \in Nat /\ w = v + 1 + (w - v - 1)
      BY <1>2
    <3> QED BY <3>1
  <2>2. PICK k \in Nat : w = v + 1 + k
    BY <2>1
  <2>3. (v + 1 + k) * Width = (v + 1) * Width + k * Width /\ k * Width \in Nat
    BY Bounds
  <2>4. End(v) <= Start(w)
    <3>1. Start(w) = End(v) + k * Width
      BY <2>2, <2>3 DEF Start, End
    <3>2. End(v) \in Nat
      BY <1>1
    <3> QED BY <2>3, <3>1, <3>2
  <2>5. Start(w) \in Nat /\ End(w) = Start(w) + Width /\ End(v) \in Nat
    BY <1>1
  <2> QED BY <2>4, <2>5, Bounds
<1>3. Windows \subseteq 0 .. Horizon
  BY DEF Windows
<1>4. \A w \in Windows : w \in Nat
  BY <1>3
<1> QED BY <1>1, <1>2, <1>3, <1>4

\* A minute is in the window computed for it (floor_window).
LEMMA WindowOf ==
  ASSUME NEW t \in 0 .. Horizon
  PROVE  /\ Window(t) \in Windows
         /\ Start(Window(t)) <= t /\ t < End(Window(t))
<1>1. t \in Nat /\ Horizon \in Nat /\ t <= Horizon
  BY Bounds
<1> DEFINE w == t \div Width
<1>2. w \in Nat /\ w * Width <= t /\ t < (w + 1) * Width
  BY <1>1, Bounds
<1> HIDE DEF w
<1>3. Start(w) <= t /\ t < End(w)
  BY <1>2 DEF Start, End
<1>4. Start(w) \in Nat /\ End(w) = Start(w) + Width
  BY <1>2, EndsInOrder
<1>5. End(w) <= Horizon + Width
  BY <1>1, <1>3, <1>4, Bounds
<1>6. w <= w * Width
  <2>1. \E k \in Nat : Width = 1 + k
    <3>1. Width - 1 \in Nat /\ Width = 1 + (Width - 1)
      BY Bounds
    <3> QED BY <3>1
  <2>2. PICK k \in Nat : Width = 1 + k
    BY <2>1
  <2>3. w * (1 + k) = w + w * k /\ w * k \in Nat
    BY <1>2
  <2> QED BY <1>2, <2>2, <2>3
<1>7. w \in 0 .. Horizon
  BY <1>1, <1>2, <1>6, Bounds
<1> QED BY <1>3, <1>5, <1>7 DEF Windows, Window, w

\* A non-empty set of numbers has a least element.
LEMMA LeastNumber ==
  ASSUME NEW I, I \subseteq Nat, I # {}
  PROVE  \E i \in I : \A j \in I : i <= j
<1> DEFINE R == {x \in Nat \X Nat : x[1] < x[2]}
<1>1. IsWellFoundedOn(R, Nat)
  BY NatLessThanWellFounded DEF OpToRel
<1>2. PICK i \in I : \A j \in I : <<j, i>> \notin R
  BY <1>1, WFMin
<1>3. \A j \in I : ~(j < i)
  BY <1>2
<1> QED BY <1>2, <1>3

\* Min finds it.
LEMMA MinOf ==
  ASSUME NEW I, I \subseteq Nat, I # {}
  PROVE  Min(I) \in I /\ \A j \in I : Min(I) <= j
<1>1. \E i \in I : \A j \in I : i <= j
  BY LeastNumber
<1> QED BY <1>1 DEF Min

\* Max finds the last of some minutes.
LEMMA MaxOf ==
  ASSUME NEW n \in Nat, NEW I, I \subseteq 0 .. n, I # {}
  PROVE  Max(I) \in I /\ \A j \in I : Max(I) >= j
<1> DEFINE J == {k \in Nat : n - k \in I}
<1>1. \A j \in I : j \in Int /\ n - j \in J
  <2> SUFFICES ASSUME NEW j \in I PROVE j \in Int /\ n - j \in J
    OBVIOUS
  <2>1. j \in Int /\ n - j \in Nat /\ n - (n - j) = j
    OBVIOUS
  <2> QED BY <2>1
<1>2. J \subseteq Nat /\ J # {}
  BY <1>1
<1>3. PICK m \in J : \A j \in J : m <= j
  BY <1>2, LeastNumber
<1>4. n - m \in I /\ m \in Nat
  BY <1>3
<1>5. \A j \in I : m <= n - j
  BY <1>1, <1>3
<1> HIDE DEF J
<1>6. \A j \in I : n - m >= j
  BY <1>1, <1>4, <1>5
<1>7. \E i \in I : \A j \in I : i >= j
  BY <1>4, <1>6
<1> QED BY <1>7 DEF Max

\* In a finite set of numbers there is one with any given number below it.
LEMMA Ranked ==
  ASSUME NEW S, IsFiniteSet(S), S \subseteq Nat,
         NEW k \in Nat, k < Cardinality(S)
  PROVE  \E w \in S : Cardinality({v \in S : v < w}) = k
<1> DEFINE Smaller(w) == {v \in S : v < w}
           Missing == {n \in Nat : /\ n < Cardinality(S)
                                   /\ ~\E w \in S : Cardinality(Smaller(w)) = n}
<1>1. Cardinality(S) \in Nat
  BY FS_CardinalityType
<1>2. \A w : IsFiniteSet(Smaller(w)) /\ Cardinality(Smaller(w)) \in Nat
  <2> TAKE w
  <2>1. Smaller(w) \subseteq S
    OBVIOUS
  <2> HIDE DEF Smaller
  <2> QED BY <2>1, FS_Subset, FS_CardinalityType
<1>3. ASSUME Missing # {} PROVE FALSE
  <2>1. Missing \subseteq Nat
    OBVIOUS
  <2>2. PICK n \in Missing : \A m \in Missing : n <= m
    <3> HIDE DEF Missing
    <3> QED BY <1>3, <2>1, LeastNumber
  <2>3. n \in Nat /\ n < Cardinality(S) /\ ~\E w \in S : Cardinality(Smaller(w)) = n
    BY <2>2
  <2>4. CASE n = 0
    <3>1. S # {}
      BY <2>3, <2>4, FS_EmptySet
    <3>2. PICK w \in S : \A v \in S : w <= v
      BY <3>1, LeastNumber
    <3>3. Smaller(w) = {}
      <4>1. ASSUME NEW v \in S PROVE ~(v < w)
        <5>1. w <= v /\ w \in Nat /\ v \in Nat
          BY <3>2
        <5> QED BY <5>1
      <4> QED BY <4>1
    <3>4. Cardinality(Smaller(w)) = 0
      BY <3>3, FS_EmptySet
    <3> QED BY <2>3, <2>4, <3>4
  <2>5. CASE n # 0
    <3>1. n - 1 \in Nat /\ n - 1 < Cardinality(S) /\ n - 1 < n
      BY <1>1, <2>3, <2>5
    <3>2. n - 1 \notin Missing
      BY <2>1, <2>2, <3>1
    <3>3. PICK u \in S : Cardinality(Smaller(u)) = n - 1
      BY <3>1, <3>2
    <3> DEFINE T == {v \in S : u < v}
               L == Smaller(u) \cup {u}
    <3>4. IsFiniteSet(L) /\ Cardinality(L) = n
      <4>1. u \notin Smaller(u)
        OBVIOUS
      <4> HIDE DEF Smaller
      <4>2. IsFiniteSet(L) /\ Cardinality(L) = Cardinality(Smaller(u)) + 1
        BY <1>2, <4>1, FS_AddElement
      <4> QED BY <2>3, <3>3, <4>2
    <3>5. T # {}
      <4>1. ASSUME T = {} PROVE S = L
        <5>1. \A v \in S : v < u \/ v = u
          BY <4>1
        <5> QED BY <5>1
      <4> HIDE DEF T, L
      <4> QED BY <1>1, <2>3, <3>4, <4>1
    <3>6. PICK w \in T : \A v \in T : w <= v
      <4>1. T \subseteq Nat
        OBVIOUS
      <4> HIDE DEF T
      <4> QED BY <3>5, <4>1, LeastNumber
    <3>7. Smaller(w) = L
      <4>1. ASSUME NEW v \in S PROVE v < w <=> (v < u \/ v = u)
        <5>1. w \in Nat /\ v \in Nat /\ u \in Nat /\ u < w
          BY <3>6
        <5>2. u < v => w <= v
          BY <3>6
        <5> QED BY <5>1, <5>2
      <4>2. u \in S
        OBVIOUS
      <4> QED BY <4>1, <4>2
    <3> HIDE DEF L
    <3>8. w \in S /\ Cardinality(Smaller(w)) = n
      BY <3>4, <3>6, <3>7
    <3> HIDE DEF Smaller, T
    <3> QED BY <2>3, <3>8
  <2> QED BY <2>4, <2>5
<1> QED BY <1>3

\* The due contracts in order: each of them, and none twice (ORDER BY).
LEMMA InOrderOf ==
  ASSUME NEW S, IsFiniteSet(S), S \subseteq Nat
  PROVE  /\ InOrder(S) \in Seq(S)
         /\ \A i, j \in DOMAIN InOrder(S) : i # j => InOrder(S)[i] # InOrder(S)[j]
<1> DEFINE n == Cardinality(S)
           Order(w) == Cardinality({v \in S : v < w})
           f == [i \in 1 .. n |-> CHOOSE w \in S : Order(w) = i - 1]
<1>1. n \in Nat
  BY FS_CardinalityType
<1>2. ASSUME NEW i \in 1 .. n PROVE f[i] \in S /\ Order(f[i]) = i - 1
  <2>1. i - 1 \in Nat /\ i - 1 < n
    BY <1>1
  <2>2. \E w \in S : Order(w) = i - 1
    BY <2>1, Ranked
  <2> HIDE DEF Order
  <2> QED BY <2>2
<1>3. f \in Seq(S) /\ DOMAIN f = 1 .. n
  <2>1. f \in [1 .. n -> S]
    BY <1>2
  <2> HIDE DEF f
  <2> QED BY <1>1, <2>1
<1>4. \A i, j \in 1 .. n : i # j => f[i] # f[j]
  <2> HIDE DEF f, Order, n
  <2>1. SUFFICES ASSUME NEW i \in 1 .. n, NEW j \in 1 .. n, f[i] = f[j]
                 PROVE  i = j
    OBVIOUS
  <2>2. i - 1 = j - 1
    BY <1>2, <2>1
  <2> QED BY <1>1, <2>2
<1>5. InOrder(S) = f
  BY DEF InOrder
<1> HIDE DEF f
<1> QED BY <1>3, <1>4, <1>5

-----------------------------------------------------------------------------
(***************************************************************************)
(* What bars, references and prices are read out of the provider.          *)
(***************************************************************************)
\* A merge adds only bars that were brought.
LEMMA MergedBars ==
  ASSUME NEW t, DOMAIN cache \subseteq 0 .. t, NEW period,
         NEW fresh \in Downloads(t, period)
  PROVE  DOMAIN MergeCache(cache, fresh) \subseteq 0 .. t
<1>1. CASE ~Got(fresh)
  BY <1>1 DEF MergeCache
<1>2. CASE Got(fresh)
  <2>1. fresh # FAILED
    BY <1>2 DEF Got
  <2>2. PICK S \in SUBSET {b \in 0 .. t : b + period > t} :
          fresh = [b \in S |-> b < t]
    BY <2>1 DEF Downloads
  <2>3. DOMAIN fresh \subseteq 0 .. t
    BY <2>2
  <2> DEFINE both == Replacing(fresh, cache)
  <2>4. DOMAIN both \subseteq 0 .. t
    BY <2>3 DEF Replacing
  <2>5. DOMAIN Newest(both) \subseteq DOMAIN both
    BY DEF Newest
  <2> QED BY <1>2, <2>4, <2>5 DEF MergeCache
<1> QED BY <1>1, <1>2

\* No bar is of a minute to come (get_bars).
LEMMA BarsOf ==
  ASSUME TypeOK, NEW g \in GetBars(cache, cool, now)
  PROVE  DOMAIN g.cache \subseteq 0 .. now /\ g.cool \in Nat
<1>1. DOMAIN cache \subseteq 0 .. now /\ cool \in Nat /\ now \in Nat
  BY DEF TypeOK
<1>2. CASE now < cool
  <2>1. g = [cache |-> cache, cool |-> cool]
    BY <1>2 DEF GetBars
  <2> QED BY <1>1, <2>1
<1>3. CASE ~(now < cool)
  <2>1. PICK p \in Downloads(now, Period(cache)) \X Downloads(now, Bootstrap) :
          g = [cache |-> MergeCache(cache, IF Got(p[2]) THEN p[2] ELSE p[1]),
               cool  |-> IF p[1] = FAILED THEN now + Cooldown ELSE 0]
    BY <1>3 DEF GetBars
  <2> DEFINE fresh == IF Got(p[2]) THEN p[2] ELSE p[1]
  <2>2. p[1] \in Downloads(now, Period(cache)) /\ p[2] \in Downloads(now, Bootstrap)
    OBVIOUS
  <2>3. CASE Got(p[2])
    <3>1. DOMAIN MergeCache(cache, p[2]) \subseteq 0 .. now
      BY <1>1, <2>2, MergedBars
    <3> QED BY <1>1, <2>1, <2>3, <3>1, Bounds
  <2>4. CASE ~Got(p[2])
    <3>1. DOMAIN MergeCache(cache, p[1]) \subseteq 0 .. now
      BY <1>1, <2>2, MergedBars
    <3> QED BY <1>1, <2>1, <2>4, <3>1, Bounds
  <2> QED BY <2>3, <2>4
<1> QED BY <1>2, <1>3

\* A terminal price was observed within the tolerance of the window's end
\* (find_terminal_price).
LEMMA TerminalOf ==
  ASSUME TypeOK, NEW e \in Nat, Terminal(price, cache, e) # NONE
  PROVE  LET T == Terminal(price, cache, e)
         IN  /\ T \in [kind : {"OPEN", "CLOSE"}, bar : Minutes, price : Prices]
             /\ T.bar \in (e - Tolerance) .. (e + Tolerance)
             /\ T.kind = "OPEN" => T.bar >= e
             /\ T.price \in {price[T.bar], price[T.bar + 1]}
<1> DEFINE T == Terminal(price, cache, e)
           after == AtOrAfter(cache, e)
           before == AtOrBefore(cache, e)
<1>1. DOMAIN cache \subseteq 0 .. now /\ now \in 0 .. Horizon /\ now \in Nat
      /\ Horizon \in Nat /\ Tolerance \in Nat
  BY Bounds DEF TypeOK
<1>2. /\ after \subseteq 0 .. now /\ after \subseteq Nat
      /\ before \subseteq 0 .. now
      /\ \A b \in after : b >= e
      /\ \A b \in before : b <= e
  BY <1>1 DEF AtOrAfter, AtOrBefore
<1>3. \A b \in 0 .. now : /\ b \in Nat /\ b \in Minutes /\ b + 1 \in Minutes
                          /\ price[b] \in Prices /\ price[b + 1] \in Prices
  <2>1. \A b \in 0 .. now : b \in Nat /\ b \in Minutes /\ b + 1 \in Minutes
    BY <1>1 DEF Minutes
  <2> QED BY <2>1 DEF Prices
<1>4. T = IF after # {} /\ Min(after) <= e + Tolerance
          THEN [kind |-> "OPEN", bar |-> Min(after), price |-> price[Min(after)]]
          ELSE IF before # {} /\ Max(before) + Tolerance >= e
          THEN [kind |-> "CLOSE", bar |-> Max(before),
                price |-> Close(price, cache, Max(before))]
          ELSE NONE
  BY DEF Terminal
<1>5. T # NONE
  OBVIOUS
<1> HIDE DEF T, after, before
<1>6. CASE after # {} /\ Min(after) <= e + Tolerance
  <2> DEFINE b == Min(after)
  <2>1. b \in after
    BY <1>2, <1>6, MinOf
  <2>2. T = [kind |-> "OPEN", bar |-> b, price |-> price[b]]
    BY <1>4, <1>6
  <2>3. b <= e + Tolerance
    BY <1>6
  <2> HIDE DEF b
  <2>4. b \in (e - Tolerance) .. (e + Tolerance) /\ b >= e
    BY <1>1, <1>2, <1>3, <2>1, <2>3
  <2>5. T \in [kind : {"OPEN", "CLOSE"}, bar : Minutes, price : Prices]
    BY <1>2, <1>3, <2>1, <2>2
  <2> QED BY <2>2, <2>4, <2>5 DEF T
<1>7. CASE ~(after # {} /\ Min(after) <= e + Tolerance)
  <2> DEFINE b == Max(before)
  <2>1. before # {} /\ b + Tolerance >= e
        /\ T = [kind |-> "CLOSE", bar |-> b, price |-> Close(price, cache, b)]
    BY <1>4, <1>5, <1>7
  <2>2. b \in before
    BY <1>1, <1>2, <2>1, MaxOf
  <2> HIDE DEF b
  <2>3. b \in (e - Tolerance) .. (e + Tolerance)
    BY <1>1, <1>2, <1>3, <2>1, <2>2
  <2>4. T.price \in {price[b], price[b + 1]} /\ T.bar = b /\ T.kind = "CLOSE"
    BY <2>1 DEF Close
  <2>5. T \in [kind : {"OPEN", "CLOSE"}, bar : Minutes, price : Prices]
    BY <1>2, <1>3, <2>1, <2>2, <2>4
  <2> QED BY <2>3, <2>4, <2>5 DEF T
<1> QED BY <1>6, <1>7

\* The reference of the proxy opens a bar of the window (reference_price).
LEMMA ReferenceOf ==
  ASSUME TypeOK, NEW w \in Windows,
         NEW ref, ref = ProxyReference(price, cache, Start(w), End(w)), ref # NONE
  PROVE  ref \in Prices /\ ref \in {price[t] : t \in Start(w) .. (End(w) - 1)}
<1> DEFINE inside == {b \in AtOrAfter(cache, Start(w)) : b < End(w)}
<1>1. Start(w) \in Nat /\ End(w) \in Nat
  BY EndsInOrder
<1>2. DOMAIN cache \subseteq 0 .. now /\ now \in 0 .. Horizon /\ Horizon \in Nat
  BY Bounds DEF TypeOK
<1>3. /\ inside \subseteq 0 .. now /\ inside \subseteq Nat
      /\ \A b \in inside : b \in Start(w) .. (End(w) - 1) /\ b \in Minutes
  BY <1>1, <1>2 DEF AtOrAfter, Minutes
<1>4. ref = IF inside = {} THEN NONE ELSE price[Min(inside)]
  BY DEF ProxyReference
<1> HIDE DEF inside
<1>5. inside # {}
  BY <1>4
<1>6. Min(inside) \in inside
  BY <1>3, <1>5, MinOf
<1> QED BY <1>3, <1>4, <1>5, <1>6 DEF Prices

\* A specification is the user's record or the proxy's, whole (ContractSpec).
LEMMA SpecOf ==
  ASSUME TypeOK, NEW w \in Windows, NEW s, s = ContractSpec(w), s # NONE
  PROVE  /\ s \in [ref : {r.ref : r \in Records} \cup Prices,
                   source : {"manual", "proxy"},
                   rule : {"AT_OR_ABOVE", "PROXY", "UNKNOWN"}]
         /\ \/ /\ s.source = "manual"
               /\ [win |-> w, ref |-> s.ref, rule |-> s.rule] \in Records
            \/ /\ s.source = "proxy" /\ s.rule = "PROXY"
               /\ s.ref \in {price[t] : t \in Start(w) .. (End(w) - 1)}
<1>1. CASE file # NONE /\ file.win = w /\ file.ref # NONE
  <2>1. file \in Records
    BY <1>1 DEF TypeOK
  <2>2. s = [ref |-> file.ref, source |-> "manual", rule |-> file.rule]
    BY <1>1 DEF ContractSpec
  <2>3. /\ file = [win |-> w, ref |-> file.ref, rule |-> file.rule]
        /\ file.rule \in {"AT_OR_ABOVE", "UNKNOWN"}
    BY <1>1, <2>1, RecordAssumption
  <2>4. [win |-> w, ref |-> s.ref, rule |-> s.rule] \in Records
    BY <2>1, <2>2, <2>3
  <2>5. s.ref \in {r.ref : r \in Records}
    BY <2>1, <2>2
  <2> QED BY <2>2, <2>3, <2>4, <2>5
<1>2. CASE ~(file # NONE /\ file.win = w /\ file.ref # NONE)
  <2> DEFINE ref == ProxyReference(price, cache, Start(w), End(w))
  <2>1. ref # NONE /\ s = [ref |-> ref, source |-> "proxy", rule |-> "PROXY"]
    BY <1>2 DEF ContractSpec
  <2>2. ref \in Prices /\ ref \in {price[t] : t \in Start(w) .. (End(w) - 1)}
    BY <2>1, ReferenceOf
  <2> HIDE DEF ref
  <2> QED BY <2>1, <2>2
<1> QED BY <1>1, <1>2

-----------------------------------------------------------------------------
(***************************************************************************)
(* Types.                                                                  *)
(***************************************************************************)
\* A pass is over some windows, each once, due and open (Settling).
LEMMA QueueOf ==
  ASSUME TypeOK
  PROVE  LET Q == InOrder(DueAt(now))
         IN  /\ Q \in Seq(Windows)
             /\ \A i, j \in DOMAIN Q : i # j => Q[i] # Q[j]
             /\ \A i \in DOMAIN Q : Q[i] \in DueAt(now)
<1> DEFINE S == DueAt(now)
           Q == InOrder(S)
<1>1. S \subseteq Windows
  BY DEF DueAt
<1>2. S \subseteq 0 .. Horizon /\ S \subseteq Nat
  <2>1. Windows \subseteq 0 .. Horizon /\ 0 .. Horizon \subseteq Nat
    BY EndsInOrder
  <2> HIDE DEF S
  <2> QED BY <1>1, <2>1
<1>3. IsFiniteSet(S)
  <2>1. IsFiniteSet(0 .. Horizon)
    BY Bounds, FS_Interval
  <2> HIDE DEF S
  <2> QED BY <1>2, <2>1, FS_Subset
<1> HIDE DEF S
<1>4. /\ Q \in Seq(S)
      /\ \A i, j \in DOMAIN Q : i # j => Q[i] # Q[j]
  BY <1>2, <1>3, InOrderOf
<1> HIDE DEF Q
<1>5. Q \in Seq(Windows) /\ \A i \in DOMAIN Q : Q[i] \in S
  BY <1>1, <1>4
<1> QED BY <1>4, <1>5 DEF Q, S

\* The prices are given once.
LEMMA PriceStays == [Next]_vars => price' = price
<1>1. Work => price' = price
  BY DEF Work, Lookup, Resolve, GiveUp, Mirror, Settled, Observe, Predict, env
<1>2. Boot \/ Scan \/ Interrupt \/ Crash \/ Edit \/ Tick => price' = price
  BY DEF Boot, Scan, Interrupt, Crash, Edit, Tick, env
<1> QED BY <1>1, <1>2 DEF Next, vars

\* A settlement is an outcome, for a rule there is.
LEMMA SettleOf ==
  ASSUME NEW r \in {"AT_OR_ABOVE", "PROXY", "UNKNOWN"}, NEW t, NEW ref
  PROVE  Settle(r, t, ref) \in Outcomes
BY DEF Settle, Outcomes

\* The row of a window after it ended (record_resolution).
LEMMA EndedRow ==
  ASSUME TypeOK, NEW w \in Windows, rows[w] # NoRow,
         NEW status \in Ends, NEW outcome \in Outcomes,
         NEW terminal \in [kind : {"OPEN", "CLOSE"}, bar : Minutes, price : Prices]
                            \cup {NONE},
         Ended(w, status, outcome, terminal)
  PROVE  /\ rows' \in [Windows -> RowType \cup {NoRow}]
         /\ \A v \in Windows \ {w} : rows'[v] = rows[v]
         /\ rows'[w].status = status /\ rows'[w].outcome = outcome
         /\ rows'[w].terminal = terminal
         /\ rows'[w].ref = rows[w].ref /\ rows'[w].rule = rows[w].rule
         /\ rows'[w].source = rows[w].source
<1>1. rows \in [Windows -> RowType \cup {NoRow}]
  BY DEF TypeOK
<1>2. rows[w] \in RowType
  BY <1>1
<1> DEFINE r == [rows[w] EXCEPT !.status = status, !.outcome = outcome,
                                !.terminal = terminal]
<1>3. /\ r \in RowType
      /\ r.status = status /\ r.outcome = outcome /\ r.terminal = terminal
      /\ r.ref = rows[w].ref /\ r.rule = rows[w].rule /\ r.source = rows[w].source
  BY <1>2 DEF RowType, Ends, Statuses
<1>4. rows' = [rows EXCEPT ![w] = r]
  BY <1>1, <1>2 DEF Ended, RowType
<1> HIDE DEF r
<1>5. rows'[w] = r /\ \A v \in Windows \ {w} : rows'[v] = rows[v]
  BY <1>1, <1>4
<1> QED BY <1>1, <1>3, <1>4, <1>5

\* The row of a window that is observed (observe_contract).
LEMMA ObservedRow ==
  ASSUME TypeOK, NEW w \in Windows,
         NEW s \in [ref : {r.ref : r \in Records} \cup Prices,
                    source : {"manual", "proxy"},
                    rule : {"AT_OR_ABOVE", "PROXY", "UNKNOWN"}],
         rows' = [rows EXCEPT ![w] = Observed(@, s)]
  PROVE  /\ rows' \in [Windows -> RowType \cup {NoRow}]
         /\ \A v \in Windows \ {w} : rows'[v] = rows[v]
         /\ rows'[w] \in RowType
         /\ rows'[w].ref = s.ref /\ rows'[w].rule = s.rule
         /\ rows'[w].source = s.source
         /\ rows[w] = NoRow => rows'[w].status = "OPEN"
         /\ rows[w] # NoRow => /\ rows'[w].status = rows[w].status
                               /\ rows'[w].outcome = rows[w].outcome
<1>1. rows \in [Windows -> RowType \cup {NoRow}]
  BY DEF TypeOK
<1> DEFINE r == Observed(rows[w], s)
<1>2. rows'[w] = r /\ \A v \in Windows \ {w} : rows'[v] = rows[v]
  BY <1>1
<1>3. CASE rows[w] = NoRow
  <2>1. r = NewRow(s)
    BY <1>3 DEF Observed
  <2>2. NewRow(s) \in RowType /\ NewRow(s).ref = s.ref
        /\ NewRow(s).rule = s.rule /\ NewRow(s).source = s.source
        /\ NewRow(s).status = "OPEN"
    BY DEF NewRow, RowType, Statuses, Outcomes
  <2> HIDE DEF r
  <2>3. rows' \in [Windows -> RowType \cup {NoRow}]
    BY <1>1, <1>2, <2>1, <2>2 DEF r
  <2> QED BY <1>2, <1>3, <2>1, <2>2, <2>3
<1>4. CASE rows[w] # NoRow
  <2>1. rows[w] \in RowType
    BY <1>1, <1>4
  <2>2. r = [rows[w] EXCEPT !.ref = s.ref, !.source = s.source, !.rule = s.rule]
    BY <1>4 DEF Observed
  <2>3. /\ r \in RowType /\ r.ref = s.ref /\ r.rule = s.rule /\ r.source = s.source
        /\ r.status = rows[w].status /\ r.outcome = rows[w].outcome
    BY <2>1, <2>2 DEF RowType
  <2> HIDE DEF r
  <2>4. rows' \in [Windows -> RowType \cup {NoRow}]
    BY <1>1, <1>2, <2>3 DEF r
  <2> QED BY <1>2, <1>4, <2>3, <2>4
<1> QED BY <1>3, <1>4

\* Nothing is held before the program has run.
LEMMA InitTypes == Init => TypeOK
<1> SUFFICES ASSUME Init PROVE TypeOK
  OBVIOUS
<1>1. << >> \in Seq(CsvType) /\ << >> \in Seq(Windows) /\ DOMAIN Empty = {}
  BY DEF Empty
<1>2. 0 \in 0 .. Horizon /\ 0 \in 0 .. MaxEdits /\ 0 \in 0 .. MaxFaults
      /\ 0 \in 0 .. 0
  BY Bounds
<1>3. [w \in Windows |-> NoRow] \in [Windows -> RowType \cup {NoRow}]
  OBVIOUS
<1> QED BY <1>1, <1>2, <1>3 DEF Init, TypeOK

\* The contract being settled has a row.
LEMMA HeadOf ==
  ASSUME TypeOK, QueueInv, queue # << >>
  PROVE  /\ Head(queue) = queue[1] /\ 1 \in DOMAIN queue
         /\ Head(queue) \in Windows /\ rows[Head(queue)] # NoRow
         /\ Tail(queue) \in Seq(Windows)
<1>1. queue \in Seq(Windows)
  BY DEF TypeOK
<1>2. Head(queue) = queue[1] /\ 1 \in DOMAIN queue /\ Tail(queue) \in Seq(Windows)
  BY <1>1
<1>3. rows[queue[1]].status \in Statuses
  BY <1>2 DEF QueueInv, HasEnded, Ends, Statuses
<1>4. NoRow.status \notin Statuses
  BY DEF NoRow, Statuses
<1>5. Head(queue) \in Windows
  BY <1>1
<1> QED BY <1>2, <1>3, <1>4, <1>5

\* The captured instant is a minute of the clock.
LEMMA InstantOf == TypeOK => instant \in 0 .. Horizon
<1> SUFFICES ASSUME TypeOK PROVE instant \in 0 .. Horizon
  OBVIOUS
<1>1. instant \in 0 .. now /\ now \in 0 .. Horizon /\ Horizon \in Nat
  BY Bounds DEF TypeOK
<1>2. \A i : i \in 0 .. now => i \in 0 .. Horizon
  BY <1>1
<1> QED BY <1>1, <1>2

\* Every step keeps the types.
LEMMA NextTypes == TypeOK /\ QueueInv /\ [Next]_vars => TypeOK'
<1> SUFFICES ASSUME TypeOK, QueueInv, [Next]_vars PROVE TypeOK'
  OBVIOUS
<1>1. price' = price
  BY PriceStays
<1>2. RowType' = RowType
  BY <1>1 DEF RowType, Prices
<1>3. now \in 0 .. Horizon /\ now \in Nat /\ 0 \in 0 .. now /\ now \in 0 .. now
  BY Bounds DEF TypeOK
<1>4. DOMAIN Empty = {} /\ << >> \in Seq(Windows)
  BY DEF Empty
<1>5. InOrder(DueAt(now)) \in Seq(Windows)
  BY QueueOf
<1>6. faults < MaxFaults => faults + 1 \in 0 .. MaxFaults
  BY Bounds DEF TypeOK
<1>7. CASE Boot
  BY <1>2, <1>3, <1>5, <1>7 DEF Boot, Settling, TypeOK, env, disk, bars
<1>8. CASE Scan
  BY <1>2, <1>3, <1>5, <1>8 DEF Scan, Settling, TypeOK, env, disk
<1>9. CASE Interrupt
  BY <1>2, <1>3, <1>5, <1>6, <1>9 DEF Interrupt, Settling, TypeOK, env, disk, bars
<1>10. CASE Crash
  BY <1>2, <1>3, <1>4, <1>6, <1>10 DEF Crash, Down, TypeOK, env, disk
<1>11. CASE Lookup
  <2>1. DOMAIN cache' \subseteq 0 .. now /\ cool' \in Nat
    BY <1>11, BarsOf DEF Lookup
  <2> QED BY <1>2, <1>11, <2>1 DEF Lookup, TypeOK, env, disk
<1>12. CASE Resolve
  <2> DEFINE w == Head(queue)
             T == Terminal(price, cache, End(w))
  <2>1. w \in Windows /\ rows[w] # NoRow /\ Tail(queue) \in Seq(Windows)
    BY <1>12, HeadOf DEF Resolve
  <2>2. rows \in [Windows -> RowType \cup {NoRow}] /\ rows[w] \in RowType
    BY <2>1 DEF TypeOK
  <2>3. ASSUME rows' \in [Windows -> RowType \cup {NoRow}] PROVE TypeOK'
    <3>1. /\ UNCHANGED <<env, csv, scored, stage, instant, bars, faults>>
          /\ queue' = queue \/ queue' = Tail(queue)
          /\ pc' \in {"mirror", "giveup", "settle"}
      BY <1>12 DEF Resolve
    <3> QED BY <1>2, <2>1, <2>3, <3>1 DEF TypeOK, env, bars
  <2>4. \/ Ended(w, "UNRESOLVED", NONE, NONE)
        \/ /\ T # NONE
           /\ Ended(w, "RESOLVED", Settle(rows[w].rule, T.price, rows[w].ref), T)
        \/ rows' = [rows EXCEPT ![w].attempts = @ + 1]
    BY <1>12 DEF Resolve
  <2>5. CASE Ended(w, "UNRESOLVED", NONE, NONE)
    BY <2>1, <2>3, <2>5, EndedRow DEF Ends, Outcomes
  <2>6. CASE T # NONE /\ Ended(w, "RESOLVED",
                               Settle(rows[w].rule, T.price, rows[w].ref), T)
    <3>1. End(w) \in Nat
      BY <2>1, EndsInOrder
    <3>2. T \in [kind : {"OPEN", "CLOSE"}, bar : Minutes, price : Prices]
      BY <2>6, <3>1, TerminalOf
    <3>3. Settle(rows[w].rule, T.price, rows[w].ref) \in Outcomes
      BY <2>2, SettleOf DEF RowType
    <3> HIDE DEF T, w
    <3> QED BY <2>1, <2>3, <2>6, <3>2, <3>3, EndedRow DEF Ends
  <2>7. CASE rows' = [rows EXCEPT ![w].attempts = @ + 1]
    <3>1. [rows[w] EXCEPT !.attempts = @ + 1] \in RowType
      BY <2>2 DEF RowType
    <3>2. rows' \in [Windows -> RowType \cup {NoRow}]
      BY <2>1, <2>2, <2>7, <3>1
    <3> QED BY <2>3, <3>2
  <2> QED BY <2>4, <2>5, <2>6, <2>7
<1>13. CASE GiveUp
  <2>1. /\ pc' = "mirror" /\ Ended(Head(queue), "UNRESOLVED", NONE, NONE)
        /\ UNCHANGED <<env, csv, scored, stage, instant, queue, bars, faults>>
        /\ queue # << >>
    BY <1>13 DEF GiveUp, QueueInv
  <2>2. rows' \in [Windows -> RowType \cup {NoRow}]
    BY <2>1, HeadOf, EndedRow DEF Ends, Outcomes
  <2> QED BY <1>2, <2>1, <2>2 DEF TypeOK, env, bars
<1>14. CASE Mirror
  <2> DEFINE w == Head(queue)
             c == [win |-> w, status |-> rows[w].status, outcome |-> rows[w].outcome]
  <2>1. /\ UNCHANGED <<env, rows, scored, stage, instant, bars>>
        /\ pc = "mirror" /\ queue' = Tail(queue) /\ pc' = "settle"
        /\ \/ csv' = Append(csv, c) /\ faults' = faults
           \/ csv' = csv /\ faults < MaxFaults /\ faults' = faults + 1
    BY <1>14 DEF Mirror
  <2>2. queue # << >>
    BY <2>1 DEF QueueInv
  <2>3. w \in Windows /\ rows[w] # NoRow /\ Tail(queue) \in Seq(Windows)
        /\ w = queue[1] /\ 1 \in DOMAIN queue
    BY <2>2, HeadOf
  <2>4. rows[w] \in RowType
    BY <2>3 DEF TypeOK
  <2>5. rows[w].status \in Ends
    BY <2>1, <2>3 DEF QueueInv, HasEnded
  <2>6. c \in CsvType
    BY <2>3, <2>4, <2>5 DEF CsvType, RowType
  <2>7. csv' \in Seq(CsvType)
    <3> HIDE DEF c
    <3> QED BY <2>1, <2>6 DEF TypeOK
  <2> QED BY <1>2, <1>6, <2>1, <2>3, <2>7 DEF TypeOK, env, bars
<1>15. CASE Settled
  <2>1. UNCHANGED <<env, disk, faults>>
    BY <1>15 DEF Settled
  <2>2. \/ Down
        \/ /\ pc' \in {"idle", "observe"} /\ UNCHANGED <<stage, queue, bars>>
           /\ instant' \in {instant, 0}
    BY <1>15 DEF Settled, Idle
  <2>3. CASE Down
    BY <1>2, <1>3, <1>4, <2>1, <2>3 DEF Down, TypeOK, env, disk
  <2>4. CASE /\ pc' \in {"idle", "observe"} /\ UNCHANGED <<stage, queue, bars>>
             /\ instant' \in {instant, 0}
    BY <1>2, <1>3, <2>1, <2>4 DEF TypeOK, env, disk, bars
  <2> QED BY <2>2, <2>3, <2>4
<1>16. CASE Observe
  <2>1. /\ UNCHANGED <<env, csv, scored, faults>>
        /\ stage' = stage /\ queue' = queue /\ UNCHANGED bars
        /\ instant' \in {instant, 0} /\ pc' \in {"idle", "predict"}
        /\ \/ rows' = rows
           \/ /\ ContractSpec(Window(instant)) # NONE
              /\ rows' = [rows EXCEPT ![Window(instant)] =
                            Observed(@, ContractSpec(Window(instant)))]
    BY <1>16 DEF Observe, Idle
  <2>2. instant \in 0 .. Horizon
    BY InstantOf
  <2>3. rows' \in [Windows -> RowType \cup {NoRow}]
    <3>1. CASE rows' = rows
      BY <3>1 DEF TypeOK
    <3>2. CASE rows' # rows
      <4> DEFINE w == Window(instant)
                 s == ContractSpec(w)
      <4>1. w \in Windows
        BY <2>2, WindowOf
      <4>2. s \in [ref : {r.ref : r \in Records} \cup Prices,
                   source : {"manual", "proxy"},
                   rule : {"AT_OR_ABOVE", "PROXY", "UNKNOWN"}]
        BY <2>1, <3>2, <4>1, SpecOf
      <4>3. rows' = [rows EXCEPT ![w] = Observed(@, s)]
        BY <2>1, <3>2
      <4> HIDE DEF s, w
      <4> QED BY <4>1, <4>2, <4>3, ObservedRow
    <3> QED BY <3>1, <3>2
  <2>4. instant' \in 0 .. now
    BY <1>3, <2>1 DEF TypeOK
  <2> QED BY <1>2, <2>1, <2>3, <2>4 DEF TypeOK, env, bars
<1>17. CASE Predict
  <2>1. /\ UNCHANGED <<env, rows, csv, faults, stage, queue, bars>>
        /\ pc' = "idle" /\ instant' = 0
        /\ scored' = scored \cup {Window(instant)}
    BY <1>17 DEF Predict, Idle
  <2>2. Window(instant) \in Windows
    <3>1. instant \in 0 .. Horizon
      BY InstantOf
    <3> QED BY <3>1, WindowOf
  <2> QED BY <1>2, <1>3, <2>1, <2>2 DEF TypeOK, env, bars
<1>18. CASE Edit
  <2>1. /\ UNCHANGED <<price, now, disk, pc, stage, instant, queue, bars, faults>>
        /\ edits < MaxEdits /\ edits' = edits + 1 /\ file' \in Records \cup {NONE}
    BY <1>18 DEF Edit
  <2>2. edits' \in 0 .. MaxEdits
    BY <2>1, Bounds DEF TypeOK
  <2> QED BY <1>2, <2>1, <2>2 DEF TypeOK, disk, bars
<1>19. CASE Tick
  <2>1. /\ UNCHANGED <<price, file, disk, pc, stage, instant, queue, bars, edits,
                       faults>>
        /\ now < Horizon /\ now' = now + 1
    BY <1>19 DEF Tick
  <2>2. now' \in 0 .. Horizon /\ 0 .. now \subseteq 0 .. now'
    BY <1>3, <2>1, Bounds
  <2>3. instant' \in 0 .. now' /\ DOMAIN cache' \subseteq 0 .. now'
    BY <2>1, <2>2 DEF TypeOK, bars
  <2> QED BY <1>2, <2>1, <2>2, <2>3 DEF TypeOK, disk, bars
<1>20. CASE UNCHANGED vars
  BY <1>2, <1>20 DEF vars, TypeOK
<1> QED BY <1>7, <1>8, <1>9, <1>10, <1>11, <1>12, <1>13, <1>14, <1>15, <1>16,
           <1>17, <1>18, <1>19, <1>20 DEF Next, Work

-----------------------------------------------------------------------------
(***************************************************************************)
(* What a step does to the rows: nothing that is looked at, the end of the *)
(* contract being settled, or an observation of the window of the scan.    *)
(***************************************************************************)
Same(v) ==
  /\ rows'[v] = NoRow <=> rows[v] = NoRow
  /\ rows'[v].status = rows[v].status /\ rows'[v].outcome = rows[v].outcome
  /\ rows'[v].ref = rows[v].ref /\ rows'[v].rule = rows[v].rule
  /\ rows'[v].source = rows[v].source /\ rows'[v].terminal = rows[v].terminal

\* What a settled row must say of its terminal price (LabelsTellTheTruth).
TrueLabel(w, r) ==
  /\ r.terminal.bar \in (End(w) - Tolerance) .. (End(w) + Tolerance)
  /\ r.terminal.kind = "OPEN" => r.terminal.bar >= End(w)
  /\ r.terminal.price \in {price[r.terminal.bar], price[r.terminal.bar + 1]}
  /\ r.outcome = Settle(r.rule, r.terminal.price, r.ref)

\* What a row must say of its specification (OneSpecification).
OneSource(w, r) ==
  \/ /\ r.source = "manual"
     /\ [win |-> w, ref |-> r.ref, rule |-> r.rule] \in Records
  \/ /\ r.source = "proxy" /\ r.rule = "PROXY"
     /\ r.ref \in {price[t] : t \in Start(w) .. (End(w) - 1)}

LabelInv  == \A w \in Windows :
               rows[w].status = "RESOLVED" => TrueLabel(w, rows[w])
SourceInv == \A w \in Windows :
               rows[w] # NoRow => OneSource(w, rows[w])

EndsRow(w) ==
  /\ pc \in {"settle", "giveup"} /\ queue # << >> /\ w = queue[1]
  /\ pc' = "mirror" /\ UNCHANGED <<queue, stage, instant, csv, now>>
  /\ \A v \in Windows \ {w} : Same(v)
  /\ rows[w].status = "OPEN" /\ rows[w] # NoRow /\ rows'[w] # NoRow
  /\ rows'[w].ref = rows[w].ref /\ rows'[w].rule = rows[w].rule
  /\ rows'[w].source = rows[w].source
  /\ \/ rows'[w].status = "UNRESOLVED"
     \/ rows'[w].status = "RESOLVED" /\ TrueLabel(w, rows'[w])

ObservesRow(w) ==
  /\ pc = "observe" /\ pc' = "predict" /\ w = Window(instant)
  /\ UNCHANGED <<queue, stage, instant, csv, now>>
  /\ \A v \in Windows \ {w} : Same(v)
  /\ rows'[w] # NoRow /\ OneSource(w, rows'[w])
  /\ rows[w] = NoRow => rows'[w].status = "OPEN"
  /\ rows[w] # NoRow => /\ rows'[w].status = rows[w].status
                        /\ rows'[w].outcome = rows[w].outcome

\* A row's end, as a step of the model makes it (Ended).
LEMMA EndingRow ==
  ASSUME TypeOK, QueueInv, queue # << >>, pc \in {"settle", "giveup"},
         pc' = "mirror", UNCHANGED <<queue, stage, instant, csv, now>>,
         NEW status \in Ends, NEW outcome \in Outcomes,
         NEW terminal \in [kind : {"OPEN", "CLOSE"}, bar : Minutes, price : Prices]
                            \cup {NONE},
         Ended(Head(queue), status, outcome, terminal),
         status = "RESOLVED" =>
           TrueLabel(Head(queue), [rule |-> rows[Head(queue)].rule,
                                   ref |-> rows[Head(queue)].ref,
                                   terminal |-> terminal, outcome |-> outcome])
  PROVE  EndsRow(Head(queue))
<1> DEFINE w == Head(queue)
<1>1. w \in Windows /\ w = queue[1] /\ 1 \in DOMAIN queue /\ rows[w] # NoRow
  BY HeadOf
<1>2. rows[w].status = "OPEN"
  BY <1>1 DEF QueueInv
<1> HIDE DEF w
<1>3. Ended(w, status, outcome, terminal)
  BY DEF w
<1>4. /\ \A v \in Windows \ {w} : rows'[v] = rows[v]
      /\ rows'[w].status = status /\ rows'[w].outcome = outcome
      /\ rows'[w].terminal = terminal
      /\ rows'[w].ref = rows[w].ref /\ rows'[w].rule = rows[w].rule
      /\ rows'[w].source = rows[w].source
  BY <1>1, <1>3, EndedRow
<1>5. rows'[w] # NoRow
  BY <1>4 DEF NoRow, Ends
<1>6. \A v \in Windows \ {w} : Same(v)
  BY <1>4 DEF Same
<1>7. status = "RESOLVED" => TrueLabel(w, rows'[w])
  BY <1>4 DEF TrueLabel, w
<1>8. status = "RESOLVED" \/ status = "UNRESOLVED"
  BY DEF Ends
<1> QED BY <1>1, <1>2, <1>4, <1>5, <1>6, <1>7, <1>8 DEF EndsRow, w

\* Of _resolve_one: an end, or one attempt more.
LEMMA ResolveRows ==
  ASSUME TypeOK, QueueInv, Resolve
  PROVE  EndsRow(Head(queue)) \/ \A v \in Windows : Same(v)
<1> DEFINE w == Head(queue)
           T == Terminal(price, cache, End(w))
<1>1. w \in Windows /\ rows[w] # NoRow
  BY HeadOf DEF Resolve
<1>2. rows[w] \in RowType
  BY <1>1 DEF TypeOK
<1>3. /\ pc = "settle" /\ queue # << >>
      /\ UNCHANGED <<csv, stage, instant, now>>
  BY DEF Resolve, env
<1>4. \/ /\ Ended(w, "UNRESOLVED", NONE, NONE) /\ pc' = "mirror" /\ queue' = queue
      \/ /\ T # NONE /\ pc' = "mirror" /\ queue' = queue
         /\ Ended(w, "RESOLVED", Settle(rows[w].rule, T.price, rows[w].ref), T)
      \/ rows' = [rows EXCEPT ![w].attempts = @ + 1]
  BY DEF Resolve
<1>5. CASE Ended(w, "UNRESOLVED", NONE, NONE) /\ pc' = "mirror" /\ queue' = queue
  BY <1>3, <1>5, EndingRow DEF Ends, Outcomes
<1>6. CASE /\ T # NONE /\ pc' = "mirror" /\ queue' = queue
           /\ Ended(w, "RESOLVED", Settle(rows[w].rule, T.price, rows[w].ref), T)
  <2> DEFINE outcome == Settle(rows[w].rule, T.price, rows[w].ref)
  <2>1. End(w) \in Nat
    BY <1>1, EndsInOrder
  <2>2. /\ T \in [kind : {"OPEN", "CLOSE"}, bar : Minutes, price : Prices]
        /\ T.bar \in (End(w) - Tolerance) .. (End(w) + Tolerance)
        /\ T.kind = "OPEN" => T.bar >= End(w)
        /\ T.price \in {price[T.bar], price[T.bar + 1]}
    BY <1>6, <2>1, TerminalOf
  <2>3. outcome \in Outcomes
    BY <1>2, SettleOf DEF RowType
  <2> HIDE DEF T
  <2>4. TrueLabel(w, [rule |-> rows[w].rule, ref |-> rows[w].ref,
                      terminal |-> T, outcome |-> outcome])
    BY <2>2 DEF TrueLabel
  <2>5. /\ Ended(w, "RESOLVED", outcome, T) /\ pc' = "mirror" /\ queue' = queue
    BY <1>6
  <2> HIDE DEF outcome
  <2> QED BY <1>3, <2>2, <2>3, <2>4, <2>5, EndingRow DEF Ends
<1>7. CASE rows' = [rows EXCEPT ![w].attempts = @ + 1]
  <2>1. rows \in [Windows -> RowType \cup {NoRow}]
    BY DEF TypeOK
  <2>2. \A v \in Windows \ {w} : rows'[v] = rows[v]
    BY <1>7, <2>1
  <2> DEFINE r == [rows[w] EXCEPT !.attempts = @ + 1]
  <2>3. rows'[w] = r
    BY <1>1, <1>2, <1>7, <2>1
  <2>4. /\ r \in RowType /\ r.status = rows[w].status /\ r.ref = rows[w].ref
        /\ r.outcome = rows[w].outcome /\ r.rule = rows[w].rule
        /\ r.source = rows[w].source /\ r.terminal = rows[w].terminal
    BY <1>2 DEF RowType
  <2>5. r # NoRow
    BY <2>4 DEF RowType, NoRow, Statuses
  <2> HIDE DEF r, w
  <2>6. Same(w)
    BY <1>1, <2>3, <2>4, <2>5 DEF Same
  <2> QED BY <2>2, <2>6 DEF Same
<1> QED BY <1>4, <1>5, <1>6, <1>7

\* Of observe_contract: nothing, or the row of the window of the scan.
LEMMA ObserveRows ==
  ASSUME TypeOK, Observe
  PROVE  ObservesRow(Window(instant)) \/ UNCHANGED rows
<1> DEFINE w == Window(instant)
           s == ContractSpec(w)
<1>1. CASE UNCHANGED rows
  BY <1>1
<1>2. CASE ~UNCHANGED rows
  <2>1. /\ pc = "observe" /\ pc' = "predict" /\ s # NONE
        /\ UNCHANGED <<queue, stage, instant, csv, now, price>>
        /\ rows' = [rows EXCEPT ![w] = Observed(@, s)]
    BY <1>2 DEF Observe, env
  <2>2. w \in Windows
    BY InstantOf, WindowOf
  <2>3. /\ s \in [ref : {r.ref : r \in Records} \cup Prices,
                  source : {"manual", "proxy"},
                  rule : {"AT_OR_ABOVE", "PROXY", "UNKNOWN"}]
        /\ OneSource(w, s)
    BY <2>1, <2>2, SpecOf DEF OneSource
  <2> HIDE DEF s, w
  <2>4. /\ \A v \in Windows \ {w} : rows'[v] = rows[v]
        /\ rows'[w] \in RowType
        /\ rows'[w].ref = s.ref /\ rows'[w].rule = s.rule
        /\ rows'[w].source = s.source
        /\ rows[w] = NoRow => rows'[w].status = "OPEN"
        /\ rows[w] # NoRow => /\ rows'[w].status = rows[w].status
                              /\ rows'[w].outcome = rows[w].outcome
    BY <2>1, <2>2, <2>3, ObservedRow
  <2>5. OneSource(w, rows'[w])
    BY <2>3, <2>4 DEF OneSource
  <2>6. rows'[w] # NoRow
    BY <2>4 DEF RowType, NoRow, Statuses
  <2>7. \A v \in Windows \ {w} : Same(v)
    BY <2>4 DEF Same
  <2> QED BY <2>1, <2>4, <2>5, <2>6, <2>7 DEF ObservesRow, w
<1> QED BY <1>1, <1>2

\* Of every step.
LEMMA RowsStep ==
  ASSUME TypeOK, QueueInv, [Next]_vars
  PROVE  \/ \A v \in Windows : Same(v)
         \/ \E w \in Windows : EndsRow(w) \/ ObservesRow(w)
<1>1. CASE UNCHANGED rows
  BY <1>1 DEF Same
<1>2. CASE Resolve
  BY <1>2, ResolveRows, HeadOf DEF Resolve
<1>3. CASE GiveUp
  <2>1. /\ pc = "giveup" /\ pc' = "mirror" /\ Ended(Head(queue), "UNRESOLVED", NONE, NONE)
        /\ UNCHANGED <<queue, stage, instant, csv, now>> /\ queue # << >>
    BY <1>3 DEF GiveUp, QueueInv, env
  <2>2. EndsRow(Head(queue))
    BY <2>1, EndingRow DEF Ends, Outcomes
  <2> QED BY <2>1, <2>2, HeadOf
<1>4. CASE Observe
  <2>1. Window(instant) \in Windows
    BY InstantOf, WindowOf
  <2> QED BY <1>1, <1>4, <2>1, ObserveRows
<1>5. Boot \/ Scan \/ Interrupt \/ Crash \/ Edit \/ Tick => UNCHANGED rows
  BY DEF Boot, Scan, Interrupt, Crash, Edit, Tick, disk
<1>6. Lookup \/ Mirror \/ Settled \/ Predict => UNCHANGED rows
  BY DEF Lookup, Mirror, Settled, Predict, disk
<1> QED BY <1>1, <1>2, <1>3, <1>4, <1>5, <1>6 DEF Next, Work, vars

-----------------------------------------------------------------------------
(***************************************************************************)
(* The invariant, step by step.                                            *)
(***************************************************************************)
\* The pass under way stays one over open contracts that are due.
LEMMA NextQueue == TypeOK /\ QueueInv /\ [Next]_vars => QueueInv'
<1> SUFFICES ASSUME TypeOK, QueueInv, [Next]_vars PROVE QueueInv'
  OBVIOUS
<1>1. queue \in Seq(Windows) /\ \A i \in DOMAIN queue : queue[i] \in Windows
  BY DEF TypeOK
<1>2. ASSUME queue' = << >>, pc' \notin {"giveup", "mirror"} PROVE QueueInv'
  BY <1>2 DEF QueueInv
<1>3. ASSUME queue' = InOrder(DueAt(now)), instant' = now, pc' = "settle",
             UNCHANGED rows
      PROVE  QueueInv'
  <2> DEFINE Q == InOrder(DueAt(now))
  <2>1. /\ Q \in Seq(Windows)
        /\ \A i, j \in DOMAIN Q : i # j => Q[i] # Q[j]
        /\ \A i \in DOMAIN Q : Q[i] \in DueAt(now)
    BY QueueOf
  <2> HIDE DEF Q
  <2>2. \A i \in DOMAIN Q : Over(Q[i], now) /\ rows[Q[i]].status = "OPEN"
    BY <2>1 DEF DueAt, Over
  <2>3. queue' = Q
    BY <1>3 DEF Q
  <2> QED BY <1>3, <2>1, <2>2, <2>3 DEF QueueInv, Over
<1>4. CASE Boot \/ Scan \/ Interrupt
  BY <1>3, <1>4 DEF Boot, Scan, Interrupt, Settling, disk
<1>5. CASE Crash
  BY <1>2, <1>5 DEF Crash, Down
<1>6. ASSUME UNCHANGED <<queue, instant>>, pc' = "mirror" <=> pc = "mirror",
             pc' \in {"giveup", "mirror"} => queue # << >>,
             pc' \in {"settle", "giveup", "mirror"} \/ queue = << >>,
             \A v \in Windows : Same(v)
      PROVE  QueueInv'
  <2>1. \A i \in DOMAIN queue : rows'[queue[i]].status = rows[queue[i]].status
    BY <1>1, <1>6 DEF Same
  <2> QED BY <1>6, <2>1 DEF QueueInv, HasEnded, Over
<1>7. ASSUME queue # << >>, queue' = Tail(queue), UNCHANGED instant,
             pc' = "settle", \A v \in Windows : Same(v)
      PROVE  QueueInv'
  <2>1. /\ DOMAIN queue' = 1 .. (Len(queue) - 1) /\ Len(queue) \in Nat
        /\ DOMAIN queue = 1 .. Len(queue)
        /\ \A i \in DOMAIN queue' : queue'[i] = queue[i + 1]
    BY <1>1, <1>7
  <2>2. \A i \in DOMAIN queue' : i \in Nat /\ i + 1 \in DOMAIN queue /\ i + 1 # 1
    BY <2>1
  <2>3. \A i, j \in DOMAIN queue' : i # j => queue'[i] # queue'[j]
    <3> SUFFICES ASSUME NEW i \in DOMAIN queue', NEW j \in DOMAIN queue', i # j
                 PROVE  queue[i + 1] # queue[j + 1]
      BY <2>1
    <3>1. i + 1 # j + 1
      BY <2>2
    <3> QED BY <2>2, <3>1 DEF QueueInv
  <2>4. ASSUME NEW i \in DOMAIN queue'
        PROVE  Over(queue'[i], instant) /\ rows'[queue'[i]].status = "OPEN"
    <3>1. i + 1 \in DOMAIN queue /\ i + 1 # 1 /\ queue'[i] = queue[i + 1]
      BY <2>1, <2>2
    <3>2. Over(queue[i + 1], instant) /\ rows[queue[i + 1]].status = "OPEN"
      BY <3>1 DEF QueueInv
    <3>3. Same(queue[i + 1])
      BY <1>1, <1>7, <3>1
    <3> QED BY <3>1, <3>2, <3>3 DEF Same
  <2> QED BY <1>7, <2>3, <2>4 DEF QueueInv, Over
<1>8. ASSUME NEW w \in Windows, EndsRow(w) PROVE QueueInv'
  <2>1. /\ queue # << >> /\ w = queue[1] /\ pc' = "mirror" /\ pc # "mirror"
        /\ UNCHANGED <<queue, instant>>
        /\ \A v \in Windows \ {w} : Same(v)
        /\ rows'[w].status \in Ends
    BY <1>8 DEF EndsRow, Ends
  <2>2. 1 \in DOMAIN queue
    BY <1>1, <2>1
  <2>3. ASSUME NEW i \in DOMAIN queue, i # 1
        PROVE  rows'[queue[i]].status = "OPEN"
    <3>1. queue[i] \in Windows \ {w} /\ rows[queue[i]].status = "OPEN"
      BY <1>1, <2>1, <2>2, <2>3 DEF QueueInv
    <3> QED BY <2>1, <3>1 DEF Same
  <2> QED BY <2>1, <2>3 DEF QueueInv, HasEnded, Over
<1>9. CASE Lookup
  <2>1. UNCHANGED <<queue, instant, pc, rows>>
    BY <1>9 DEF Lookup, disk
  <2> QED BY <1>6, <2>1 DEF Same, QueueInv
<1>10. CASE Resolve
  <2>1. queue # << >> /\ Head(queue) \in Windows /\ UNCHANGED instant /\ pc = "settle"
    BY <1>10, HeadOf DEF Resolve
  <2>2. CASE EndsRow(Head(queue))
    BY <1>8, <2>1, <2>2
  <2>3. CASE pc' # "mirror" /\ \A v \in Windows : Same(v)
    <3>1. \/ pc' = "giveup" /\ queue' = queue
          \/ pc' = "settle" /\ queue' = Tail(queue)
      BY <1>10, <2>3 DEF Resolve
    <3> QED BY <1>6, <1>7, <2>1, <2>3, <3>1
  <2>4. pc' = "mirror" => EndsRow(Head(queue))
    <3> SUFFICES ASSUME pc' = "mirror", \A v \in Windows : Same(v) PROVE FALSE
      BY <1>10, ResolveRows
    <3>1. Ended(Head(queue), "UNRESOLVED", NONE, NONE)
          \/ \E o, t : Ended(Head(queue), "RESOLVED", o, t)
      BY <1>10 DEF Resolve
    <3>2. rows[Head(queue)].status = "OPEN" /\ rows[Head(queue)] # NoRow
      BY <2>1, HeadOf DEF QueueInv
    <3>3. rows \in [Windows -> RowType \cup {NoRow}]
      BY DEF TypeOK
    <3>4. rows'[Head(queue)].status # "OPEN"
      <4> DEFINE w == Head(queue)
      <4>1. w \in Windows /\ rows[w] \in RowType
        BY <2>1, <3>2, <3>3
      <4>2. ASSUME NEW s \in Ends, NEW o, NEW t, Ended(w, s, o, t)
            PROVE  rows'[w].status # "OPEN"
        <5> DEFINE r == [rows[w] EXCEPT !.status = s, !.outcome = o, !.terminal = t]
        <5>1. r.status = s
          BY <4>1 DEF RowType
        <5>2. rows' = [rows EXCEPT ![w] = r]
          BY <3>3, <4>1, <4>2 DEF Ended, RowType
        <5> HIDE DEF r, w
        <5> QED BY <3>3, <4>1, <5>1, <5>2 DEF Ends
      <4> HIDE DEF w
      <4> QED BY <3>1, <4>2 DEF w, Ends
    <3> QED BY <2>1, <3>2, <3>4 DEF Same
  <2> QED BY <1>10, <2>2, <2>3, <2>4, ResolveRows
<1>11. CASE GiveUp
  <2>1. /\ pc = "giveup" /\ pc' = "mirror" /\ UNCHANGED <<queue, stage, instant, csv, now>>
        /\ Ended(Head(queue), "UNRESOLVED", NONE, NONE) /\ queue # << >>
    BY <1>11 DEF GiveUp, QueueInv, env
  <2>2. EndsRow(Head(queue))
    BY <2>1, EndingRow DEF Ends, Outcomes
  <2> QED BY <1>8, <2>1, <2>2, HeadOf
<1>12. CASE Mirror
  <2>1. /\ pc = "mirror" /\ queue' = Tail(queue) /\ pc' = "settle"
        /\ UNCHANGED <<rows, instant>>
    BY <1>12 DEF Mirror
  <2> QED BY <1>7, <2>1 DEF Same, QueueInv
<1>13. CASE Settled \/ Predict \/ Observe
  <2>1. queue' = << >> /\ pc' \notin {"giveup", "mirror"}
    BY <1>13 DEF Settled, Predict, Observe, Idle, Down, QueueInv
  <2> QED BY <1>2, <2>1
<1>14. CASE Edit \/ Tick \/ UNCHANGED vars
  <2>1. UNCHANGED <<queue, instant, pc, rows>>
    BY <1>14 DEF Edit, Tick, vars, disk
  <2> QED BY <1>6, <2>1 DEF Same, QueueInv
<1> QED BY <1>4, <1>5, <1>9, <1>10, <1>11, <1>12, <1>13, <1>14 DEF Next, Work

\* A due window is over by any later minute.
LEMMA OverLater ==
  ASSUME NEW w \in Windows, NEW s \in Nat, NEW t \in Nat, s <= t, Over(w, s)
  PROVE  Over(w, t)
<1>1. End(w) \in Nat /\ Grace \in Nat
  BY EndsInOrder, Bounds
<1> QED BY <1>1 DEF Over

\* The clock runs on, and what is ended stays so or was due.
LEMMA NextEnds == TypeOK /\ QueueInv /\ EndsInv /\ [Next]_vars => EndsInv'
<1> SUFFICES ASSUME TypeOK, QueueInv, EndsInv, [Next]_vars PROVE EndsInv'
  OBVIOUS
<1>1. now \in Nat /\ instant \in Nat /\ instant <= now
  BY DEF TypeOK
<1>2. now' \in Nat /\ now <= now'
  <2>1. now' = now \/ now' = now + 1
    <3>1. Tick => now' = now + 1
      BY DEF Tick
    <3>2. Boot \/ Scan \/ Interrupt \/ Crash \/ Edit \/ UNCHANGED vars => now' = now
      BY DEF Boot, Scan, Interrupt, Crash, Edit, vars, env
    <3>3. Work => now' = now
      BY DEF Work, Lookup, Resolve, GiveUp, Mirror, Settled, Observe, Predict, env
    <3> QED BY <3>1, <3>2, <3>3 DEF Next
  <2> QED BY <1>1, <2>1
<1>3. ASSUME NEW w \in Windows, HasEnded(w)'
      PROVE  \/ HasEnded(w)
             \/ Over(w, instant) /\ instant' = instant /\ stage' = stage
  <2>1. CASE Same(w)
    BY <1>3, <2>1 DEF Same, HasEnded
  <2>2. CASE EndsRow(w)
    <3>1. w = queue[1] /\ queue # << >> /\ instant' = instant /\ stage' = stage
      BY <2>2 DEF EndsRow
    <3>2. 1 \in DOMAIN queue
      BY <3>1, HeadOf
    <3> QED BY <3>1, <3>2 DEF QueueInv
  <2>3. CASE ObservesRow(w)
    BY <1>3, <2>3 DEF ObservesRow, HasEnded, Ends
  <2>4. Same(w) \/ EndsRow(w) \/ ObservesRow(w)
    BY RowsStep DEF EndsRow, ObservesRow
  <2> QED BY <2>1, <2>2, <2>3, <2>4
<1>4. \A w \in Windows : HasEnded(w)' => Over(w, now)
  <2> SUFFICES ASSUME NEW w \in Windows, HasEnded(w)' PROVE Over(w, now)
    OBVIOUS
  <2>1. CASE HasEnded(w)
    BY <2>1 DEF EndsInv
  <2>2. CASE Over(w, instant)
    BY <1>1, <2>2, OverLater
  <2> QED BY <1>3, <2>1, <2>2
<1>5. \A w \in Windows : HasEnded(w)' => Over(w, now')
  BY <1>1, <1>2, <1>4, OverLater
<1> DEFINE Passing == {"settle", "giveup", "mirror", "observe"}
<1>6. /\ stage' = "scan" /\ pc' \in Passing =>
           \/ instant' = now
           \/ stage = "scan" /\ pc \in Passing /\ instant' = instant
      /\ pc' = "observe" => stage' = "scan"
  <2>1. CASE Boot \/ Interrupt
    BY <2>1 DEF Boot, Interrupt, Settling
  <2>2. CASE Scan
    BY <2>2 DEF Scan, Settling
  <2>3. CASE Crash
    BY <2>3 DEF Crash, Down
  <2>4. CASE Edit \/ Tick \/ UNCHANGED vars
    <3>1. UNCHANGED <<pc, stage, instant>>
      BY <2>4 DEF Edit, Tick, vars
    <3> QED BY <3>1 DEF EndsInv
  <2>5. CASE Lookup
    <3>1. UNCHANGED <<pc, stage, instant>>
      BY <2>5 DEF Lookup
    <3> QED BY <3>1 DEF EndsInv
  <2>6. CASE Resolve \/ GiveUp \/ Mirror
    BY <2>6 DEF Resolve, GiveUp, Mirror
  <2>7. CASE Settled
    BY <2>7 DEF Settled, Idle, Down
  <2>8. CASE Observe \/ Predict
    BY <2>8 DEF Observe, Predict, Idle
  <2> QED BY <2>1, <2>2, <2>3, <2>4, <2>5, <2>6, <2>7, <2>8 DEF Next, Work
<1>7. ASSUME stage' = "scan", pc' \in Passing, NEW w \in Windows, HasEnded(w)'
      PROVE  Over(w, instant')
  <2>1. CASE instant' = now
    BY <1>4, <1>7, <2>1
  <2>2. CASE stage = "scan" /\ pc \in Passing /\ instant' = instant
    <3>1. HasEnded(w) => Over(w, instant)
      BY <2>2 DEF EndsInv
    <3> QED BY <1>3, <1>7, <2>2, <3>1
  <2> QED BY <1>6, <1>7, <2>1, <2>2
<1> QED BY <1>5, <1>6, <1>7 DEF EndsInv, HasEnded, Over

\* A row that ended is not observed again: its window is not the scan's.
LEMMA ObservedIsOpen ==
  ASSUME TypeOK, EndsInv, NEW w \in Windows, ObservesRow(w)
  PROVE  ~HasEnded(w)
<1>1. pc = "observe" /\ stage = "scan" /\ w = Window(instant)
  BY DEF ObservesRow, EndsInv
<1>2. instant \in Nat /\ instant < End(w) /\ End(w) \in Nat /\ Grace \in Nat
  <2>1. instant \in 0 .. Horizon
    BY InstantOf
  <2>2. instant < End(w)
    BY <1>1, <2>1, WindowOf
  <2>3. instant \in Nat
    BY <2>1
  <2> QED BY <2>2, <2>3, EndsInOrder, Bounds
<1>3. ~Over(w, instant)
  BY <1>2 DEF Over
<1> QED BY <1>1, <1>3 DEF EndsInv

\* The copy is appended to once for a contract, after it ended, and what ended
\* keeps its status and outcome.
LEMMA NextCopy ==
  TypeOK /\ QueueInv /\ EndsInv /\ CopyInv /\ MirrorAgrees /\ [Next]_vars
    => CopyInv' /\ MirrorAgrees'
<1> SUFFICES ASSUME TypeOK, QueueInv, EndsInv, CopyInv, MirrorAgrees, [Next]_vars
             PROVE  CopyInv' /\ MirrorAgrees'
  OBVIOUS
<1>1. csv \in Seq(CsvType) /\ DOMAIN csv = 1 .. Len(csv) /\ Len(csv) \in Nat
  BY DEF TypeOK
<1>2. \A i \in DOMAIN csv : /\ csv[i].win \in Windows
                            /\ rows[csv[i].win].status \in Ends
  <2> TAKE i \in DOMAIN csv
  <2>1. csv[i] \in CsvType
    BY <1>1
  <2> QED BY <1>1, <2>1 DEF CsvType, MirrorAgrees
<1>3. ASSUME NEW v \in Windows, rows[v].status \in Ends
      PROVE  rows'[v].status = rows[v].status /\ rows'[v].outcome = rows[v].outcome
  <2>1. CASE Same(v)
    BY <2>1 DEF Same
  <2>2. CASE EndsRow(v)
    BY <1>3, <2>2 DEF EndsRow, Ends
  <2>3. CASE ObservesRow(v)
    <3>1. ~HasEnded(v)
      BY <2>3, ObservedIsOpen
    <3> QED BY <1>3, <3>1 DEF HasEnded
  <2>4. Same(v) \/ EndsRow(v) \/ ObservesRow(v)
    BY RowsStep DEF EndsRow, ObservesRow
  <2> QED BY <2>1, <2>2, <2>3, <2>4
<1>4. ASSUME csv' = csv PROVE MirrorAgrees'
  BY <1>1, <1>2, <1>3, <1>4 DEF MirrorAgrees
<1>5. ASSUME csv' = csv, pc' # "mirror" PROVE CopyInv' /\ MirrorAgrees'
  BY <1>4, <1>5 DEF CopyInv
<1>6. CASE UNCHANGED <<csv, pc, queue>>
  BY <1>4, <1>6 DEF CopyInv
<1>7. ASSUME NEW w \in Windows, EndsRow(w) PROVE CopyInv' /\ MirrorAgrees'
  <2>1. csv' = csv /\ queue' = queue /\ w = queue[1] /\ rows[w].status = "OPEN"
    BY <1>7 DEF EndsRow
  <2>2. \A i \in DOMAIN csv : csv[i].win # w
    BY <1>2, <2>1 DEF Ends
  <2> QED BY <1>4, <2>1, <2>2 DEF CopyInv
<1>8. CASE Mirror
  <2> DEFINE w == Head(queue)
             c == [win |-> w, status |-> rows[w].status, outcome |-> rows[w].outcome]
  <2>1. pc = "mirror" /\ pc' = "settle" /\ rows' = rows
        /\ (csv' = Append(csv, c) \/ csv' = csv)
    BY <1>8 DEF Mirror
  <2>2. w = queue[1] /\ w \in Windows
    BY <2>1, HeadOf DEF QueueInv
  <2>3. \A i \in DOMAIN csv : csv[i].win # w
    BY <2>1, <2>2 DEF CopyInv
  <2>4. CASE csv' = csv
    BY <1>5, <2>1, <2>4
  <2>5. CASE csv' = Append(csv, c)
    <3>1. c.win = w /\ c.status = rows[w].status /\ c.outcome = rows[w].outcome
      OBVIOUS
    <3> HIDE DEF c, w
    <3> DEFINE n == Len(csv) + 1
    <3>2. /\ Len(csv') = n /\ csv'[n] = c
          /\ \A i \in 1 .. n : i = n \/ i \in DOMAIN csv
          /\ \A i \in DOMAIN csv : csv'[i] = csv[i]
      BY <1>1, <2>5
    <3> HIDE DEF n
    <3>3. ASSUME NEW i \in 1 .. n, NEW j \in 1 .. n, csv'[i].win = csv'[j].win
          PROVE  i = j
      BY <1>1, <2>3, <3>1, <3>2, <3>3 DEF MirrorAgrees
    <3>4. ASSUME NEW i \in 1 .. n
          PROVE  /\ csv'[i].status = rows[csv'[i].win].status
                 /\ csv'[i].outcome = rows[csv'[i].win].outcome
      BY <1>1, <3>1, <3>2 DEF MirrorAgrees
    <3>5. MirrorAgrees'
      BY <2>1, <3>2, <3>3, <3>4 DEF MirrorAgrees
    <3> QED BY <2>1, <3>5 DEF CopyInv
  <2> QED BY <2>1, <2>4, <2>5
<1>9. CASE Resolve
  <2>1. CASE EndsRow(Head(queue))
    BY <1>7, <1>9, <2>1, HeadOf DEF Resolve
  <2>2. csv' = csv
    BY <1>9 DEF Resolve
  <2>3. CASE pc' # "mirror"
    BY <1>5, <2>2, <2>3
  <2>4. CASE pc' = "mirror" /\ ~EndsRow(Head(queue))
    <3>1. queue' = queue /\ queue # << >> /\ pc = "settle"
      BY <1>9, <2>4 DEF Resolve
    <3>2. /\ Head(queue) = queue[1] /\ 1 \in DOMAIN queue
          /\ Head(queue) \in Windows
      BY <3>1, HeadOf
    <3>3. rows[queue[1]].status = "OPEN"
      BY <3>1, <3>2 DEF QueueInv
    <3>4. \A i \in DOMAIN csv : csv[i].win # queue[1]
      BY <1>2, <3>3 DEF Ends
    <3> QED BY <1>4, <2>2, <3>1, <3>4 DEF CopyInv
  <2> QED BY <2>1, <2>3, <2>4
<1>10. CASE GiveUp
  <2>1. /\ pc = "giveup" /\ pc' = "mirror" /\ UNCHANGED <<queue, stage, instant, csv, now>>
        /\ Ended(Head(queue), "UNRESOLVED", NONE, NONE) /\ queue # << >>
    BY <1>10 DEF GiveUp, QueueInv, env
  <2>2. EndsRow(Head(queue))
    BY <2>1, EndingRow DEF Ends, Outcomes
  <2> QED BY <1>7, <2>1, <2>2, HeadOf
<1>11. CASE Boot \/ Scan \/ Interrupt \/ Crash
  BY <1>5, <1>11 DEF Boot, Scan, Interrupt, Crash, Settling, Down, disk
<1>12. CASE Settled \/ Observe \/ Predict
  BY <1>5, <1>12 DEF Settled, Observe, Predict, Idle, Down, disk
<1>13. CASE Lookup \/ Edit \/ Tick \/ UNCHANGED vars
  BY <1>6, <1>13 DEF Lookup, Edit, Tick, vars, disk
<1> QED BY <1>8, <1>9, <1>10, <1>11, <1>12, <1>13 DEF Next, Work

\* A settled row keeps its label, and a row its specification.
LEMMA NextLabels ==
  TypeOK /\ QueueInv /\ EndsInv /\ LabelInv /\ SourceInv /\ [Next]_vars
    => LabelInv' /\ SourceInv'
<1> SUFFICES ASSUME TypeOK, QueueInv, EndsInv, LabelInv, SourceInv, [Next]_vars
             PROVE  LabelInv' /\ SourceInv'
  OBVIOUS
<1>1. price' = price
  BY PriceStays
<1>2. ASSUME NEW w \in Windows
      PROVE  /\ rows'[w].status = "RESOLVED" => TrueLabel(w, rows'[w])
             /\ rows'[w] # NoRow => OneSource(w, rows'[w])
  <2>1. rows[w].status = "RESOLVED" => TrueLabel(w, rows[w])
    BY DEF LabelInv
  <2>2. rows[w] # NoRow => OneSource(w, rows[w])
    BY DEF SourceInv
  <2>3. CASE Same(w)
    BY <2>1, <2>2, <2>3 DEF Same, TrueLabel, OneSource
  <2>4. CASE EndsRow(w)
    BY <2>2, <2>4 DEF EndsRow, OneSource
  <2>5. CASE ObservesRow(w)
    <3>1. ~HasEnded(w)
      BY <2>5, ObservedIsOpen
    <3>2. rows'[w].status # "RESOLVED"
      BY <2>5, <3>1 DEF ObservesRow, HasEnded, Ends
    <3> QED BY <2>5, <3>2 DEF ObservesRow
  <2>6. Same(w) \/ EndsRow(w) \/ ObservesRow(w)
    BY RowsStep DEF EndsRow, ObservesRow
  <2> QED BY <2>3, <2>4, <2>5, <2>6
<1> QED BY <1>1, <1>2 DEF LabelInv, SourceInv, TrueLabel, OneSource

IInv == /\ TypeOK /\ QueueInv /\ EndsInv /\ CopyInv /\ MirrorAgrees
        /\ LabelInv /\ SourceInv

\* The whole invariant holds from the empty database on.
LEMMA Invariance == Spec => []IInv
<1>1. Init => IInv
  <2> SUFFICES ASSUME Init PROVE IInv
    OBVIOUS
  <2>1. /\ queue = << >> /\ csv = << >> /\ pc = "down" /\ stage = "boot"
        /\ \A w \in Windows : rows[w] = NoRow
    BY DEF Init
  <2>2. NoRow.status = "ABSENT"
    BY DEF NoRow
  <2>3. DOMAIN queue = {} /\ DOMAIN csv = {} /\ Len(csv) = 0
    BY <2>1
  <2>4. QueueInv /\ CopyInv /\ MirrorAgrees
    BY <2>1, <2>3 DEF QueueInv, CopyInv, MirrorAgrees
  <2>5. EndsInv /\ LabelInv /\ SourceInv
    BY <2>1, <2>2 DEF EndsInv, LabelInv, SourceInv, HasEnded, Ends
  <2> QED BY <2>4, <2>5, InitTypes DEF IInv
<1>2. IInv /\ [Next]_vars => IInv'
  BY NextTypes, NextQueue, NextEnds, NextCopy, NextLabels DEF IInv
<1> QED BY <1>1, <1>2, PTL DEF Spec

-----------------------------------------------------------------------------
\* Every variable keeps its type (recording.py's schema, the engine's state).
THEOREM TypeCorrect == Spec => []TypeOK
<1>1. IInv => TypeOK
  BY DEF IInv
<1> QED BY <1>1, Invariance, PTL

\* A row never mixes two specifications, whatever the user does to the file and
\* whatever the bars are (observe_contract, ContractProviderChain).
THEOREM OneSpec == Spec => []OneSpecification
<1>1. IInv => OneSpecification
  BY DEF IInv, SourceInv, OneSource, OneSpecification, Rowed
<1> QED BY <1>1, Invariance, PTL

\* A label follows from a price seen about the window's end and from the row's
\* own reference and rule, and is of a window that is over (_resolve_one).
THEOREM LabelsTrue == Spec => []LabelsTellTheTruth
<1>1. IInv => LabelsTellTheTruth
  BY DEF IInv, LabelInv, TrueLabel, EndsInv, HasEnded, Ends, Over,
         LabelsTellTheTruth, Rowed
<1> QED BY <1>1, Invariance, PTL

\* The CSV copy repeats no contract and agrees with the database, over crashes
\* and appends that fail (_append_csv).
THEOREM CopyAgrees == Spec => []MirrorAgrees
<1>1. IInv => MirrorAgrees
  BY DEF IInv
<1> QED BY <1>1, Invariance, PTL

-----------------------------------------------------------------------------
(***************************************************************************)
(* The recorder implements ContractLifecycle.                              *)
(***************************************************************************)
StateOf(r) ==
  CASE r.status = "ABSENT"     -> "unseen"
    [] r.status = "OPEN"       -> "open"
    [] r.status = "RESOLVED"   -> "settled"
    [] r.status = "UNRESOLVED" -> "unsettled"

StateBar  == [w \in Windows |-> StateOf(rows[w])]
PassedBar == {w \in Windows : End(w) <= now}

\* A row is absent exactly when it says so.
LEMMA AbsentIsNoRow ==
  ASSUME TypeOK, NEW w \in Windows
  PROVE  /\ rows[w] = NoRow <=> rows[w].status = "ABSENT"
         /\ rows[w].status \in Statuses \cup {"ABSENT"}
<1>1. rows[w] \in RowType \/ rows[w] = NoRow
  BY DEF TypeOK
<1>2. NoRow.status = "ABSENT"
  BY DEF NoRow
<1>3. rows[w] \in RowType => rows[w].status \in Statuses
  BY DEF RowType
<1> QED BY <1>1, <1>2, <1>3 DEF Statuses

\* A minute ends one window or none.
LEMMA ClockStep ==
  ASSUME TypeOK, now' = now + 1
  PROVE  \/ PassedBar' = PassedBar
         \/ \E w \in Windows : w \notin PassedBar /\ PassedBar' = PassedBar \cup {w}
<1>1. now \in Nat /\ \A w \in Windows : w \in Nat /\ End(w) \in Nat
  BY EndsInOrder DEF TypeOK
<1>2. \A w \in Windows : w \in PassedBar' <=> w \in PassedBar \/ End(w) = now + 1
  BY <1>1 DEF PassedBar
<1>3. PassedBar' \subseteq Windows /\ PassedBar \subseteq Windows
  BY DEF PassedBar
<1>4. CASE \E w \in Windows : End(w) = now + 1
  <2>1. PICK w \in Windows : End(w) = now + 1
    BY <1>4
  <2>2. \A v \in Windows : End(v) = now + 1 => v = w
    <3> SUFFICES ASSUME NEW v \in Windows, End(v) = End(w), v # w PROVE FALSE
      BY <2>1
    <3>1. v < w \/ w < v
      BY <1>1
    <3>2. End(v) < End(w) \/ End(w) < End(v)
      BY <1>1, <3>1, EndsInOrder
    <3> QED BY <1>1, <3>2
  <2>3. w \notin PassedBar
    BY <1>1, <2>1 DEF PassedBar
  <2> QED BY <1>2, <1>3, <2>1, <2>2, <2>3
<1>5. CASE ~\E w \in Windows : End(w) = now + 1
  BY <1>2, <1>3, <1>5
<1> QED BY <1>4, <1>5

\* Every step is one of the abstract contract's, or none.
LEMMA LifecycleStep ==
  ASSUME IInv, [Next]_vars
  PROVE  \/ UNCHANGED <<PassedBar, StateBar>>
         \/ \E w \in Windows :
              \/ /\ StateBar[w] = "unseen"
                 /\ StateBar' = [StateBar EXCEPT ![w] = "open"]
                 /\ UNCHANGED PassedBar
              \/ /\ StateBar[w] = "open" /\ w \in PassedBar
                 /\ \E s \in {"settled", "unsettled"} :
                      StateBar' = [StateBar EXCEPT ![w] = s]
                 /\ UNCHANGED PassedBar
              \/ /\ w \notin PassedBar /\ PassedBar' = PassedBar \cup {w}
                 /\ UNCHANGED StateBar
<1>1. TypeOK /\ QueueInv /\ EndsInv
  BY DEF IInv
<1>2. ASSUME \A v \in Windows : Same(v) PROVE StateBar' = StateBar
  <2>1. \A v \in Windows : StateOf(rows'[v]) = StateOf(rows[v])
    BY <1>2 DEF StateOf, Same
  <2> QED BY <2>1 DEF StateBar
<1>3. ASSUME NEW w \in Windows, \A v \in Windows \ {w} : Same(v),
             NEW s, StateOf(rows'[w]) = s
      PROVE  StateBar' = [StateBar EXCEPT ![w] = s]
  <2>1. \A v \in Windows \ {w} : StateOf(rows'[v]) = StateOf(rows[v])
    BY <1>3 DEF StateOf, Same
  <2> QED BY <1>3, <2>1 DEF StateBar
<1>4. ASSUME NEW w \in Windows, EndsRow(w)
      PROVE  /\ StateBar[w] = "open" /\ w \in PassedBar /\ UNCHANGED PassedBar
             /\ \E s \in {"settled", "unsettled"} :
                  StateBar' = [StateBar EXCEPT ![w] = s]
  <2>1. /\ \A v \in Windows \ {w} : Same(v)
        /\ rows[w].status = "OPEN"
        /\ rows'[w].status = "UNRESOLVED" \/ rows'[w].status = "RESOLVED"
        /\ now' = now /\ queue # << >> /\ w = queue[1]
    BY <1>4 DEF EndsRow
  <2>2. StateBar[w] = "open"
    <3>1. StateOf(rows[w]) = "open"
      BY <2>1 DEF StateOf
    <3> QED BY <3>1 DEF StateBar
  <2>3. StateOf(rows'[w]) \in {"settled", "unsettled"}
    BY <2>1 DEF StateOf
  <2>4. w \in PassedBar
    <3>1. 1 \in DOMAIN queue
      BY <1>1, <2>1, HeadOf
    <3>2. Over(w, instant)
      BY <1>1, <2>1, <3>1 DEF QueueInv
    <3>3. instant \in Nat /\ now \in Nat /\ instant <= now
      BY <1>1 DEF TypeOK
    <3>4. End(w) \in Nat /\ Grace \in Nat
      BY EndsInOrder, Bounds
    <3> QED BY <3>2, <3>3, <3>4 DEF Over, PassedBar
  <2>5. UNCHANGED PassedBar
    BY <2>1 DEF PassedBar
  <2> QED BY <1>3, <2>1, <2>2, <2>3, <2>4, <2>5
<1>5. ASSUME NEW w \in Windows, ObservesRow(w)
      PROVE  /\ UNCHANGED PassedBar
             /\ \/ StateBar' = StateBar
                \/ /\ StateBar[w] = "unseen"
                   /\ StateBar' = [StateBar EXCEPT ![w] = "open"]
  <2>1. /\ \A v \in Windows \ {w} : Same(v)
        /\ now' = now
        /\ rows[w] = NoRow => rows'[w].status = "OPEN"
        /\ rows[w] # NoRow => rows'[w].status = rows[w].status
    BY <1>5 DEF ObservesRow
  <2>2. UNCHANGED PassedBar
    BY <2>1 DEF PassedBar
  <2>3. CASE rows[w] = NoRow
    <3>1. StateBar[w] = "unseen"
      BY <2>3 DEF StateBar, StateOf, NoRow
    <3>2. StateOf(rows'[w]) = "open"
      BY <2>1, <2>3 DEF StateOf
    <3> QED BY <1>3, <2>1, <2>2, <3>1, <3>2
  <2>4. CASE rows[w] # NoRow
    <3>1. StateOf(rows'[w]) = StateOf(rows[w])
      BY <2>1, <2>4 DEF StateOf
    <3>2. \A v \in Windows : StateOf(rows'[v]) = StateOf(rows[v])
      BY <2>1, <3>1 DEF StateOf, Same
    <3>3. StateBar' = StateBar
      BY <3>2 DEF StateBar
    <3> QED BY <2>2, <3>3
  <2> QED BY <2>3, <2>4
<1>6. CASE Tick
  <2>1. now' = now + 1 /\ rows' = rows
    BY <1>6 DEF Tick, disk
  <2>2. StateBar' = StateBar
    BY <2>1 DEF StateBar
  <2> QED BY <1>1, <2>1, <2>2, ClockStep
<1>7. CASE ~Tick
  <2>1. now' = now
    <3>1. Boot \/ Scan \/ Interrupt \/ Crash \/ Edit \/ UNCHANGED vars => now' = now
      BY DEF Boot, Scan, Interrupt, Crash, Edit, vars, env
    <3>2. Work => now' = now
      BY DEF Work, Lookup, Resolve, GiveUp, Mirror, Settled, Observe, Predict, env
    <3> QED BY <1>7, <3>1, <3>2 DEF Next
  <2>2. UNCHANGED PassedBar
    BY <2>1 DEF PassedBar
  <2>3. CASE \A v \in Windows : Same(v)
    BY <1>2, <2>2, <2>3
  <2>4. CASE \E w \in Windows : EndsRow(w)
    BY <1>4, <2>4
  <2>5. CASE \E w \in Windows : ObservesRow(w)
    BY <1>5, <2>5
  <2> QED BY <1>1, <2>3, <2>4, <2>5, RowsStep
<1> QED BY <1>6, <1>7

\* A contract that was opened ends once, after its window, and stays as it
\* ended: the recorder implements ContractLifecycle.
THEOREM RecorderKeepsTheLifecycle == Spec => LifecycleSpec
<1>1. Init => Lifecycle!Init
  <2> SUFFICES ASSUME Init PROVE Lifecycle!Init
    OBVIOUS
  <2>1. now = 0 /\ rows = [w \in Windows |-> NoRow] /\ NoRow.status = "ABSENT"
    BY DEF Init, NoRow
  <2>2. \A w \in Windows : ~(End(w) <= 0)
    <3> TAKE w \in Windows
    <3>1. Start(w) \in Nat /\ End(w) = Start(w) + Width
      BY EndsInOrder
    <3> QED BY <3>1, Bounds
  <2>3. {w \in Windows : End(w) <= now} = {}
    BY <2>1, <2>2
  <2>4. \A w \in Windows : rows[w].status = "ABSENT"
    BY <2>1
  <2> QED BY <2>3, <2>4 DEF Lifecycle!Init
<1>2. IInv /\ [Next]_vars => [Lifecycle!Next]_Lifecycle!lvars
  <2> SUFFICES ASSUME IInv, [Next]_vars
               PROVE  [Lifecycle!Next]_Lifecycle!lvars
    OBVIOUS
  <2> QED BY LifecycleStep
        DEF Lifecycle!Next, Lifecycle!lvars, Lifecycle!Open, Lifecycle!End,
            Lifecycle!Pass, StateBar, PassedBar, StateOf
<1> QED BY <1>1, <1>2, Invariance, PTL DEF Spec, LifecycleSpec, Lifecycle!Spec

-----------------------------------------------------------------------------
(***************************************************************************)
(* The entry decision, its economics and the selection (EntryPolicy,       *)
(* Economics, Selection): ladders of refusals, each with one answer.       *)
(***************************************************************************)
\* The answer of a ladder is that of a rung that holds, or the last one.
LEMMA LadderAnswer ==
  ASSUME NEW ladder, DOMAIN ladder \subseteq Nat, NEW otherwise
  PROVE  \/ /\ \A k \in DOMAIN ladder : ~ladder[k].when
            /\ FirstOf(ladder, otherwise) = otherwise
         \/ \E k \in DOMAIN ladder :
              ladder[k].when /\ FirstOf(ladder, otherwise) = ladder[k].answer
<1> DEFINE hits == {k \in DOMAIN ladder : ladder[k].when}
<1>1. FirstOf(ladder, otherwise)
        = IF hits = {} THEN otherwise ELSE ladder[Min(hits)].answer
  BY DEF FirstOf
<1>2. CASE hits = {}
  BY <1>1, <1>2
<1>3. CASE hits # {}
  <2>1. hits \subseteq Nat
    OBVIOUS
  <2>2. Min(hits) \in hits
    BY <2>1, <1>3, MinOf
  <2> QED BY <2>2, <1>1, <1>3
<1> QED BY <1>2, <1>3

\* A ladder ends in its last answer exactly when no rung holds.
LEMMA LadderPasses ==
  ASSUME NEW ladder, DOMAIN ladder \subseteq Nat, NEW otherwise,
         \A k \in DOMAIN ladder : ladder[k].answer # otherwise
  PROVE  FirstOf(ladder, otherwise) = otherwise
           <=> \A k \in DOMAIN ladder : ~ladder[k].when
<1>1. CASE \A k \in DOMAIN ladder : ~ladder[k].when
  BY <1>1, LadderAnswer
<1>2. CASE \E k \in DOMAIN ladder :
             ladder[k].when /\ FirstOf(ladder, otherwise) = ladder[k].answer
  BY <1>2
<1> QED BY <1>1, <1>2, LadderAnswer

\* decide gives no doubt about a scan exactly when none holds.
LEMMA NoDoubt ==
  ASSUME NEW s \in ScanType
  PROVE  Invalid(s) = "OK" <=>
           /\ s.fresh /\ s.reference /\ s.contract /\ s.history /\ s.finite
           /\ s.sec \in 0 .. 900 /\ s.p \in 0 .. 100
           /\ s.lcb \in 0 .. Confidence(s)
<1> DEFINE d == Doubts(s)
<1>1. DOMAIN d = 1 .. 8
  BY DEF Doubts
<1>2. \A k \in 1 .. 8 : d[k].answer # "OK"
  <2>1. /\ d[1].answer # "OK" /\ d[2].answer # "OK" /\ d[3].answer # "OK"
        /\ d[4].answer # "OK" /\ d[5].answer # "OK" /\ d[6].answer # "OK"
        /\ d[7].answer # "OK" /\ d[8].answer # "OK"
    BY DEF Doubts, Rung
  <2>2. 1 .. 8 = {1, 2, 3, 4, 5, 6, 7, 8}
    OBVIOUS
  <2> HIDE DEF d
  <2> QED BY <2>1, <2>2
<1>3. /\ d[1].when <=> ~s.fresh
      /\ d[2].when <=> ~s.reference
      /\ d[3].when <=> ~s.contract
      /\ d[4].when <=> ~s.history
      /\ d[5].when <=> ~s.finite
      /\ d[6].when <=> s.sec \notin 0 .. 900
      /\ d[7].when <=> s.p \notin 0 .. 100 \/ s.lcb \notin 0 .. Confidence(s)
      /\ d[8].when <=> \/ s.frag \notin 0 .. 100 \/ s.dis \notin 0 .. 100
                       \/ s.cross \notin 0 .. 100
  BY DEF Doubts, Rung
<1>4. s.frag \in 0 .. 100 /\ s.dis \in 0 .. 100 /\ s.cross \in 0 .. 100
  BY DEF ScanType
<1>5. Invalid(s) = FirstOf(d, "OK")
  BY DEF Invalid
<1> HIDE DEF d
<1>6. (\A k \in 1 .. 8 : ~d[k].when) <=>
        /\ ~d[1].when /\ ~d[2].when /\ ~d[3].when /\ ~d[4].when
        /\ ~d[5].when /\ ~d[6].when /\ ~d[7].when /\ ~d[8].when
  <2>1. 1 .. 8 = {1, 2, 3, 4, 5, 6, 7, 8}
    OBVIOUS
  <2> QED BY <2>1
<1>7. FirstOf(d, "OK") = "OK" <=> \A k \in DOMAIN d : ~d[k].when
  BY <1>1, <1>2, LadderPasses
<1> QED BY <1>1, <1>3, <1>4, <1>5, <1>6, <1>7

\* What decide's ladder refuses with.
LEMMA RefusalsRefuse ==
  ASSUME NEW s, NEW pol
  PROVE  /\ DOMAIN Refusals(s, pol) = 1 .. 10
         /\ \A k \in 1 .. 10 :
              Refusals(s, pol)[k].answer.decision \in {"WAIT", "NO_TRADE"}
<1> DEFINE d == Refusals(s, pol)
<1>1. DOMAIN d = 1 .. 10
  BY DEF Refusals
<1>2. \A k \in 1 .. 10 : d[k].answer.decision \in {"WAIT", "NO_TRADE"}
  <2>1. /\ d[1].answer.decision = "NO_TRADE" /\ d[2].answer.decision = "NO_TRADE"
        /\ d[3].answer.decision = "WAIT" /\ d[4].answer.decision = "NO_TRADE"
        /\ d[5].answer.decision = "WAIT" /\ d[6].answer.decision = "WAIT"
        /\ d[7].answer.decision = "WAIT" /\ d[8].answer.decision = "WAIT"
        /\ d[9].answer.decision = "WAIT" /\ d[10].answer.decision = "WAIT"
    BY DEF Refusals, Rung, Refuse
  <2> HIDE DEF d
  <2>2. 1 .. 10 = {1, 2, 3, 4, 5, 6, 7, 8, 9, 10}
    OBVIOUS
  <2> QED BY <2>1, <2>2
<1> QED BY <1>1, <1>2

\* decide always comes to one of its decisions.
LEMMA DecideAnswers ==
  ASSUME NEW s, NEW pol
  PROVE  Decide(s, pol).decision
           \in {"DATA_HOLD", "NO_TRADE", "WAIT", "ENTER_YES", "ENTER_NO"}
<1> DEFINE d == Refusals(s, pol)
           e == Refuse(IF Side(s) = "YES" THEN "ENTER_YES" ELSE "ENTER_NO",
                       "ELIGIBLE")
<1>1. CASE Invalid(s) # "OK"
  BY <1>1 DEF Decide, Refuse
<1>2. CASE Invalid(s) = "OK"
  <2>1. Decide(s, pol) = FirstOf(d, e)
    BY <1>2 DEF Decide
  <2>2. e.decision \in {"ENTER_YES", "ENTER_NO"}
    BY DEF Refuse
  <2>3. DOMAIN d = 1 .. 10
    BY RefusalsRefuse
  <2>5. \A k \in 1 .. 10 : d[k].answer.decision \in {"WAIT", "NO_TRADE"}
    BY RefusalsRefuse
  <2> HIDE DEF d, e
  <2>4. \/ FirstOf(d, e) = e
        \/ \E k \in DOMAIN d : d[k].when /\ FirstOf(d, e) = d[k].answer
    BY <2>3, LadderAnswer
  <2> QED BY <2>1, <2>2, <2>3, <2>4, <2>5
<1> QED BY <1>1, <1>2

\* decide enters exactly when it has no doubt and refuses nothing.
LEMMA NoRefusal ==
  ASSUME NEW s \in ScanType, NEW pol \in PolicyType
  PROVE  Enters(s, pol) <=>
           /\ Invalid(s) = "OK"
           /\ s.sec > pol.noTrade /\ AtMost(s.crossings, pol.maxCrossings)
           /\ s.sec <= pol.maxSec
           /\ pol.earlyWait > 0 => s.sec <= pol.earlyWait
           /\ s.sec >= pol.minSec /\ Confidence(s) >= pol.threshold
           /\ AtLeast(s.lcb, pol.lcb) /\ Distance(s.z) >= pol.minZ
           /\ AtMost(s.frag, pol.maxFrag) /\ AtMost(s.dis, pol.maxDis)
           /\ AtMost(s.cross, pol.maxCross)
<1> DEFINE d == Refusals(s, pol)
           e == Refuse(IF Side(s) = "YES" THEN "ENTER_YES" ELSE "ENTER_NO",
                       "ELIGIBLE")
<1>1. DOMAIN d = 1 .. 10
  BY DEF Refusals
<1>2. \A k \in 1 .. 10 : d[k].answer.decision \in {"WAIT", "NO_TRADE"}
  BY RefusalsRefuse
<1>3. /\ d[1].when <=> s.sec <= pol.noTrade
      /\ d[2].when <=> ~AtMost(s.crossings, pol.maxCrossings)
      /\ d[3].when <=> s.sec > pol.maxSec \/ (pol.earlyWait > 0 /\ s.sec > pol.earlyWait)
      /\ d[4].when <=> s.sec < pol.minSec
      /\ d[5].when <=> Confidence(s) < pol.threshold
      /\ d[6].when <=> ~AtLeast(s.lcb, pol.lcb)
      /\ d[7].when <=> Distance(s.z) < pol.minZ
      /\ d[8].when <=> ~AtMost(s.frag, pol.maxFrag)
      /\ d[9].when <=> ~AtMost(s.dis, pol.maxDis)
      /\ d[10].when <=> ~AtMost(s.cross, pol.maxCross)
  BY DEF Refusals, Rung
<1>4. /\ s.sec \in Int /\ Confidence(s) \in Int /\ Distance(s.z) \in Int
      /\ pol.noTrade \in Int /\ pol.maxSec \in Int /\ pol.earlyWait \in Int
      /\ pol.minSec \in Int /\ pol.threshold \in Int /\ pol.minZ \in Int
  BY DEF ScanType, PolicyType, Confidence, Distance
<1>5. e.decision \in {"ENTER_YES", "ENTER_NO"}
  BY DEF Refuse
<1>6. Enters(s, pol) <=>
        Invalid(s) = "OK" /\ FirstOf(d, e).decision \in {"ENTER_YES", "ENTER_NO"}
  BY DEF Enters, Decide, Refuse
<1> HIDE DEF d, e
<1>7. (\A k \in 1 .. 10 : ~d[k].when) <=>
        /\ ~d[1].when /\ ~d[2].when /\ ~d[3].when /\ ~d[4].when
        /\ ~d[5].when /\ ~d[6].when /\ ~d[7].when /\ ~d[8].when
        /\ ~d[9].when /\ ~d[10].when
  <2>1. 1 .. 10 = {1, 2, 3, 4, 5, 6, 7, 8, 9, 10}
    OBVIOUS
  <2> QED BY <2>1
<1>8. \A k \in 1 .. 10 : d[k].answer.decision \notin {"ENTER_YES", "ENTER_NO"}
  BY <1>2
<1>9. \A k \in 1 .. 10 : d[k].answer # e
  BY <1>8, <1>5
<1>10. FirstOf(d, e) = e <=> \A k \in DOMAIN d : ~d[k].when
  BY <1>1, <1>9, LadderPasses
<1>11. FirstOf(d, e).decision \in {"ENTER_YES", "ENTER_NO"} <=> FirstOf(d, e) = e
  <2>1. CASE FirstOf(d, e) = e
    BY <2>1, <1>5
  <2>2. CASE \E k \in DOMAIN d : FirstOf(d, e) = d[k].answer
    BY <2>2, <1>1, <1>8, <1>9
  <2>3. \/ FirstOf(d, e) = e
        \/ \E k \in DOMAIN d : d[k].when /\ FirstOf(d, e) = d[k].answer
    BY <1>1, LadderAnswer
  <2> QED BY <2>1, <2>2, <2>3
<1>12. /\ ~(s.sec <= pol.noTrade) <=> s.sec > pol.noTrade
       /\ ~(s.sec > pol.maxSec) <=> s.sec <= pol.maxSec
       /\ ~(pol.earlyWait > 0 /\ s.sec > pol.earlyWait)
            <=> (pol.earlyWait > 0 => s.sec <= pol.earlyWait)
       /\ ~(s.sec < pol.minSec) <=> s.sec >= pol.minSec
       /\ ~(Confidence(s) < pol.threshold) <=> Confidence(s) >= pol.threshold
       /\ ~(Distance(s.z) < pol.minZ) <=> Distance(s.z) >= pol.minZ
  BY <1>4
<1> QED BY <1>1, <1>3, <1>6, <1>7, <1>10, <1>11, <1>12

\* The vectorised conditions and decide agree on every scan.
LEMMA EligibleIsEntered ==
  ASSUME NEW s \in ScanType, NEW pol \in PolicyType
  PROVE  Eligible(s, pol) <=> Enters(s, pol)
<1>1. s.p \in Int /\ s.lcb \in Int /\ Confidence(s) \in Int
  BY DEF ScanType, Confidence
<1>2. s.p \in 0 .. 100 => Confidence(s) \in 0 .. 100
  BY <1>1 DEF Confidence
<1>3. s.p \in 0 .. 100 =>
        (s.lcb \in 0 .. Confidence(s)
           <=> s.lcb \in 0 .. 100 /\ s.lcb <= Confidence(s))
  BY <1>1, <1>2
<1> QED BY <1>3, NoDoubt, NoRefusal DEF Eligible

-----------------------------------------------------------------------------
\* The engine's entry is the first scan that enters.
EntryInv ==
  /\ policy \in Policies /\ scans \in Seq(Scans) /\ entry \in Nat \cup {None}
  /\ entry # None =>
       /\ entry \in DOMAIN scans /\ Enters(scans[entry], policy)
       /\ \A i \in 1 .. entry - 1 : ~Enters(scans[i], policy)
  /\ entry = None => \A i \in DOMAIN scans : ~Enters(scans[i], policy)

\* A scan that enters is recorded only if none before it did.
LEMMA ProcessKeeps ==
  ASSUME EntryInv, NEW s \in Scans, Process(s)
  PROVE  EntryInv'
<1> DEFINE n == Len(scans)
<1>1. scans \in Seq(Scans) /\ scans' = Append(scans, s) /\ policy' = policy
      /\ n \in Nat
  BY DEF EntryInv, Process
<1>2. scans' \in Seq(Scans) /\ DOMAIN scans' = DOMAIN scans \cup {n + 1}
      /\ DOMAIN scans = 1 .. n /\ scans'[n + 1] = s /\ Len(scans') = n + 1
      /\ \A i \in DOMAIN scans : scans'[i] = scans[i]
  BY <1>1
<1>3. entry' = IF entry = None /\ Enters(s, policy) THEN n + 1 ELSE entry
  BY <1>2 DEF Process
<1>4. None \notin Nat
  BY ScansAssumption
<1> HIDE DEF n
<1>5. CASE entry = None /\ Enters(s, policy)
  <2>1. entry' = n + 1 /\ entry' # None
    BY <1>1, <1>3, <1>4, <1>5
  <2>2. Enters(scans'[entry'], policy')
    BY <1>1, <1>2, <1>5, <2>1
  <2>3. \A i \in 1 .. entry' - 1 : i \in DOMAIN scans
    BY <2>1, <1>1, <1>2
  <2>4. \A i \in 1 .. entry' - 1 : ~Enters(scans'[i], policy')
    BY <2>3, <1>1, <1>2, <1>5 DEF EntryInv
  <2> QED BY <1>1, <1>2, <2>1, <2>2, <2>4 DEF EntryInv
<1>6. CASE entry = None /\ ~Enters(s, policy)
  BY <1>1, <1>2, <1>3, <1>6 DEF EntryInv
<1>7. CASE entry # None
  <2>1. entry' = entry /\ entry \in 1 .. n
    BY <1>2, <1>3, <1>7 DEF EntryInv
  <2>2. \A i \in 1 .. entry - 1 : i \in DOMAIN scans
    BY <2>1, <1>1, <1>2
  <2> QED BY <1>1, <1>2, <1>7, <2>1, <2>2 DEF EntryInv
<1> QED BY <1>5, <1>6, <1>7

\* The bucket of a positive time begins below it.
LEMMA BucketBelow ==
  ASSUME NEW sec \in Int, sec > 0
  PROVE  Bucket(sec) \in Nat /\ Bucket(sec) < sec
<1> DEFINE I == {0} \cup {low \in {30, 60, 120, 180, 300, 450, 600} : low < sec}
<1>1. I \subseteq 0 .. 600 /\ I # {}
  OBVIOUS
<1>2. Max(I) \in I
  BY <1>1, MaxOf
<1> QED BY <1>1, <1>2 DEF Bucket

\* The replay enters the engine's scan.
LEMMA ReplayIsEntry ==
  ASSUME EntryInv
  PROVE  ReplayAgreesWithEngine
<1> SUFFICES ASSUME scans # <<>>
             PROVE  LET r == Replay(scans, policy)
                    IN  /\ r.verdict # "error"
                        /\ r.entered <=> entry # None
                        /\ r.entered => r.index = entry
                        /\ r.entered => r.bucket < policy.maxSec
  BY DEF ReplayAgreesWithEngine
<1>1. scans \in Seq(ScanType) /\ policy \in PolicyType
  BY ScansAssumption DEF EntryInv
<1>2. \A i \in DOMAIN scans : scans[i] \in ScanType
  BY <1>1
<1>3. \A i \in DOMAIN scans : Eligible(scans[i], policy) <=> Enters(scans[i], policy)
  BY <1>1, <1>2, EligibleIsEntered
<1> DEFINE eligible == {i \in DOMAIN scans : Eligible(scans[i], policy)}
           chosen   == IF eligible # {} THEN Min(eligible) ELSE Len(scans)
           verdict  == IF eligible # {} /\ ~Enters(scans[chosen], policy)
                         THEN "error" ELSE Decide(scans[chosen], policy).decision
<1>4. Replay(scans, policy)
        = [index |-> chosen, entered |-> eligible # {}, verdict |-> verdict,
           bucket |-> Bucket(scans[chosen].sec)]
  BY DEF Replay
<1>5. eligible # {} <=> entry # None
  BY <1>3 DEF EntryInv
<1>6. ASSUME eligible # {}
      PROVE  chosen = entry /\ chosen \in DOMAIN scans /\ Enters(scans[chosen], policy)
  <2>1. eligible \subseteq Nat /\ Min(eligible) \in eligible
        /\ \A i \in eligible : Min(eligible) <= i
    <3>1. eligible \subseteq Nat
      BY <1>1
    <3> QED BY <3>1, <1>6, MinOf
  <2>2. entry \in eligible /\ entry \in Nat
        /\ \A i \in 1 .. entry - 1 : i \notin eligible
    BY <1>1, <1>3, <1>5, <1>6 DEF EntryInv
  <2>3. chosen = Min(eligible) /\ chosen \in DOMAIN scans
    BY <2>1, <1>6
  <2>4. Enters(scans[chosen], policy)
    BY <2>1, <2>3, <1>3
  <2>5. chosen <= entry /\ chosen \in eligible /\ chosen \in Nat /\ chosen >= 1
    BY <2>1, <2>2, <2>3, <1>1
  <2> HIDE DEF eligible, chosen
  <2>6. ~(chosen \in 1 .. entry - 1)
    BY <2>2, <2>5
  <2>7. chosen = entry
    BY <2>2, <2>5, <2>6
  <2> QED BY <2>3, <2>4, <2>7
<1>7. ASSUME eligible # {}
      PROVE  Bucket(scans[chosen].sec) < policy.maxSec
  <2>1. scans[chosen] \in ScanType /\ Enters(scans[chosen], policy)
    BY <1>2, <1>6, <1>7
  <2> HIDE DEF chosen
  <2>2. /\ scans[chosen].sec \in Int /\ policy.noTrade \in Nat /\ policy.maxSec \in Nat
        /\ scans[chosen].sec > policy.noTrade /\ scans[chosen].sec <= policy.maxSec
    BY <1>1, <2>1, NoRefusal DEF ScanType, PolicyType
  <2>3. scans[chosen].sec > 0
    BY <2>2
  <2>4. Bucket(scans[chosen].sec) < scans[chosen].sec
        /\ Bucket(scans[chosen].sec) \in Nat
    BY <2>2, <2>3, BucketBelow
  <2> QED BY <2>2, <2>4
<1>8. verdict # "error"
  <2>1. Decide(scans[chosen], policy).decision # "error"
    BY DecideAnswers
  <2> QED BY <2>1, <1>6
<1> DEFINE r == Replay(scans, policy)
<1> HIDE DEF eligible, chosen, verdict
<1>9. r.index = chosen /\ r.verdict = verdict /\ r.bucket = Bucket(scans[chosen].sec)
  BY <1>4
<1>10. r.entered <=> eligible # {}
  BY DEF Replay, r, eligible
<1> HIDE DEF r
<1>11. r.entered => r.index = entry /\ r.bucket < policy.maxSec
  BY <1>6, <1>7, <1>9, <1>10
<1>12. r.verdict # "error" /\ (r.entered <=> entry # None)
  BY <1>5, <1>8, <1>9, <1>10
<1> QED BY <1>11, <1>12 DEF r
-----------------------------------------------------------------------------
AssetSet == {Assets[i] : i \in DOMAIN Assets}

\* Each snapshot is of a scan and a quote that may be.
SnapInv ==
  /\ policy \in PolicyType /\ DOMAIN snapshots = AssetSet
  /\ \A a \in AssetSet :
       \/ snapshots[a] = None
       \/ \E s \in ScanType : \E q \in QuoteType \cup {None} :
            snapshots[a] = Snapshot(s, q, policy)

\* The four refusals of decide_with_economics, if it comes to them.
LEMMA EconomicsEnter ==
  ASSUME NEW s, NEW pol, NEW offered,
         DecideWithEconomics(s, pol, offered).decision \in {"ENTER_YES", "ENTER_NO"}
  PROVE  LET a == Assess(offered, Side(s), Confidence(s), s.lcb)
         IN  /\ Enters(s, pol) /\ offered # None
             /\ ~(a.status = "INVALID")
             /\ ~(a.point < MinModelEdge \/ a.lcb < MinLcbEdge)
<1> DEFINE a == Assess(offered, Side(s), Confidence(s), s.lcb)
           d == <<Rung(a.status = "INVALID",
                       Refuse("DATA_HOLD", "INVALID_OR_STALE_QUOTE")),
                  Rung(a.point <= 0, Refuse("NO_TRADE", "NEGATIVE_EV")),
                  Rung(a.lcb <= 0, Refuse("WAIT", "NON_ROBUST_EV")),
                  Rung(a.point < MinModelEdge \/ a.lcb < MinLcbEdge,
                       Refuse("WAIT", "EDGE_TOO_SMALL"))>>
           e == [Decide(s, pol) EXCEPT !.reason = "ROBUST_POSITIVE_EV"]
           r == DecideWithEconomics(s, pol, offered)
<1>1. Enters(s, pol)
  BY DEF DecideWithEconomics, Enters
<1>2. offered # None
  BY <1>1 DEF DecideWithEconomics, Refuse
<1>3. r = FirstOf(d, e)
  BY <1>1, <1>2 DEF DecideWithEconomics
<1>4. DOMAIN d = 1 .. 4
  OBVIOUS
<1>5. /\ d[1].answer.decision = "DATA_HOLD" /\ d[2].answer.decision = "NO_TRADE"
      /\ d[3].answer.decision = "WAIT" /\ d[4].answer.decision = "WAIT"
  BY DEF Rung, Refuse
<1>6. /\ d[1].when <=> a.status = "INVALID"
      /\ d[4].when <=> a.point < MinModelEdge \/ a.lcb < MinLcbEdge
  BY DEF Rung
<1> HIDE DEF d, e, a
<1>7. \/ FirstOf(d, e) = e
      \/ \E k \in DOMAIN d : d[k].when /\ FirstOf(d, e) = d[k].answer
  BY <1>4, LadderAnswer
<1>8. \A k \in 1 .. 4 : FirstOf(d, e) # d[k].answer
  <2>1. 1 .. 4 = {1, 2, 3, 4}
    OBVIOUS
  <2> QED BY <1>3, <1>5, <2>1
<1>9. FirstOf(d, e) = e
  BY <1>4, <1>7, <1>8
<1>10. \A k \in 1 .. 4 : ~d[k].when
  <2>1. \A k \in 1 .. 4 : d[k].answer # e
    BY <1>8, <1>9
  <2> QED BY <1>4, <1>9, <2>1, LadderPasses
<1>11. /\ Enters(s, pol) /\ offered # None
       /\ ~(a.status = "INVALID")
       /\ ~(a.point < MinModelEdge \/ a.lcb < MinLcbEdge)
  BY <1>1, <1>2, <1>6, <1>10
<1> QED BY <1>11 DEF a

\* What evaluate calls actionable has passed every one of its refusals.
LEMMA ActionablePasses ==
  ASSUME NEW snap, Evaluate(snap).status = "ACTIONABLE"
  PROVE  LET c == Evaluate(snap)
         IN  /\ snap # None /\ snap.entered /\ snap.ask # None
             /\ c = Rated("ACTIONABLE", "ROBUST_POSITIVE_EV", snap)
             /\ ~(c.net <= 0) /\ ~(c.conservative <= 0)
             /\ snap.final.decision \in {"ENTER_YES", "ENTER_NO"}
<1> DEFINE c == Rated("ACTIONABLE", "ROBUST_POSITIVE_EV", snap)
           d == <<Rung(c.net <= 0, Rated("EV_FAIL", "NEGATIVE_NET_EV", snap)),
                  Rung(c.conservative <= 0,
                       Rated("EV_FAIL", "CONSERVATIVE_EV_LE_ZERO", snap)),
                  Rung(snap.final.decision \notin {"ENTER_YES", "ENTER_NO"},
                       Rated("ECONOMICS_UNVERIFIED", snap.final.reason, snap))>>
<1>1. snap # None
  BY DEF Evaluate, Unrated
<1>2. snap.entered
  BY <1>1 DEF Evaluate, Unrated
<1>3. snap.ask # None
  BY <1>1, <1>2 DEF Evaluate, Unrated
<1>4. ~(snap.ask + ScheduleFee >= Payout)
  BY <1>1, <1>2, <1>3 DEF Evaluate, Unrated
<1>5. Evaluate(snap) = FirstOf(d, c)
  BY <1>1, <1>2, <1>3, <1>4 DEF Evaluate
<1>6. DOMAIN d = 1 .. 3
  OBVIOUS
<1>7. /\ d[1].answer.status = "EV_FAIL" /\ d[2].answer.status = "EV_FAIL"
      /\ d[3].answer.status = "ECONOMICS_UNVERIFIED"
  BY DEF Rung, Rated
<1>8. /\ d[1].when <=> c.net <= 0
      /\ d[2].when <=> c.conservative <= 0
      /\ d[3].when <=> snap.final.decision \notin {"ENTER_YES", "ENTER_NO"}
  BY DEF Rung
<1> HIDE DEF d, c
<1>9. \/ FirstOf(d, c) = c
      \/ \E k \in DOMAIN d : d[k].when /\ FirstOf(d, c) = d[k].answer
  BY <1>6, LadderAnswer
<1>10. \A k \in 1 .. 3 : FirstOf(d, c) # d[k].answer
  <2>1. 1 .. 3 = {1, 2, 3}
    OBVIOUS
  <2> QED BY <1>5, <1>7, <2>1
<1>11. Evaluate(snap) = c
  BY <1>5, <1>6, <1>9, <1>10
<1>12. \A k \in 1 .. 3 : ~d[k].when
  <2>1. FirstOf(d, c) = c
    BY <1>5, <1>11
  <2>2. \A k \in DOMAIN d : d[k].answer # c
    BY <1>6, <1>10, <2>1
  <2> QED BY <1>6, <2>1, <2>2, LadderPasses
<1>13. /\ ~(c.net <= 0) /\ ~(c.conservative <= 0)
       /\ snap.final.decision \in {"ENTER_YES", "ENTER_NO"}
  BY <1>8, <1>12
<1>14. c = Rated("ACTIONABLE", "ROBUST_POSITIVE_EV", snap)
  BY DEF c
<1> QED BY <1>1, <1>2, <1>3, <1>11, <1>13, <1>14

\* An actionable candidate of a real scan and quote is sound on every count.
LEMMA ActionableIsSound ==
  ASSUME NEW s \in ScanType, NEW q \in QuoteType \cup {None}, NEW pol \in PolicyType,
         Evaluate(Snapshot(s, q, pol)).status = "ACTIONABLE"
  PROVE  LET c == Evaluate(Snapshot(s, q, pol))
             o == c.snap.quote
             paid == Ask(o, Side(s)) + (IF o.feeKnown THEN o.fee ELSE 0)
         IN  /\ c.snap.scan = s /\ s.fresh /\ s.sec \in 1 .. pol.maxSec
             /\ s.lcb <= Confidence(s)
             /\ o.age \in 0 .. 15 /\ ~o.expired /\ ~o.otherContract
             /\ s.lcb - paid >= 2 /\ Confidence(s) - paid >= 5
             /\ s.lcb > Ask(o, Side(s)) + 2
             /\ EconomicallyValid(c)
             /\ c.conservative \in Int /\ c.net \in Int
<1> DEFINE snap == Snapshot(s, q, pol)
           c == Evaluate(snap)
           o == Offered(q)
           a == Assess(o, Side(s), Confidence(s), s.lcb)
           ask == Ask(o, Side(s))
           costs == IF o.feeKnown THEN o.fee ELSE 0
<1>1. /\ snap.entered /\ snap.ask # None
      /\ c = Rated("ACTIONABLE", "ROBUST_POSITIVE_EV", snap)
      /\ ~(c.net <= 0) /\ ~(c.conservative <= 0)
      /\ snap.final.decision \in {"ENTER_YES", "ENTER_NO"}
  BY ActionablePasses
<1>2. /\ snap.scan = s /\ snap.quote = o
      /\ snap.final = DecideWithEconomics(s, pol, o)
      /\ snap.ask = IF o = None THEN None ELSE ask
      /\ snap.provider = LastProvider(q)
  BY DEF Snapshot
<1>3. /\ c.snap = snap /\ c.status = "ACTIONABLE"
      /\ c.net = Confidence(snap.scan) - snap.ask - ScheduleFee
      /\ c.conservative = snap.scan.lcb - snap.ask - ScheduleFee
  BY <1>1 DEF Rated
<1> HIDE DEF snap, c
<1>4. o # None /\ snap.ask = ask /\ snap.provider = "verified-manual"
  BY <1>1, <1>2 DEF LastProvider
<1>5. /\ Enters(s, pol) /\ ~(a.status = "INVALID")
      /\ ~(a.point < MinModelEdge \/ a.lcb < MinLcbEdge)
  BY <1>1, <1>2, EconomicsEnter
<1>6. /\ s.fresh /\ s.sec \in Int /\ s.sec > pol.noTrade /\ s.sec <= pol.maxSec
      /\ s.lcb \in 0 .. Confidence(s)
  BY <1>5, NoDoubt, NoRefusal DEF ScanType
<1>7. pol.noTrade \in Nat /\ pol.maxSec \in Nat
  BY DEF PolicyType
<1>8. s.sec \in 1 .. pol.maxSec
  BY <1>6, <1>7
<1>9. Confidence(s) \in Int /\ s.lcb \in Int /\ s.lcb <= Confidence(s)
  BY <1>6 DEF ScanType, Confidence
<1>10. q \in QuoteType /\ q # None
  BY <1>4 DEF Offered
<1>11. o \in QuoteType /\ o.fee \in Nat
  <2>1. q.parses /\ q.verified
    BY <1>4 DEF Offered
  <2>2. CASE q.fee = None
    <3>1. o = [q EXCEPT !.fee = ScheduleFee, !.feeKnown = TRUE]
      BY <1>10, <2>1, <2>2 DEF Offered
    <3>2. ScheduleFee \in Nat /\ ScheduleFee \in Limit
      BY DEF ScheduleFee, Limit
    <3>3. o \in QuoteType
      BY <1>10, <3>1, <3>2 DEF QuoteType
    <3>4. o.fee = ScheduleFee
      BY <1>10, <3>1 DEF QuoteType
    <3> QED BY <3>2, <3>3, <3>4
  <2>3. CASE q.fee # None
    <3>1. o = [q EXCEPT !.fee = q.fee, !.feeKnown = q.feeKnown]
      BY <1>10, <2>1, <2>3 DEF Offered
    <3> QED BY <1>10, <2>3, <3>1 DEF QuoteType, Limit
  <2> QED BY <2>2, <2>3
<1>12. ask \in Int /\ costs \in Int
  BY <1>11 DEF Ask, QuoteType
<1>13. ~QuoteErrors(o) /\ a.point = Confidence(s) - ask - costs
       /\ a.lcb = s.lcb - ask - costs
  BY <1>5 DEF Assess
<1>14. o.age \in 0 .. 15 /\ ~o.expired /\ ~o.otherContract
  BY <1>13 DEF QuoteErrors, MaxQuoteAge
<1> HIDE DEF a, o, ask, costs
<1>15. s.lcb - (ask + costs) >= 2 /\ Confidence(s) - (ask + costs) >= 5
  BY <1>5, <1>9, <1>12, <1>13 DEF MinModelEdge, MinLcbEdge
<1>16. /\ c.net = Confidence(s) - ask - 2 /\ c.conservative = s.lcb - ask - 2
       /\ c.net \in Int /\ c.conservative \in Int
  BY <1>2, <1>3, <1>4, <1>9, <1>12 DEF ScheduleFee
<1>17. c.net > 0 /\ c.conservative > 0 /\ s.lcb > ask + 2
  BY <1>1, <1>9, <1>12, <1>16
<1>18. EconomicallyValid(c)
  BY <1>1, <1>3, <1>4, <1>17 DEF EconomicallyValid, QuoteVerified
<1> QED BY <1>2, <1>3, <1>6, <1>8, <1>9, <1>14, <1>15, <1>16, <1>17, <1>18
        DEF ask, costs, c, snap
-----------------------------------------------------------------------------
Ranks == [1 .. 8 -> Int]

\* The order of the ranks.
LEMMA BelowIsAnOrder ==
  ASSUME NEW r1 \in Ranks, NEW r2 \in Ranks, NEW r3 \in Ranks
  PROVE  ~Below(r1, r1) /\ (Below(r1, r2) /\ Below(r2, r3) => Below(r1, r3))
<1>1. \A k \in 1 .. 8 : r1[k] \in Int /\ r2[k] \in Int /\ r3[k] \in Int
  BY DEF Ranks
<1>2. DOMAIN r1 = 1 .. 8 /\ DOMAIN r2 = 1 .. 8
  BY DEF Ranks
<1>3. ~Below(r1, r1)
  BY <1>1, <1>2 DEF Below
<1>4. ASSUME Below(r1, r2), Below(r2, r3) PROVE Below(r1, r3)
  <2>1. PICK k \in 1 .. 8 : r1[k] < r2[k] /\ \A j \in 1 .. k - 1 : r1[j] = r2[j]
    BY <1>2, <1>4 DEF Below
  <2>2. PICK m \in 1 .. 8 : r2[m] < r3[m] /\ \A j \in 1 .. m - 1 : r2[j] = r3[j]
    BY <1>2, <1>4 DEF Below
  <2>3. CASE k <= m
    <3>1. r1[k] < r3[k]
      <4>1. CASE k = m
        BY <4>1, <2>1, <2>2, <1>1
      <4>2. CASE k < m
        <5>1. k \in 1 .. m - 1
          BY <4>2
        <5> QED BY <5>1, <2>1, <2>2, <1>1
      <4> QED BY <2>3, <4>1, <4>2
    <3>2. \A j \in 1 .. k - 1 : r1[j] = r3[j]
      <4> SUFFICES ASSUME NEW j \in 1 .. k - 1 PROVE r1[j] = r3[j]
        OBVIOUS
      <4>1. j \in 1 .. m - 1
        BY <2>3
      <4> QED BY <4>1, <2>1, <2>2
    <3> QED BY <3>1, <3>2, <1>2 DEF Below
  <2>4. CASE m < k
    <3>1. m \in 1 .. k - 1
      BY <2>4
    <3>2. r1[m] < r3[m]
      BY <3>1, <2>1, <2>2, <1>1
    <3>3. \A j \in 1 .. m - 1 : r1[j] = r3[j]
      <4> SUFFICES ASSUME NEW j \in 1 .. m - 1 PROVE r1[j] = r3[j]
        OBVIOUS
      <4>1. j \in 1 .. k - 1
        BY <2>4
      <4> QED BY <4>1, <2>1, <2>2
    <3> QED BY <3>2, <3>3, <1>2 DEF Below
  <2> QED BY <2>3, <2>4
<1> QED BY <1>3, <1>4

\* Of candidates there is one that none is above: the least number of them
\* without one would have a number before it without one.
LEMMA BestExists ==
  ASSUME NEW n \in Nat, NEW I, I \subseteq 1 .. n, I # {}, NEW f \in [I -> Ranks]
  PROVE  \E k \in I : \A j \in I : ~Below(f[k], f[j])
<1> DEFINE First(m) == {j \in I : j <= m}
           Topped(m) == First(m) # {} /\ \A k \in First(m) :
                          \E j \in First(m) : Below(f[k], f[j])
           Lost == {m \in Nat : Topped(m)}
<1>1. \A j \in I : j \in Nat /\ 1 <= j /\ j <= n
  OBVIOUS
<1>2. First(0) = {} /\ First(n) = I
  <2>1. \A j \in I : ~(j <= 0)
    BY <1>1
  <2>2. \A j \in I : j <= n
    BY <1>1
  <2> QED BY <2>1, <2>2
<1>3. ASSUME NEW m \in Nat, m # 0
      PROVE  /\ m - 1 \in Nat /\ m - 1 < m /\ m \notin First(m - 1)
             /\ First(m) = IF m \in I THEN First(m - 1) \cup {m} ELSE First(m - 1)
  <2>1. ASSUME NEW j \in I PROVE j <= m <=> (j = m \/ j <= m - 1)
    <3>1. j \in Nat
      BY <1>1
    <3> QED BY <3>1
  <2>2. m - 1 \in Nat /\ m - 1 < m /\ ~(m <= m - 1)
    BY <1>3
  <2> QED BY <2>1, <2>2
<1>4. \A m : \A j \in First(m) : f[j] \in Ranks
  OBVIOUS
<1> HIDE DEF First
<1>5. ASSUME Lost # {} PROVE FALSE
  <2>1. PICK m \in Lost : \A j \in Lost : m <= j
    <3>1. Lost \subseteq Nat
      OBVIOUS
    <3> QED BY <1>5, <3>1, LeastNumber
  <2>2. m \in Nat /\ Topped(m)
    OBVIOUS
  <2>3. m # 0
    BY <1>2, <2>2
  <2>4. m - 1 \in Nat /\ m - 1 < m
    BY <1>3, <2>2, <2>3
  <2>5. ~Topped(m - 1)
    <3>1. m - 1 \notin Lost
      BY <2>1, <2>2, <2>4
    <3> QED BY <2>4, <3>1
  <2>6. CASE m \notin I
    <3>1. First(m) = First(m - 1)
      BY <1>3, <2>2, <2>3, <2>6
    <3> QED BY <3>1, <2>2, <2>5
  <2>7. CASE m \in I
    <3>1. First(m) = First(m - 1) \cup {m} /\ m \notin First(m - 1)
      BY <1>3, <2>2, <2>3, <2>7
    <3>3. CASE First(m - 1) = {}
      BY <1>4, <3>1, <3>3, <2>2, BelowIsAnOrder
    <3>4. CASE First(m - 1) # {}
      <4>1. PICK k \in First(m - 1) : \A j \in First(m - 1) : ~Below(f[k], f[j])
        BY <3>4, <2>5
      <4>2. Below(f[k], f[m])
        BY <4>1, <3>1, <2>2
      <4>3. PICK j \in First(m) : Below(f[m], f[j])
        BY <3>1, <2>2
      <4>4. Below(f[k], f[j])
        BY <4>2, <4>3, <3>1, <1>4, BelowIsAnOrder
      <4>5. j # m
        BY <4>3, <1>4, BelowIsAnOrder
      <4> QED BY <4>1, <4>4, <4>5, <3>1
    <3> QED BY <3>3, <3>4
  <2> QED BY <2>6, <2>7
<1>6. ~Topped(n)
  BY <1>5
<1> QED BY <1>2, <1>6

\* The ranks of actionable candidates are numbers.
LEMMA RankType ==
  ASSUME NEW s \in ScanType, NEW q \in QuoteType \cup {None}, NEW pol \in PolicyType,
         Evaluate(Snapshot(s, q, pol)).status = "ACTIONABLE"
  PROVE  Rank(Evaluate(Snapshot(s, q, pol))) \in Ranks
<1> DEFINE c == Evaluate(Snapshot(s, q, pol))
<1>1. c.snap.scan = s /\ c.conservative \in Int /\ c.net \in Int
  BY ActionableIsSound
<1> HIDE DEF c
<1>2. /\ s.lcb \in Int /\ Confidence(s) \in Int /\ Risk(s.frag) \in Int
      /\ Risk(s.dis) \in Int /\ Risk(s.cross) \in Int /\ Risk(s.crossings) \in Int
  BY DEF ScanType, Confidence, Risk
<1>3. Rank(c) = <<c.conservative, c.net, s.lcb, Confidence(s), Risk(s.frag),
                  Risk(s.dis), Risk(s.cross), Risk(s.crossings)>>
  BY <1>1 DEF Rank
<1>4. Rank(c) \in Ranks
  BY <1>1, <1>2, <1>3 DEF Ranks
<1> QED BY <1>4 DEF c

\* From snapshots of real scans and quotes, what is selected is sound.
LEMMA SnapshotsSuffice ==
  ASSUME SnapInv
  PROVE  SelectedIsSound
<1> SUFFICES ASSUME Selected # None
             PROVE
    LET c == Candidate(Selected)
        s == c.snap.scan
        q == c.snap.quote
        paid == Ask(q, Side(s)) + (IF q.feeKnown THEN q.fee ELSE 0)
    IN  /\ s.fresh /\ s.sec \in 1 .. policy.maxSec
        /\ s.lcb <= Confidence(s)
        /\ q.age \in 0 .. 15 /\ ~q.expired /\ ~q.otherContract
        /\ s.lcb - paid >= 2 /\ Confidence(s) - paid >= 5
        /\ s.lcb > Ask(q, Side(s)) + 2
        /\ EconomicallyValid(c)
        /\ \A k \in Actionable :
             LET other == Candidate(Assets[k])
             IN  /\ other.conservative <= c.conservative
                 /\ other.conservative = c.conservative => other.net <= c.net
  BY DEF SelectedIsSound
<1>1. ASSUME NEW k \in Actionable
      PROVE  \E s \in ScanType : \E q \in QuoteType \cup {None} :
               /\ Candidate(Assets[k]) = Evaluate(Snapshot(s, q, policy))
               /\ Evaluate(Snapshot(s, q, policy)).status = "ACTIONABLE"
  <2>1. Evaluate(snapshots[Assets[k]]).status = "ACTIONABLE" /\ Assets[k] \in AssetSet
    BY DEF Actionable, Candidate, AssetSet
  <2>2. snapshots[Assets[k]] # None
    BY <2>1, ActionablePasses
  <2>3. PICK s \in ScanType : \E q \in QuoteType \cup {None} :
          snapshots[Assets[k]] = Snapshot(s, q, policy)
    BY <2>1, <2>2 DEF SnapInv
  <2>4. PICK q \in QuoteType \cup {None} :
          snapshots[Assets[k]] = Snapshot(s, q, policy)
    BY <2>3
  <2> QED BY <2>1, <2>4 DEF Candidate
<1>2. policy \in PolicyType
  BY DEF SnapInv
<1> DEFINE f == [k \in Actionable |-> Rank(Candidate(Assets[k]))]
           tops == {k \in Actionable : \A j \in Actionable : ~Below(f[k], f[j])}
<1>3. f \in [Actionable -> Ranks]
  <2>1. \A k \in Actionable : Rank(Candidate(Assets[k])) \in Ranks
    BY <1>1, <1>2, RankType
  <2> QED BY <2>1
<1>4. Len(Assets) \in Nat /\ Actionable \subseteq 1 .. Len(Assets) /\ Actionable # {}
  BY QuotesAssumption DEF Actionable, Selected
<1>5. tops \subseteq Nat /\ tops # {}
  <2>1. tops \subseteq Nat
    <3>1. tops \subseteq Actionable
      OBVIOUS
    <3> HIDE DEF tops
    <3>2. 1 .. Len(Assets) \subseteq Nat
      BY <1>4
    <3> QED BY <1>4, <3>1, <3>2
  <2>2. \E k \in Actionable : \A j \in Actionable : ~Below(f[k], f[j])
    <3> HIDE DEF f
    <3> QED BY <1>3, <1>4, BestExists
  <2> QED BY <2>1, <2>2
<1>6. Min(tops) \in tops
  BY <1>5, MinOf
<1>7. tops = {k \in Actionable : \A j \in Actionable :
                ~Below(Rank(Candidate(Assets[k])), Rank(Candidate(Assets[j])))}
  OBVIOUS
<1>8. Selected = Assets[Min(tops)]
  BY <1>4, <1>7 DEF Selected
<1> DEFINE m == Min(tops)
<1>9. m \in Actionable /\ \A j \in Actionable : ~Below(f[m], f[j])
  BY <1>6
<1> HIDE DEF tops, m
<1>10. Selected = Assets[m]
  BY <1>8 DEF m
<1>11. PICK s \in ScanType : \E q \in QuoteType \cup {None} :
          /\ Candidate(Assets[m]) = Evaluate(Snapshot(s, q, policy))
          /\ Evaluate(Snapshot(s, q, policy)).status = "ACTIONABLE"
  BY <1>1, <1>9
<1>12. PICK q \in QuoteType \cup {None} :
          /\ Candidate(Assets[m]) = Evaluate(Snapshot(s, q, policy))
          /\ Evaluate(Snapshot(s, q, policy)).status = "ACTIONABLE"
  BY <1>11
<1> DEFINE c == Candidate(Selected)
           o == c.snap.quote
           paid == Ask(o, Side(s)) + (IF o.feeKnown THEN o.fee ELSE 0)
<1>13. /\ c.snap.scan = s /\ s.fresh /\ s.sec \in 1 .. policy.maxSec
       /\ s.lcb <= Confidence(s)
       /\ o.age \in 0 .. 15 /\ ~o.expired /\ ~o.otherContract
       /\ s.lcb - paid >= 2 /\ Confidence(s) - paid >= 5
       /\ s.lcb > Ask(o, Side(s)) + 2
       /\ EconomicallyValid(c)
  BY <1>2, <1>10, <1>12, ActionableIsSound
<1>14. ASSUME NEW k \in Actionable
       PROVE  LET other == Candidate(Assets[k])
              IN  /\ other.conservative <= c.conservative
                  /\ other.conservative = c.conservative => other.net <= c.net
  <2> DEFINE other == Candidate(Assets[k])
  <2>1. other.conservative \in Int /\ other.net \in Int
    BY <1>1, <1>2, ActionableIsSound
  <2>2. c.conservative \in Int /\ c.net \in Int
    BY <1>2, <1>10, <1>12, ActionableIsSound
  <2>3. /\ f[k][1] = other.conservative /\ f[k][2] = other.net
        /\ f[m][1] = c.conservative /\ f[m][2] = c.net
    BY <1>9, <1>10 DEF Rank
  <2>4. ~Below(f[m], f[k]) /\ DOMAIN f[m] = 1 .. 8
    BY <1>3, <1>9 DEF Ranks
  <2> HIDE DEF f, c, other
  <2>5. ~(c.conservative < other.conservative)
    <3> SUFFICES ASSUME c.conservative < other.conservative PROVE FALSE
      OBVIOUS
    <3>1. f[m][1] < f[k][1] /\ \A j \in 1 .. 1 - 1 : f[m][j] = f[k][j]
      BY <2>3
    <3> QED BY <3>1, <2>4 DEF Below
  <2>6. other.conservative = c.conservative => ~(c.net < other.net)
    <3> SUFFICES ASSUME other.conservative = c.conservative, c.net < other.net
                 PROVE  FALSE
      OBVIOUS
    <3>1. f[m][2] < f[k][2] /\ \A j \in 1 .. 2 - 1 : f[m][j] = f[k][j]
      BY <2>3
    <3> QED BY <3>1, <2>4 DEF Below
  <2>7. other.conservative <= c.conservative
        /\ (other.conservative = c.conservative => other.net <= c.net)
    BY <2>1, <2>2, <2>5, <2>6
  <2> QED BY <2>7 DEF other
<1> HIDE DEF c, f
<1> QED BY <1>13, <1>14 DEF c

-----------------------------------------------------------------------------
SelInv == EntryInv /\ SnapInv

\* At the start there is no scan and no snapshot.
LEMMA BothInitially == BothInit => SelInv
<1> SUFFICES ASSUME BothInit PROVE SelInv
  OBVIOUS
<1>1. /\ policy \in Policies /\ scans = <<>> /\ entry = None
      /\ snapshots = [a \in AssetSet |-> None]
  BY DEF BothInit, SelInit, EntryInit, AssetSet
<1>2. EntryInv
  BY <1>1 DEF EntryInv
<1>3. SnapInv
  BY <1>1, ScansAssumption DEF SnapInv
<1> QED BY <1>2, <1>3 DEF SelInv

\* A scan of any asset leaves a snapshot that may be.
LEMMA SnapshotTaken ==
  ASSUME SnapInv, policy' = policy, NEW a \in AssetSet,
         NEW s \in ScanType, NEW q \in QuoteType \cup {None},
         snapshots' = [snapshots EXCEPT ![a] = Snapshot(s, q, policy)]
  PROVE  SnapInv'
<1>1. DOMAIN snapshots' = AssetSet /\ AssetSet' = AssetSet
  BY DEF SnapInv, AssetSet
<1>2. snapshots'[a] = Snapshot(s, q, policy)
  BY DEF SnapInv
<1>3. \A b \in AssetSet : b # a => snapshots'[b] = snapshots[b]
  BY DEF SnapInv
<1>4. ASSUME NEW b \in AssetSet
      PROVE  \/ snapshots'[b] = None
             \/ \E t \in ScanType : \E o \in QuoteType \cup {None} :
                  snapshots'[b] = Snapshot(t, o, policy)
  <2>1. CASE b = a
    BY <2>1, <1>2
  <2>2. CASE b # a
    BY <2>2, <1>3 DEF SnapInv
  <2> QED BY <2>1, <2>2
<1> QED BY <1>1, <1>4 DEF SnapInv

\* Every step of either program keeps the two invariants.
LEMMA SelectionStep == SelInv /\ [BothNext]_<<part, entryVars, snapshots, legacyVars>> => SelInv'
<1> SUFFICES ASSUME SelInv, [BothNext]_<<part, entryVars, snapshots, legacyVars>>
             PROVE  SelInv'
  OBVIOUS
<1>1. EntryInv /\ SnapInv
  BY DEF SelInv
<1>2. CASE UNCHANGED <<entryVars, snapshots>>
  <2>1. EntryInv'
    BY <1>1, <1>2 DEF EntryInv, entryVars
  <2>2. SnapInv'
    BY <1>1, <1>2 DEF SnapInv, entryVars, AssetSet
  <2> QED BY <2>1, <2>2 DEF SelInv
<1>3. CASE \E s \in Scans, q \in Quotes : Selector(ScanFirst(s, q))
  <2>1. PICK s \in Scans, q \in Quotes : ScanFirst(s, q)
    BY <1>3 DEF Selector
  <2>2. Process(s)
        /\ snapshots' = [snapshots EXCEPT ![Assets[1]] = Snapshot(s, q, policy)]
    BY <2>1 DEF ScanFirst
  <2>3. EntryInv'
    BY <1>1, <2>2, ProcessKeeps
  <2>4. policy' = policy /\ s \in ScanType /\ q \in QuoteType \cup {None}
    BY <2>2, ScansAssumption, QuotesAssumption DEF Process
  <2>5. Assets[1] \in AssetSet
    BY QuotesAssumption DEF AssetSet
  <2>6. SnapInv'
    BY <1>1, <2>2, <2>4, <2>5, SnapshotTaken
  <2> QED BY <2>3, <2>6 DEF SelInv
<1>4. CASE \E a \in DOMAIN snapshots, s \in OtherScans, q \in OtherQuotes :
             Selector(ScanOther(a, s, q))
  <2>1. PICK a \in DOMAIN snapshots, s \in OtherScans, q \in OtherQuotes :
          ScanOther(a, s, q)
    BY <1>4 DEF Selector
  <2>2. UNCHANGED entryVars
        /\ snapshots' = [snapshots EXCEPT ![a] = Snapshot(s, q, policy)]
    BY <2>1 DEF ScanOther
  <2>3. EntryInv'
    BY <1>1, <2>2 DEF EntryInv, entryVars
  <2>4. /\ policy' = policy /\ s \in ScanType /\ q \in QuoteType \cup {None}
        /\ a \in AssetSet
    BY <1>1, <2>2, QuotesAssumption DEF entryVars, SnapInv
  <2>5. SnapInv'
    BY <1>1, <2>2, <2>4, SnapshotTaken
  <2> QED BY <2>3, <2>5 DEF SelInv
<1>5. CASE ~(\E s \in Scans, q \in Quotes : Selector(ScanFirst(s, q)))
           /\ ~(\E a \in DOMAIN snapshots, s \in OtherScans, q \in OtherQuotes :
                  Selector(ScanOther(a, s, q)))
           /\ BothNext
  BY <1>2, <1>5 DEF BothNext, Legacy
<1> QED BY <1>2, <1>3, <1>4, <1>5

\* The engine's entry and the snapshots stay in step, whatever moves.
LEMMA SelectionInvariant == BothSpec => []SelInv
BY BothInitially, SelectionStep, PTL DEF BothSpec

\* For every set of scans and policies: the replay of the research programs
\* enters the contract at the scan the engine entered at, or not at all if it
\* did not, and never raises (apply_policy_once against decide and process).
THEOREM ReplayFollows == BothSpec => []ReplayAgreesWithEngine
<1>1. SelInv => ReplayAgreesWithEngine
  BY ReplayIsEntry DEF SelInv
<1> QED BY <1>1, SelectionInvariant, PTL

\* For every set of scans, quotes and policies, and any number of assets: what
\* select_primary offers has passed decide, decide_with_economics and evaluate
\* at once, and no other actionable candidate has a larger margin.
THEOREM SelectionIsSound == BothSpec => []SelectedIsSound
<1>1. SelInv => SelectedIsSound
  BY SnapshotsSuffice DEF SelInv
<1> QED BY <1>1, SelectionInvariant, PTL

-----------------------------------------------------------------------------
(***************************************************************************)
(* The legacy program (ResolutionV3).  The clock is known modulo three     *)
(* windows; because a pass is shorter than one, "this window" and "the     *)
(* window of the top of the pass" cannot be confused within it.            *)
(***************************************************************************)
\* Time d later, when it is less than a window later: in this window or the next.
LEMMA ClockIn ==
  ASSUME win \in 0 .. 2, Ticks \in Nat, tick \in 0 .. Ticks - 1,
         NEW d \in Nat, d < Ticks
  PROVE  /\ tick + d < Ticks => V3!WinIn(d) = win /\ V3!TickIn(d) = tick + d
         /\ tick + d >= Ticks => /\ V3!WinIn(d) = (win + 1) % 3
                                 /\ V3!TickIn(d) = tick + d - Ticks
         /\ V3!WinIn(d) \in 0 .. 2 /\ V3!TickIn(d) \in 0 .. Ticks - 1
         /\ V3!WinIn(d) \in {win, (win + 1) % 3}
<1> DEFINE x == tick + d
<1>1. x \in Nat /\ x < 2 * Ticks /\ Ticks > 0
  OBVIOUS
<1>2. CASE x < Ticks
  <2>1. x \div Ticks = 0 /\ x % Ticks = x
    BY <1>1, <1>2
  <2> QED BY <1>1, <1>2, <2>1 DEF V3!WinIn, V3!TickIn
<1>3. CASE x >= Ticks
  <2>1. x \div Ticks = 1 /\ x % Ticks = x - Ticks
    BY <1>1, <1>3
  <2> QED BY <1>1, <1>3, <2>1 DEF V3!WinIn, V3!TickIn
<1> QED BY <1>1, <1>2, <1>3
Places == {"top", "scan", "sleep", "stopped"}

LegacyTypes ==
  /\ win \in 0 .. 2 /\ tick \in 0 .. Ticks - 1 /\ last \in 0 .. 2
  /\ left \in 1 .. Ticks /\ place \in Places /\ at \in 1 .. Len(TickerSeq) + 1
  /\ signals \in [V3!Tickers -> V3!SignalType \cup {None}]
  /\ pending \in V3!PendingType \cup {None}
  /\ active \in V3!ActiveType \cup {None}
  /\ place # "scan" => at = 1 /\ signals = V3!NoSignals

\* Ticks since the top of the pass, of which the clock says only the window
\* modulo 3 and the tick.
Elapsed == IF win = last THEN tick + left - Ticks ELSE tick + left

\* The pass has lasted no longer than its downloads.
PassIsShort ==
  place = "scan" =>
    /\ win \in {last, (last + 1) % 3}
    /\ Elapsed \in 0 .. Lag * (at - 1)

\* While the contract is still the one of the top of the pass, so are the
\* signals' contracts.
SignalsAreFresh ==
  win = last => \A t \in V3!Tickers : signals[t] # None => signals[t].win = last

Trade == IF pending # None THEN pending ELSE active

\* The trade the user was told to enter is of the contract of the pass, and is
\* the one locked or watched.
TradeIsKept ==
  user # None /\ ~user.late =>
    /\ user.win = last /\ Trade # None
    /\ Trade.ticker = user.ticker /\ Trade.win = user.win

LegacyInv == LegacyTypes /\ PassIsShort /\ SignalsAreFresh /\ TradeIsKept

\* What the constants are.
LEMMA LegacyConstants ==
  /\ Ticks \in Nat /\ Pause \in Nat /\ Lag \in Nat /\ EntryDelay \in Nat
  /\ Len(TickerSeq) \in Nat
  /\ \A i \in 1 .. Len(TickerSeq) : TickerSeq[i] \in V3!Tickers
  /\ \A n \in 1 .. Len(TickerSeq) + 1 : Lag * (n - 1) \in Nat /\ Lag * (n - 1) + Lag = Lag * n
       /\ Lag * n + Pause < Ticks
  /\ Lag + Pause < Ticks
  /\ None \notin V3!SignalType /\ None \notin V3!PendingType /\ None \notin V3!ActiveType
  /\ Readings \in [V3!Tickers -> SUBSET [dir : V3!Sides, z : Nat]]
<1>1. /\ Ticks \in Nat /\ Pause \in Nat /\ Lag \in Nat /\ EntryDelay \in Nat
      /\ TickerSeq \in Seq(V3!Tickers) /\ Lag * (Len(TickerSeq) + 1) + Pause < Ticks
      /\ None \notin V3!SignalType /\ None \notin V3!PendingType /\ None \notin V3!ActiveType
      /\ Readings \in [V3!Tickers -> SUBSET [dir : V3!Sides, z : Nat]]
  BY V3Assumption DEF V3!Bounds
<1>2. Len(TickerSeq) \in Nat
  BY <1>1
<1>3. \A i \in 1 .. Len(TickerSeq) : TickerSeq[i] \in V3!Tickers
  BY DEF V3!Tickers
<1>4. ASSUME NEW n \in 1 .. Len(TickerSeq) + 1
      PROVE  Lag * (n - 1) \in Nat /\ Lag * (n - 1) + Lag = Lag * n /\ Lag * n + Pause < Ticks
  <2>1. \A x, y \in Nat : x * y \in Nat
    OBVIOUS
  <2>2. \A x, y, z \in Nat : y <= z => x * y <= x * z
    OBVIOUS
  <2>3. \A x, y \in Nat : x * (y - 1) + x = x * y
    OBVIOUS
  <2>4. n \in Nat /\ n - 1 \in Nat /\ n <= Len(TickerSeq) + 1 /\ Len(TickerSeq) + 1 \in Nat
    BY <1>2
  <2>5. Lag * n <= Lag * (Len(TickerSeq) + 1)
    BY <1>1, <2>2, <2>4
  <2>6. Lag * n \in Nat /\ Lag * (n - 1) \in Nat /\ Lag * (Len(TickerSeq) + 1) \in Nat
    BY <1>1, <2>1, <2>4
  <2>7. Lag * n + Pause < Ticks
    BY <1>1, <2>5, <2>6
  <2>8. Lag * (n - 1) + Lag = Lag * n
    BY <1>1, <2>3, <2>4
  <2> QED BY <2>6, <2>7, <2>8
<1>5. Lag + Pause < Ticks
  <2>1. 1 \in 1 .. Len(TickerSeq) + 1
    BY <1>2
  <2>2. Lag * 1 = Lag
    BY <1>1
  <2> QED BY <1>4, <2>1, <2>2
<1> QED BY <1>1, <1>2, <1>3, <1>4, <1>5

\* A step that ends a pass, or takes none of it: what it must keep.
LEMMA PassOver ==
  ASSUME LegacyInv, place' # "scan", at' = 1, signals' = V3!NoSignals,
         place' \in Places, win' \in 0 .. 2, tick' \in 0 .. Ticks - 1,
         last' \in 0 .. 2, left' \in 1 .. Ticks,
         pending' \in V3!PendingType \cup {None},
         active' \in V3!ActiveType \cup {None}, TradeIsKept'
  PROVE  LegacyInv'
<1>1. V3!Tickers' = V3!Tickers
  BY DEF V3!Tickers
<1>2. V3!NoSignals' = V3!NoSignals /\ V3!SignalType' = V3!SignalType
      /\ V3!PendingType' = V3!PendingType /\ V3!ActiveType' = V3!ActiveType
  BY DEF V3!Tickers, V3!NoSignals, V3!SignalType, V3!PendingType, V3!ActiveType, V3!Sides
<1>3. V3!NoSignals \in [V3!Tickers -> V3!SignalType \cup {None}]
      /\ \A t \in V3!Tickers : V3!NoSignals[t] = None
  BY DEF V3!NoSignals
<1>4. at' \in 1 .. Len(TickerSeq) + 1
  BY LegacyConstants
<1>5. LegacyTypes'
  BY <1>1, <1>2, <1>3, <1>4 DEF LegacyTypes, Places
<1>6. PassIsShort' /\ SignalsAreFresh'
  BY <1>1, <1>3 DEF PassIsShort, SignalsAreFresh
<1> QED BY <1>5, <1>6 DEF LegacyInv

\* The legacy program starts with no trade.
LEMMA LegacyInitially == BothInit => LegacyInv
<1> SUFFICES ASSUME BothInit PROVE LegacyInv
  OBVIOUS
<1>1. /\ win = 0 /\ tick \in 0 .. Ticks - 1 /\ last = 0 /\ left = Ticks - tick
      /\ signals = V3!NoSignals /\ pending = None /\ active = None
      /\ place = "top" /\ at = 1 /\ user = None
  BY DEF BothInit, V3!Init
<1>2. left \in 1 .. Ticks /\ at \in 1 .. Len(TickerSeq) + 1
  BY <1>1, LegacyConstants
<1>3. V3!NoSignals \in [V3!Tickers -> V3!SignalType \cup {None}]
      /\ \A t \in V3!Tickers : V3!NoSignals[t] = None
  BY DEF V3!NoSignals
<1>4. LegacyTypes
  BY <1>1, <1>2, <1>3 DEF LegacyTypes, Places
<1>5. PassIsShort /\ SignalsAreFresh /\ TradeIsKept
  BY <1>1, <1>3 DEF PassIsShort, SignalsAreFresh, TradeIsKept
<1> QED BY <1>4, <1>5 DEF LegacyInv

\* The reset clears what is of another contract than the user was told of.
LEMMA TopKeeps ==
  ASSUME LegacyInv, V3!Top
  PROVE  LegacyInv'
<1>1. /\ place = "top" /\ last' = win /\ left' = V3!LeftIn(0) /\ user' = V3!Settled
      /\ pending' = IF win # last THEN None ELSE pending
      /\ active' = IF win # last THEN None ELSE active
      /\ place' = "scan" /\ UNCHANGED <<win, tick, signals, at>>
  BY DEF V3!Top
<1>2. LegacyTypes /\ TradeIsKept /\ at = 1 /\ signals = V3!NoSignals
  BY <1>1 DEF LegacyInv, LegacyTypes
<1>3. V3!Tickers' = V3!Tickers /\ V3!SignalType' = V3!SignalType
      /\ V3!PendingType' = V3!PendingType /\ V3!ActiveType' = V3!ActiveType
  BY DEF V3!Tickers, V3!SignalType, V3!PendingType, V3!ActiveType, V3!Sides
<1>4. win \in 0 .. 2 /\ tick \in 0 .. Ticks - 1 /\ Ticks \in Nat
  BY <1>2, LegacyConstants DEF LegacyTypes
<1>5. left' = Ticks - tick
  <2>1. V3!TickIn(0) = tick
    BY <1>4, ClockIn
  <2> QED BY <1>1, <2>1 DEF V3!LeftIn
<1>6. LegacyTypes'
  <2>1. left' \in 1 .. Ticks
    BY <1>4, <1>5
  <2> QED BY <1>1, <1>2, <1>3, <1>4, <2>1 DEF LegacyTypes, Places
<1>7. PassIsShort'
  <2>1. Elapsed' = 0
    BY <1>1, <1>4, <1>5 DEF Elapsed
  <2>2. Lag * (at' - 1) = 0
    BY <1>1, <1>2, LegacyConstants
  <2> QED BY <1>1, <2>1, <2>2 DEF PassIsShort
<1>8. SignalsAreFresh'
  BY <1>1, <1>2, <1>3 DEF SignalsAreFresh, V3!NoSignals
<1>9. TradeIsKept'
  <2> SUFFICES ASSUME user' # None, ~user'.late
               PROVE  /\ user'.win = last' /\ Trade' # None
                      /\ Trade'.ticker = user'.ticker /\ Trade'.win = user'.win
    BY DEF TradeIsKept
  <2>1. user' = user /\ user.win = win
    BY <1>1 DEF V3!Settled
  <2>2. user.win = last
    BY <2>1, <1>2 DEF TradeIsKept
  <2>3. Trade' = Trade /\ last' = last
    BY <1>1, <2>1, <2>2 DEF Trade
  <2> QED BY <2>1, <2>3, <1>2 DEF TradeIsKept
<1> QED BY <1>6, <1>7, <1>8, <1>9 DEF LegacyInv

\* The locked signal, d ticks older.
LEMMA PendingLater ==
  ASSUME LegacyTypes, NEW d \in Nat
  PROVE  /\ V3!PendingAfter(d) \in V3!PendingType \cup {None}
         /\ pending = None <=> V3!PendingAfter(d) = None
         /\ pending # None => /\ V3!PendingAfter(d).ticker = pending.ticker
                              /\ V3!PendingAfter(d).win = pending.win
<1>1. CASE pending = None
  BY <1>1 DEF V3!PendingAfter
<1>2. CASE pending # None
  <2>1. pending \in V3!PendingType
    BY <1>2 DEF LegacyTypes
  <2>2. V3!UpTo(pending.age + d, EntryDelay) \in Nat
    BY <2>1, LegacyConstants DEF V3!UpTo, V3!PendingType
  <2>3. V3!PendingAfter(d) = [pending EXCEPT !.age = V3!UpTo(pending.age + d, EntryDelay)]
    BY <1>2 DEF V3!PendingAfter
  <2>4. V3!PendingAfter(d) \in V3!PendingType
    BY <2>1, <2>2, <2>3 DEF V3!PendingType
  <2>5. V3!PendingAfter(d).ticker = pending.ticker /\ V3!PendingAfter(d).win = pending.win
    BY <2>1, <2>3 DEF V3!PendingType
  <2> QED BY <1>2, <2>4, <2>5, LegacyConstants
<1> QED BY <1>1, <1>2

\* A signal is one, of the window it was computed in.
LEMMA SignalIs ==
  ASSUME LegacyTypes, NEW t \in V3!Tickers, NEW r \in Readings[t], NEW a,
         NEW d \in Nat, d < Ticks
  PROVE  V3!Signal(r, a, d) \in V3!SignalType /\ V3!Signal(r, a, d).win = V3!WinIn(d)
<1>1. r.dir \in V3!Sides /\ r.z \in Nat
  BY LegacyConstants
<1>2. V3!Confidence(r.z) \in Nat
  BY <1>1 DEF V3!Confidence
<1>3. V3!WinIn(d) \in 0 .. 2
  BY ClockIn, LegacyConstants DEF LegacyTypes
<1> QED BY <1>1, <1>2, <1>3 DEF V3!Signal, V3!SignalType

\* A download and its signal: the pass grows by at most Lag.
LEMMA ScanKeeps ==
  ASSUME LegacyInv, V3!Scan
  PROVE  LegacyInv'
<1> DEFINE ticker == TickerSeq[at]
<1>1. PICK d \in 0 .. Lag :
        /\ V3!ClockAfter(d) /\ pending' = V3!PendingAfter(d)
        /\ \E a \in V3!Fetched(ticker, d) :
             \/ UNCHANGED signals
             \/ \E r \in Readings[ticker] :
                  signals' = [signals EXCEPT ![ticker] = V3!Signal(r, a, d)]
  BY DEF V3!Scan
<1>2. place = "scan" /\ at <= Len(TickerSeq) /\ at' = at + 1
      /\ UNCHANGED <<last, left, active, place, user>>
  BY DEF V3!Scan
<1>3. LegacyTypes /\ PassIsShort /\ SignalsAreFresh /\ TradeIsKept
  BY DEF LegacyInv
<1>4. /\ win \in 0 .. 2 /\ tick \in 0 .. Ticks - 1 /\ Ticks \in Nat /\ Lag \in Nat
      /\ last \in 0 .. 2 /\ left \in 1 .. Ticks /\ at \in 1 .. Len(TickerSeq)
      /\ Len(TickerSeq) \in Nat /\ d \in Nat /\ d < Ticks /\ ticker \in V3!Tickers
  BY <1>2, <1>3, LegacyConstants DEF LegacyTypes
<1>5. win' = V3!WinIn(d) /\ tick' = V3!TickIn(d)
  BY <1>1 DEF V3!ClockAfter
<1>6. /\ tick + d < Ticks => win' = win /\ tick' = tick + d
      /\ tick + d >= Ticks => win' = (win + 1) % 3 /\ tick' = tick + d - Ticks
      /\ win' \in 0 .. 2 /\ tick' \in 0 .. Ticks - 1
  BY <1>4, <1>5, ClockIn
<1>7. V3!Tickers' = V3!Tickers /\ V3!SignalType' = V3!SignalType
      /\ V3!PendingType' = V3!PendingType /\ V3!ActiveType' = V3!ActiveType
  BY DEF V3!Tickers, V3!SignalType, V3!PendingType, V3!ActiveType, V3!Sides
<1>8. \/ signals' = signals
      \/ \E s \in V3!SignalType :
           s.win = win' /\ signals' = [signals EXCEPT ![ticker] = s]
  BY <1>1, <1>3, <1>4, <1>5, SignalIs
<1>9. signals' \in [V3!Tickers -> V3!SignalType \cup {None}]
  BY <1>3, <1>4, <1>8 DEF LegacyTypes
<1>10. pending' \in V3!PendingType \cup {None}
       /\ (pending = None <=> pending' = None)
       /\ (pending # None => pending'.ticker = pending.ticker /\ pending'.win = pending.win)
  BY <1>1, <1>3, <1>4, PendingLater
<1> HIDE DEF ticker
<1>11. LegacyTypes'
  <2>1. at' \in 1 .. Len(TickerSeq) + 1
    BY <1>2, <1>4
  <2> QED BY <1>2, <1>3, <1>4, <1>6, <1>7, <1>9, <1>10, <2>1 DEF LegacyTypes
<1>12. PassIsShort' /\ (win' = last => win = last)
  <2>1. /\ win \in {last, (last + 1) % 3} /\ Elapsed \in 0 .. Lag * (at - 1)
    BY <1>2, <1>3 DEF PassIsShort
  <2>2. /\ Lag * (at - 1) \in Nat /\ Lag * (at - 1) + Lag = Lag * at /\ Lag * at < Ticks
    <3>1. at \in 1 .. Len(TickerSeq) + 1
      BY <1>4
    <3>2. Pause \in Nat /\ Lag * at \in Int
      BY <1>4, LegacyConstants
    <3> QED BY <3>1, <3>2, LegacyConstants
  <2>3. Lag * (at' - 1) = Lag * at
    BY <1>2, <1>4
  <2> DEFINE m == Lag * (at - 1)
             n == Lag * at
  <2>4. m \in Nat /\ m + Lag = n /\ n < Ticks /\ Elapsed \in 0 .. m
    BY <2>1, <2>2
  <2>5. Elapsed' = IF win' = last THEN tick' + left - Ticks ELSE tick' + left
    BY <1>2 DEF Elapsed
  <2>6. (last + 1) % 3 # last /\ (((last + 1) % 3) + 1) % 3 # last
    BY <1>4
  <2> HIDE DEF m, n
  <2>7. ASSUME win = last
        PROVE  /\ win' \in {last, (last + 1) % 3} /\ Elapsed' \in 0 .. n
               /\ win' = last => win = last
    <3>1. Elapsed = tick + left - Ticks
      BY <2>7 DEF Elapsed
    <3>2. CASE tick + d < Ticks
      <4>1. win' = last /\ Elapsed' = Elapsed + d
        BY <1>4, <1>6, <2>5, <2>7, <3>1, <3>2
      <4> QED BY <1>4, <2>4, <2>7, <4>1
    <3>3. CASE tick + d >= Ticks
      <4>1. win' = (last + 1) % 3 /\ win' # last
        BY <1>6, <2>6, <2>7, <3>3
      <4>2. Elapsed' = Elapsed + d
        BY <1>4, <1>6, <2>5, <3>1, <3>3, <4>1
      <4> QED BY <1>4, <2>4, <4>1, <4>2
    <3> QED BY <3>2, <3>3, <1>4
  <2>8. ASSUME win = (last + 1) % 3 /\ win # last
        PROVE  /\ win' \in {last, (last + 1) % 3} /\ Elapsed' \in 0 .. n
               /\ win' = last => win = last
    <3>1. Elapsed = tick + left
      BY <2>8 DEF Elapsed
    <3>2. tick + d < Ticks
      BY <1>4, <2>4, <3>1
    <3>3. win' = win /\ Elapsed' = Elapsed + d
      BY <1>4, <1>6, <2>5, <2>8, <3>1, <3>2
    <3> QED BY <1>4, <2>4, <2>8, <3>3
  <2>9. /\ win' \in {last, (last + 1) % 3} /\ Elapsed' \in 0 .. n
        /\ win' = last => win = last
    <3>1. Elapsed \in Nat /\ (win = last \/ (win = (last + 1) % 3 /\ win # last))
      BY <2>1, <2>4
    <3> QED BY <2>7, <2>8, <3>1
  <2>10. Lag' * (at' - 1) = n /\ last' = last
    BY <1>2, <2>3 DEF n
  <2> QED BY <2>9, <2>10 DEF PassIsShort
<1>13. SignalsAreFresh'
  <2> SUFFICES ASSUME win' = last', NEW t \in V3!Tickers, signals'[t] # None
               PROVE  signals'[t].win = last'
    BY <1>7 DEF SignalsAreFresh
  <2>1. win = last /\ last' = last
    BY <1>2, <1>12
  <2>2. CASE signals'[t] = signals[t]
    BY <1>3, <2>1, <2>2 DEF SignalsAreFresh
  <2>3. CASE signals'[t] # signals[t]
    <3>1. PICK s \in V3!SignalType :
            s.win = win' /\ signals' = [signals EXCEPT ![ticker] = s]
      BY <1>8, <2>3
    <3>2. signals'[t] = s
      BY <1>3, <2>3, <3>1 DEF LegacyTypes
    <3> QED BY <3>1, <3>2
  <2> QED BY <2>2, <2>3
<1>14. TradeIsKept'
  BY <1>2, <1>3, <1>10 DEF TradeIsKept, Trade
<1> QED BY <1>11, <1>12, <1>13, <1>14 DEF LegacyInv
\* The clock d ticks on, when d is less than a window.
LEMMA LaterType ==
  ASSUME LegacyTypes, NEW d \in Nat, d < Ticks, V3!After(d)
  PROVE  win' \in 0 .. 2 /\ tick' \in 0 .. Ticks - 1 /\ win' = V3!WinIn(d)
BY ClockIn, LegacyConstants DEF LegacyTypes, V3!After, V3!ClockAfter

\* A step that touches neither the trade nor the pass keeps the rest.
LEMMA TradeStays ==
  ASSUME TradeIsKept, user' = user, last' = last,
         pending = None <=> pending' = None,
         pending # None => pending'.ticker = pending.ticker /\ pending'.win = pending.win,
         active' = active
  PROVE  TradeIsKept'
BY DEF TradeIsKept, Trade

\* A branch that decides nothing keeps the trade.
LEMMA RestKeeps ==
  ASSUME LegacyInv, V3!Hold \/ V3!Ride \/ V3!Idle
  PROVE  LegacyInv'
<1>1. LegacyTypes /\ TradeIsKept
  BY DEF LegacyInv
<1>2. place' = "sleep" /\ at' = 1 /\ signals' = V3!NoSignals
      /\ UNCHANGED <<last, left, user, pending, active>>
  BY DEF V3!Hold, V3!Ride, V3!Idle, V3!Sleep, V3!Ends, V3!Keeps
<1>3. win' \in 0 .. 2 /\ tick' \in 0 .. Ticks - 1
  <2>1. CASE V3!Hold \/ V3!Idle
    BY <1>1, <2>1 DEF V3!Hold, V3!Idle, LegacyTypes
  <2>2. CASE V3!Ride
    <3>1. PICK d \in 0 .. Lag : V3!After(d)
      BY <2>2 DEF V3!Ride
    <3>2. d \in Nat /\ d < Ticks
      BY LegacyConstants
    <3> QED BY <1>1, <3>1, <3>2, LaterType
  <2> QED BY <2>1, <2>2
<1>4. TradeIsKept'
  BY <1>1, <1>2, TradeStays
<1> QED BY <1>1, <1>2, <1>3, <1>4, PassOver DEF LegacyTypes, Places

\* A lock that waits grows older and stays.
LEMMA WaitKeeps ==
  ASSUME LegacyInv, V3!Wait
  PROVE  LegacyInv'
<1>1. LegacyTypes /\ TradeIsKept
  BY DEF LegacyInv
<1>2. PICK d \in 0 .. Lag : V3!After(d) /\ V3!Sleep /\ pending' = V3!PendingAfter(d)
        /\ UNCHANGED active /\ V3!Keeps
  BY DEF V3!Wait
<1>3. d \in Nat /\ d < Ticks
  BY LegacyConstants
<1>4. place' = "sleep" /\ at' = 1 /\ signals' = V3!NoSignals
      /\ UNCHANGED <<last, left, user, active>>
  BY <1>2 DEF V3!Sleep, V3!Ends, V3!Keeps
<1>5. win' \in 0 .. 2 /\ tick' \in 0 .. Ticks - 1
  BY <1>1, <1>2, <1>3, LaterType
<1>6. /\ pending' \in V3!PendingType \cup {None}
      /\ pending = None <=> pending' = None
      /\ pending # None => pending'.ticker = pending.ticker /\ pending'.win = pending.win
  BY <1>1, <1>2, <1>3, PendingLater
<1>7. TradeIsKept'
  BY <1>1, <1>4, <1>6, TradeStays
<1> QED BY <1>1, <1>4, <1>5, <1>6, <1>7, PassOver DEF LegacyTypes, Places

\* So does one that sleeps.
LEMMA WakeKeeps ==
  ASSUME LegacyInv, V3!Wake
  PROVE  LegacyInv'
<1>1. LegacyTypes /\ TradeIsKept
  BY DEF LegacyInv
<1>2. PICK d \in 1 .. Pause : V3!After(d) /\ pending' = V3!PendingAfter(d)
  BY DEF V3!Wake
<1>3. d \in Nat /\ d < Ticks
  BY LegacyConstants
<1>4. /\ place = "sleep" /\ place' = "top"
      /\ UNCHANGED <<last, left, signals, active, at, user>>
  BY DEF V3!Wake
<1>5. win' \in 0 .. 2 /\ tick' \in 0 .. Ticks - 1
  BY <1>1, <1>2, <1>3, LaterType
<1>6. /\ pending' \in V3!PendingType \cup {None}
      /\ pending = None <=> pending' = None
      /\ pending # None => pending'.ticker = pending.ticker /\ pending'.win = pending.win
  BY <1>1, <1>2, <1>3, PendingLater
<1>7. TradeIsKept'
  BY <1>1, <1>4, <1>6, TradeStays
<1>8. at' = 1 /\ signals' = V3!NoSignals
  BY <1>1, <1>4 DEF LegacyTypes
<1> QED BY <1>1, <1>4, <1>5, <1>6, <1>7, <1>8, PassOver DEF LegacyTypes, Places

\* The user is told not to enter, or to leave.
LEMMA LeaveKeeps ==
  ASSUME LegacyInv, V3!Cancel \/ V3!Exit
  PROVE  LegacyInv'
<1>1. LegacyTypes
  BY DEF LegacyInv
<1>2. /\ user' = None /\ UNCHANGED <<last, left>>
      /\ place' \in {"sleep", "top", "stopped"} /\ at' = 1 /\ signals' = V3!NoSignals
  BY DEF V3!Cancel, V3!Exit, V3!Logged, V3!Sleep, V3!Ends
<1>3. pending' \in V3!PendingType \cup {None} /\ active' \in V3!ActiveType \cup {None}
  BY <1>1 DEF V3!Cancel, V3!Exit, LegacyTypes
<1>4. \E d \in Nat : d < Ticks /\ V3!After(d)
  <2>1. CASE V3!Cancel
    <3>1. PICK d \in 0 .. Lag : V3!After(d)
      BY <2>1 DEF V3!Cancel
    <3>2. d \in Nat /\ d < Ticks
      BY LegacyConstants
    <3> QED BY <3>1, <3>2
  <2>2. CASE V3!Exit
    <3>1. PICK d \in 0 .. Lag, e \in 1 .. Pause : V3!After(d + e)
      BY <2>2 DEF V3!Exit
    <3>2. d + e \in Nat /\ d + e < Ticks
      BY LegacyConstants
    <3> QED BY <3>1, <3>2
  <2> QED BY <2>1, <2>2
<1>5. win' \in 0 .. 2 /\ tick' \in 0 .. Ticks - 1
  BY <1>1, <1>4, LaterType
<1>6. TradeIsKept'
  BY <1>2 DEF TradeIsKept
<1> QED BY <1>1, <1>2, <1>3, <1>5, <1>6, PassOver DEF LegacyTypes, Places

\* The fill is assumed on the signal of this pass, which is of the contract
\* the user was told to enter.
LEMMA FillKeeps ==
  ASSUME LegacyInv, V3!Fill
  PROVE  LegacyInv'
<1>1. LegacyTypes /\ PassIsShort /\ SignalsAreFresh /\ TradeIsKept
  BY DEF LegacyInv
<1>2. PICK d \in 0 .. Lag : \E s \in {signals[t] : t \in V3!Tickers} :
        /\ V3!Locked(s) /\ V3!Filled(s, d) /\ V3!After(d) /\ V3!Logged
        /\ active' = [ticker |-> pending.ticker, dir |-> s.dir, win |-> s.win]
        /\ pending' = None /\ V3!Keeps
  BY DEF V3!Fill
<1>3. PICK s \in {signals[t] : t \in V3!Tickers} :
        /\ V3!Locked(s) /\ V3!Filled(s, d) /\ V3!After(d) /\ V3!Logged
        /\ active' = [ticker |-> pending.ticker, dir |-> s.dir, win |-> s.win]
        /\ pending' = None /\ V3!Keeps
  BY <1>2
<1>4. d \in Nat /\ d < Ticks
  BY LegacyConstants
<1>5. /\ place = "scan" /\ pending # None /\ s # None /\ s = signals[pending.ticker]
      /\ pending.win = V3!WinIn(d)
  BY <1>3 DEF V3!Locked, V3!Decides, V3!Filled, V3!Cancels
<1>6. pending \in V3!PendingType /\ pending.ticker \in V3!Tickers
  BY <1>1, <1>5 DEF LegacyTypes, V3!PendingType
<1>7. s \in V3!SignalType
  BY <1>1, <1>5, <1>6 DEF LegacyTypes
<1>8. active' \in V3!ActiveType
  BY <1>3, <1>6, <1>7 DEF V3!ActiveType, V3!SignalType
<1>9. /\ place' \in {"sleep", "stopped"} /\ at' = 1 /\ signals' = V3!NoSignals
      /\ pending' = None /\ UNCHANGED <<last, left, user>>
  BY <1>3 DEF V3!Logged, V3!Sleep, V3!Ends, V3!Keeps
<1>10. win' \in 0 .. 2 /\ tick' \in 0 .. Ticks - 1
  BY <1>1, <1>3, <1>4, LaterType
<1>11. ASSUME pending.win = last PROVE s.win = last
  <2>1. V3!WinIn(d) \in {win, (win + 1) % 3} /\ win \in 0 .. 2 /\ last \in 0 .. 2
    BY <1>1, <1>4, ClockIn, LegacyConstants DEF LegacyTypes
  <2>2. win \in {last, (last + 1) % 3}
    BY <1>1, <1>5 DEF PassIsShort
  <2>3. win = last
    BY <2>1, <2>2, <1>5, <1>11
  <2> QED BY <2>3, <1>1, <1>5, <1>6 DEF SignalsAreFresh
<1>12. TradeIsKept'
  <2> SUFFICES ASSUME user # None, ~user.late
               PROVE  /\ user.win = last /\ Trade' # None
                      /\ Trade'.ticker = user.ticker /\ Trade'.win = user.win
    BY <1>9 DEF TradeIsKept
  <2>1. /\ user.win = last /\ pending.ticker = user.ticker /\ pending.win = user.win
    BY <1>1, <1>5 DEF TradeIsKept, Trade
  <2>2. Trade' = active' /\ active' # None
    BY <1>8, <1>9, LegacyConstants DEF Trade
  <2>3. active'.ticker = pending.ticker /\ active'.win = s.win
    BY <1>3
  <2> QED BY <2>1, <2>2, <2>3, <1>11
<1> QED BY <1>1, <1>8, <1>9, <1>10, <1>12, PassOver DEF LegacyTypes, Places

\* find_best_setup finds one.
LEMMA BestIsASetup ==
  ASSUME LegacyTypes, V3!Setups # {}
  PROVE  V3!Best \in V3!Setups
<1> DEFINE I == V3!Setups
           z(i) == signals[TickerSeq[i]].z
           f == [i \in I |-> <<z(i), -i, 0, 0, 0, 0, 0, 0>>]
<1>1. I \subseteq 1 .. Len(TickerSeq) /\ Len(TickerSeq) \in Nat
  BY LegacyConstants DEF V3!Setups
<1>2. ASSUME NEW i \in I PROVE i \in Nat /\ z(i) \in Int
  <2>1. TickerSeq[i] \in V3!Tickers /\ signals[TickerSeq[i]] # None
    BY <1>1, LegacyConstants DEF V3!Setups
  <2>2. signals[TickerSeq[i]] \in V3!SignalType
    BY <2>1 DEF LegacyTypes
  <2> QED BY <1>1, <2>2 DEF V3!SignalType
<1>3. f \in [I -> Ranks]
  BY <1>2 DEF Ranks
<1>4. PICK k \in I : \A j \in I : ~Below(f[k], f[j])
  <2> HIDE DEF f, I
  <2> QED BY <1>1, <1>3, BestExists DEF I
<1>5. ASSUME NEW j \in I PROVE z(k) > z(j) \/ (z(k) = z(j) /\ k <= j)
  <2>1. /\ f[k][1] = z(k) /\ f[k][2] = -k /\ f[j][1] = z(j) /\ f[j][2] = -j
        /\ DOMAIN f[k] = 1 .. 8
    OBVIOUS
  <2>2. k \in Nat /\ j \in Nat /\ z(k) \in Int /\ z(j) \in Int
    BY <1>2
  <2>3. ~Below(f[k], f[j])
    BY <1>4
  <2> HIDE DEF f, z
  <2>4. ~(z(k) < z(j))
    <3> SUFFICES ASSUME z(k) < z(j) PROVE FALSE
      OBVIOUS
    <3>1. f[k][1] < f[j][1] /\ \A n \in 1 .. 1 - 1 : f[k][n] = f[j][n]
      BY <2>1
    <3> QED BY <3>1, <2>1, <2>3 DEF Below
  <2>5. z(k) = z(j) => ~(-k < -j)
    <3> SUFFICES ASSUME z(k) = z(j), -k < -j PROVE FALSE
      OBVIOUS
    <3>1. f[k][2] < f[j][2] /\ \A n \in 1 .. 2 - 1 : f[k][n] = f[j][n]
      BY <2>1
    <3> QED BY <3>1, <2>1, <2>3 DEF Below
  <2> QED BY <2>2, <2>4, <2>5
<1>6. V3!Best = CHOOSE i \in I : \A j \in I : z(i) > z(j) \/ (z(i) = z(j) /\ i <= j)
  BY DEF V3!Best
<1> HIDE DEF I, z
<1> QED BY <1>5, <1>6 DEF I

\* The signal that is locked is the trade the user is told to enter.
LEMMA LockKeeps ==
  ASSUME LegacyInv, V3!Lock
  PROVE  LegacyInv'
<1> DEFINE t == TickerSeq[V3!Best]
           s == signals[t]
<1>1. LegacyTypes /\ TradeIsKept
  BY DEF LegacyInv
<1>2. /\ V3!Setups # {} /\ V3!Logged
      /\ pending' = [ticker |-> t, dir |-> s.dir, win |-> s.win, age |-> 0]
      /\ user' = [ticker |-> t, dir |-> s.dir, win |-> s.win, late |-> s.win # last]
      /\ UNCHANGED <<win, tick, last, left, active>>
  BY DEF V3!Lock, V3!MayEnter
<1>3. V3!Best \in V3!Setups
  BY <1>1, <1>2, BestIsASetup
<1>4. t \in V3!Tickers /\ s \in V3!SignalType
  <2>1. V3!Best \in 1 .. Len(TickerSeq) /\ s # None
    BY <1>3 DEF V3!Setups
  <2>2. t \in V3!Tickers
    BY <2>1, LegacyConstants
  <2> QED BY <1>1, <2>1, <2>2 DEF LegacyTypes
<1> HIDE DEF t, s
<1>5. pending' \in V3!PendingType /\ pending' # None
  <2>1. pending' \in V3!PendingType
    BY <1>2, <1>4 DEF V3!PendingType, V3!SignalType
  <2> QED BY <2>1, LegacyConstants
<1>6. /\ place' \in {"sleep", "stopped"} /\ at' = 1 /\ signals' = V3!NoSignals
  BY <1>2 DEF V3!Logged, V3!Sleep, V3!Ends
<1>7. TradeIsKept'
  <2> SUFFICES ASSUME ~user'.late
               PROVE  /\ user'.win = last /\ Trade' # None
                      /\ Trade'.ticker = user'.ticker /\ Trade'.win = user'.win
    BY <1>2 DEF TradeIsKept
  <2>1. user'.win = s.win /\ user'.ticker = t /\ (user'.late <=> s.win # last)
    BY <1>2
  <2>2. pending'.win = s.win /\ pending'.ticker = t
    BY <1>2
  <2> QED BY <1>5, <2>1, <2>2 DEF Trade
<1> QED BY <1>1, <1>2, <1>5, <1>6, <1>7, PassOver DEF LegacyTypes, Places

\* Every step of either program keeps the invariant of the legacy one.
LEMMA LegacyStep == LegacyInv /\ [BothNext]_<<part, entryVars, snapshots, legacyVars>> => LegacyInv'
<1> SUFFICES ASSUME LegacyInv, [BothNext]_<<part, entryVars, snapshots, legacyVars>>
             PROVE  LegacyInv'
  OBVIOUS
<1>1. CASE UNCHANGED legacyVars
  <2>1. UNCHANGED <<win, tick, last, left, signals, pending, active, place, at, user>>
    BY <1>1 DEF legacyVars
  <2>2. V3!Tickers' = V3!Tickers /\ V3!SignalType' = V3!SignalType
        /\ V3!NoSignals' = V3!NoSignals
        /\ V3!PendingType' = V3!PendingType /\ V3!ActiveType' = V3!ActiveType
    BY DEF V3!Tickers, V3!SignalType, V3!PendingType, V3!ActiveType, V3!Sides,
           V3!NoSignals
  <2>3. LegacyTypes'
    BY <2>1, <2>2 DEF LegacyInv, LegacyTypes, Places
  <2>4. PassIsShort'
    BY <2>1 DEF LegacyInv, PassIsShort, Elapsed
  <2>5. SignalsAreFresh'
    BY <2>1, <2>2 DEF LegacyInv, SignalsAreFresh
  <2>6. TradeIsKept'
    BY <2>1 DEF LegacyInv, TradeIsKept, Trade
  <2> QED BY <2>3, <2>4, <2>5, <2>6 DEF LegacyInv
<1>2. CASE V3!Next
  <2>1. \/ V3!Top \/ V3!Scan \/ V3!Hold \/ V3!Cancel \/ V3!Fill \/ V3!Wait
        \/ V3!Exit \/ V3!Ride \/ V3!Idle \/ V3!Lock \/ V3!Wake
    BY <1>2 DEF V3!Next
  <2> QED BY <2>1, TopKeeps, ScanKeeps, RestKeeps, LeaveKeeps, FillKeeps, WaitKeeps,
             LockKeeps, WakeKeeps
<1>3. \/ UNCHANGED legacyVars
      \/ V3!Next
  BY DEF BothNext, Selector, Legacy, V3!Next
<1> QED BY <1>1, <1>2, <1>3

\* For any tickers, readings and times that make a pass shorter than a window:
\* the trade the user was told to enter is the one the legacy loop has locked
\* or watches, until its contract ends (main's three states).
THEOREM TradeWatched == BothSpec => []TradeIsWatched
<1>1. LegacyInv => TradeIsWatched
  BY DEF LegacyInv, TradeIsWatched, V3!TradeIsWatched, TradeIsKept, Trade
<1>2. BothSpec => []LegacyInv
  BY LegacyInitially, LegacyStep, PTL DEF BothSpec
<1> QED BY <1>1, <1>2, PTL

=============================================================================
