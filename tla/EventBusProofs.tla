--------------------------- MODULE EventBusProofs ---------------------------
(***************************************************************************)
(* Theorems about module EventBus: first for any number of emitters, whose *)
(* seqs may be equal but leave no gap, and then for the one emitter that a *)
(* run has when its executions do not overlap, whose seqs count its events *)
(* and whose clients see them in order.                                    *)
(***************************************************************************)
EXTENDS EventBus, SequenceTheorems, FiniteSetTheorems, TLAPS

\* Event i has seq i.
Dense == \A i \in 1 .. Len(log) : log[i] = i

\* What an emitter holds inside emit is the length of the log: first the maximum
\* it has read, then the event it has stored.
Numbering == \A e \in Emitters :
  /\ stage[e] # "idle" => held[e] = Len(log)
  /\ stage[e] = "stored" => Len(log) > 0

NumberingInv == TypeOK /\ Dense /\ Numbering

-----------------------------------------------------------------------------
(* The numbering.                                                          *)

LEMMA LastSeqIsLength ==
  ASSUME TypeOK, Dense
  PROVE  LastSeq = Len(log)
<1>1. CASE log = <<>>
  BY <1>1 DEF LastSeq
<1>2. CASE log # <<>>
  <2>1. Len(log) \in Nat \ {0}
    BY <1>2, EmptySeq DEF TypeOK
  <2>2. Range(log) = 1 .. Len(log)
    <3>1. DOMAIN log = 1 .. Len(log)
      BY LenProperties DEF TypeOK
    <3> QED
      BY <3>1 DEF Dense, Range
  <2>3. Max(1 .. Len(log)) = Len(log)
    <3>1. /\ Len(log) \in 1 .. Len(log)
          /\ \A y \in 1 .. Len(log) : Len(log) >= y
          /\ \A x \in 1 .. Len(log) :
               (\A y \in 1 .. Len(log) : x >= y) => x = Len(log)
      BY <2>1
    <3> QED
      BY <3>1, Zenon DEF Max
  <2> QED
    BY <1>2, <2>2, <2>3 DEF LastSeq
<1> QED
  BY <1>1, <1>2

LEMMA NumberingInit == Init => NumberingInv
<1> SUFFICES ASSUME Init PROVE NumberingInv
  OBVIOUS
<1>1. Len(log) = 0 /\ log \in Seq(Nat)
  BY EmptySeq DEF Init
<1>2. Event = {}
  BY <1>1 DEF Event
<1>3. <<>> \in Seq(Event)
  BY EmptySeq
<1> QED
  BY <1>1, <1>3 DEF Init, NumberingInv, TypeOK, Dense, Numbering

\* Events stay events when the log grows.
LEMMA EventsGrow ==
  ASSUME log \in Seq(Nat), NEW x \in Nat, log' = Append(log, x)
  PROVE  /\ log' \in Seq(Nat)
         /\ Len(log') = Len(log) + 1
         /\ Event \subseteq Event'
         /\ \A f \in [Sessions -> Seq(Event)] : f \in [Sessions -> Seq(Event')]
<1>1. log' \in Seq(Nat) /\ Len(log') = Len(log) + 1 /\ Len(log) \in Nat
  BY AppendProperties, LenProperties
<1>2. Event \subseteq Event'
  BY <1>1 DEF Event
<1>3. \A q \in Seq(Event) : q \in Seq(Event')
  BY <1>2, SeqMonotonic
<1> QED
  BY <1>1, <1>2, <1>3

\* What a send does to the queue it takes from and to what the client has.
LEMMA SendType ==
  ASSUME TypeOK, NEW s \in Sessions, NEW f \in [Sessions -> Seq(Event)],
         f[s] # <<>>, Delivered(s, Head(f[s])), UNCHANGED log
  PROVE  /\ [f EXCEPT ![s] = Tail(@)] \in [Sessions -> Seq(Event')]
         /\ received' \in [Sessions -> Seq(Event')]
<1>1. Head(f[s]) \in Event /\ Tail(f[s]) \in Seq(Event)
  BY HeadTailProperties
<1>2. Append(received[s], Head(f[s])) \in Seq(Event)
  BY <1>1, AppendProperties DEF TypeOK
<1>3. Event' = Event
  BY DEF Event
<1> QED
  BY <1>1, <1>2, <1>3 DEF TypeOK, Delivered

-----------------------------------------------------------------------------
(* Any number of emitters.                                                 *)

LEMMA RangeAppend ==
  ASSUME NEW S, NEW q \in Seq(S), NEW x \in S
  PROVE  Range(Append(q, x)) = Range(q) \cup {x}
<1> DEFINE v == Append(q, x)
<1>1. /\ Len(q) \in Nat /\ DOMAIN q = 1 .. Len(q) /\ DOMAIN v = 1 .. Len(q) + 1
      /\ v[Len(q) + 1] = x /\ \A i \in 1 .. Len(q) : v[i] = q[i]
  BY AppendProperties, LenProperties
<1>2. \A i \in 1 .. Len(q) + 1 : i \in 1 .. Len(q) \/ i = Len(q) + 1
  BY <1>1
<1>3. 1 .. Len(q) \subseteq 1 .. Len(q) + 1 /\ Len(q) + 1 \in 1 .. Len(q) + 1
  BY <1>1
<1> HIDE DEF v
<1>4. QED
  BY <1>1, <1>2, <1>3 DEF Range, v

LEMMA RangeTail ==
  ASSUME NEW S, NEW q \in Seq(S), q # <<>>
  PROVE  Range(q) = Range(Tail(q)) \cup {Head(q)}
<1> DEFINE v == Tail(q)
<1>1. /\ Len(q) \in Nat \ {0} /\ DOMAIN q = 1 .. Len(q) /\ DOMAIN v = 1 .. Len(q) - 1
      /\ Head(q) = q[1] /\ \A i \in 1 .. Len(q) - 1 : v[i] = q[i + 1]
  BY HeadTailProperties, EmptySeq, LenProperties
<1> HIDE DEF v
<1>2. \A i \in 1 .. Len(q) : i = 1 \/ (i - 1 \in 1 .. Len(q) - 1 /\ (i - 1) + 1 = i)
  BY <1>1
<1>3. \A i \in 1 .. Len(q) - 1 : i + 1 \in 1 .. Len(q)
  BY <1>1
<1>4. ASSUME NEW x \in Range(q) PROVE x \in Range(v) \cup {Head(q)}
  <2>1. PICK i \in 1 .. Len(q) : x = q[i]
    BY <1>1 DEF Range
  <2>2. i = 1 \/ (i - 1 \in DOMAIN v /\ v[i - 1] = x)
    BY <1>1, <1>2, <2>1
  <2>3. QED
    BY <1>1, <2>1, <2>2 DEF Range
<1>5. Range(v) \cup {Head(q)} \subseteq Range(q)
  BY <1>1, <1>3 DEF Range
<1>6. QED
  BY <1>4, <1>5 DEF v

\* What select max(seq) returns.
Top(w) == IF w = <<>> THEN 0 ELSE Max(Range(w))

LEMMA TopIs ==
  ASSUME NEW w \in Seq(Nat), NEW m \in Nat, Range(w) = 1 .. m
  PROVE  Top(w) = m
<1>1. DOMAIN w = 1 .. Len(w) /\ Len(w) \in Nat
  BY LenProperties
<1>2. CASE w = <<>>
  <2>1. Range(w) = {}
    BY <1>1, <1>2, EmptySeq DEF Range
  <2>2. QED
    BY <1>2, <2>1 DEF Top
<1>3. CASE w # <<>>
  <2>1. w[1] \in Range(w)
    BY <1>1, <1>3, EmptySeq DEF Range
  <2>2. m \in 1 .. m
    BY <2>1
  <2>3. /\ \A y \in 1 .. m : m >= y
        /\ \A x \in 1 .. m : (\A y \in 1 .. m : x >= y) => x = m
    BY <2>2
  <2>4. Max(1 .. m) = m
    BY <2>2, <2>3, Zenon DEF Max
  <2>5. QED
    BY <1>3, <2>4 DEF Top
<1>4. QED
  BY <1>2, <1>3

\* The seqs in use are 1, 2, ..., LastSeq: emissions that overlap may give one seq
\* twice, but none is left out.
NoSeqSkipped == LastSeq \in Nat /\ Range(log) = 1 .. LastSeq

\* An emitter holds a maximum that has been one, then an event there is.
Holding == \A e \in Emitters :
  /\ stage[e] = "numbered" => held[e] <= LastSeq
  /\ stage[e] = "stored" => held[e] \in Event

LiveIsSubscribed == \A s \in Sessions : s \in subs <=> handler[s] = "live"

BusInv == TypeOK /\ NoSeqSkipped /\ Holding /\ LiveIsSubscribed

LEMMA BusInit == Init => BusInv
<1> SUFFICES ASSUME Init PROVE BusInv
  OBVIOUS
<1>1. Len(log) = 0 /\ log \in Seq(Nat) /\ DOMAIN log = {}
  BY EmptySeq DEF Init
<1>2. <<>> \in Seq(Event)
  BY EmptySeq
<1>3. NoSeqSkipped
  <2>1. LastSeq = 0 /\ Range(log) = {}
    BY <1>1 DEF Init, LastSeq, Range
  <2>2. QED
    BY <2>1 DEF NoSeqSkipped
<1>4. TypeOK
  BY <1>1, <1>2 DEF Init, TypeOK
<1> QED
  BY <1>3, <1>4 DEF Init, BusInv, Holding, LiveIsSubscribed

\* The row that is added continues the seqs or repeats one.
LEMMA InsertSkipsNone ==
  ASSUME BusInv, NEW e \in Emitters, Insert(e)
  PROVE  NoSeqSkipped' /\ LastSeq <= LastSeq'
<1>1. /\ log \in Seq(Nat) /\ LastSeq \in Nat /\ held[e] \in Nat /\ held[e] <= LastSeq
      /\ Range(log) = 1 .. LastSeq /\ log' = Append(log, held[e] + 1)
  BY DEF BusInv, TypeOK, NoSeqSkipped, Holding, Insert
<1> DEFINE m == IF held[e] + 1 <= LastSeq THEN LastSeq ELSE held[e] + 1
<1>2. m \in Nat /\ LastSeq <= m /\ (1 .. LastSeq) \cup {held[e] + 1} = 1 .. m
  BY <1>1
<1>3. log' \in Seq(Nat) /\ Range(log') = 1 .. m
  <2>1. held[e] + 1 \in Nat
    BY <1>1
  <2>2. Range(log') = Range(log) \cup {held[e] + 1}
    BY <1>1, <2>1, RangeAppend
  <2>3. QED
    BY <1>1, <1>2, <2>1, <2>2, AppendProperties
<1> HIDE DEF m
<1>4. LastSeq' = m
  BY <1>2, <1>3, TopIs DEF LastSeq, Top
<1>5. QED
  BY <1>2, <1>3, <1>4 DEF NoSeqSkipped

LEMMA BusStep ==
  ASSUME BusInv, [Next]_vars
  PROVE  BusInv'
<1> USE DEF BusInv
<1>0. Len(log) \in Nat /\ <<>> \in Seq(Event)
  BY LenProperties, EmptySeq DEF TypeOK
<1>1. ASSUME UNCHANGED log PROVE NoSeqSkipped' /\ LastSeq' = LastSeq /\ Event' = Event
  BY <1>1 DEF NoSeqSkipped, LastSeq, Event
<1>2. ASSUME NEW e \in Emitters, ReadMax(e) PROVE BusInv'
  <2>1. LastSeq \in Nat /\ LastSeq <= LastSeq
    BY DEF NoSeqSkipped
  <2>2. Holding'
    BY <1>1, <1>2, <2>1 DEF ReadMax, Holding, TypeOK
  <2>3. TypeOK'
    BY <1>2, <1>1, <2>1 DEF ReadMax, TypeOK, serving
  <2>4. QED
    BY <1>1, <1>2, <2>2, <2>3 DEF ReadMax, LiveIsSubscribed, serving
<1>3. ASSUME NEW e \in Emitters, Insert(e) PROVE BusInv'
  <2>1. held[e] + 1 \in Nat /\ log' = Append(log, held[e] + 1)
    BY <1>3 DEF Insert, TypeOK
  <2>2. /\ log' \in Seq(Nat) /\ Len(log') = Len(log) + 1 /\ Event \subseteq Event'
        /\ \A f \in [Sessions -> Seq(Event)] : f \in [Sessions -> Seq(Event')]
    BY <2>1, EventsGrow DEF TypeOK
  <2>3. NoSeqSkipped' /\ LastSeq <= LastSeq'
    BY <1>3, InsertSkipsNone
  <2>4. TypeOK'
    <3>1. /\ backlog' \in [Sessions -> Seq(Event')]
          /\ queue' \in [Sessions -> Seq(Event')]
          /\ received' \in [Sessions -> Seq(Event')]
      BY <1>3, <2>2, Zenon DEF Insert, TypeOK, serving
    <3>2. /\ stage' \in [Emitters -> {"idle", "numbered", "stored"}]
          /\ held' \in [Emitters -> Nat]
      BY <1>0, <1>3, <2>2 DEF Insert, TypeOK
    <3>3. untold' \subseteq Event'
      BY <1>3, <2>2 DEF Insert, TypeOK
    <3> QED
      BY <1>3, <2>2, <3>1, <3>2, <3>3 DEF Insert, TypeOK, serving
  <2>5. Holding'
    <3>1. Len(log') \in Event'
      BY <1>0, <2>2 DEF Event
    <3>2. \A x \in Emitters : stage[x] = "numbered" => held[x] <= LastSeq'
      BY <2>3 DEF Holding, NoSeqSkipped, TypeOK
    <3>3. QED
      BY <1>3, <2>2, <3>1, <3>2 DEF Insert, Holding, TypeOK
  <2> QED
    BY <1>3, <2>3, <2>4, <2>5 DEF Insert, LiveIsSubscribed, serving
<1>4. ASSUME NEW e \in Emitters, Publish(e) PROVE BusInv'
  <2>1. held[e] \in Event
    BY <1>4 DEF Publish, Holding
  <2>2. \A s \in Sessions : Append(queue[s], held[e]) \in Seq(Event)
    BY <2>1, AppendProperties DEF TypeOK
  <2>3. queue' \in [Sessions -> Seq(Event)]
    BY <1>4, <2>2 DEF Publish, TypeOK
  <2> QED
    BY <1>1, <1>4, <2>3 DEF Publish, TypeOK, Holding, LiveIsSubscribed
<1>5. ASSUME NEW e \in Emitters, EmitRaises(e) PROVE BusInv'
  <2>1. untold' \subseteq Event
    <3>1. stage[e] = "stored" => held[e] \in Event
      BY <1>5 DEF EmitRaises, Holding
    <3>2. untold \subseteq Event /\ untold' = untold \cup {i \in {held[e]} : stage[e] = "stored"}
      BY <1>5 DEF EmitRaises, TypeOK
    <3> QED
      BY <3>1, <3>2, Zenon
  <2> QED
    BY <1>1, <1>5, <2>1 DEF EmitRaises, TypeOK, Holding, LiveIsSubscribed, serving
<1>6. ASSUME NEW s \in Sessions, Connect(s) PROVE BusInv'
  BY <1>1, <1>6 DEF Connect, TypeOK, Holding, LiveIsSubscribed, emitting
<1>7. ASSUME NEW s \in Sessions, ReadHistory(s) PROVE BusInv'
  <2>1. BySeq \subseteq Seq(Event)
    BY <1>0, SeqDef DEF BySeq, Event
  <2> QED
    BY <1>1, <1>7, <2>1 DEF ReadHistory, TypeOK, Holding, LiveIsSubscribed, emitting
<1>8. ASSUME NEW s \in Sessions, SendReplay(s) PROVE BusInv'
  <2>1. backlog' \in [Sessions -> Seq(Event')] /\ received' \in [Sessions -> Seq(Event')]
    BY <1>8, SendType DEF SendReplay, TypeOK
  <2> QED
    BY <1>1, <1>8, <2>1 DEF SendReplay, TypeOK, Holding, LiveIsSubscribed, emitting
<1>9. ASSUME NEW s \in Sessions, Subscribe(s) PROVE BusInv'
  BY <1>1, <1>9 DEF Subscribe, TypeOK, Holding, LiveIsSubscribed, emitting
<1>10. ASSUME NEW s \in Sessions, Forward(s) PROVE BusInv'
  <2>1. queue' \in [Sessions -> Seq(Event')] /\ received' \in [Sessions -> Seq(Event')]
    BY <1>10, SendType DEF Forward, TypeOK
  <2> QED
    BY <1>1, <1>10, <2>1 DEF Forward, TypeOK, Holding, LiveIsSubscribed, emitting
<1>11. ASSUME NEW s \in Sessions, Close(s) PROVE BusInv'
  BY <1>0, <1>1, <1>11 DEF Close, TypeOK, Holding, LiveIsSubscribed, emitting
<1>12. ASSUME NEW s \in Sessions, Leave(s) PROVE BusInv'
  BY <1>1, <1>12 DEF Leave, TypeOK, Holding, LiveIsSubscribed, emitting
<1>13. CASE Crash
  BY <1>0, <1>1, <1>13 DEF Crash, TypeOK, Holding, LiveIsSubscribed
<1>14. CASE UNCHANGED vars
  BY <1>1, <1>14 DEF vars, TypeOK, Holding, LiveIsSubscribed
<1> QED
  BY <1>2, <1>3, <1>4, <1>5, <1>6, <1>7, <1>8, <1>9, <1>10, <1>11, <1>12, <1>13, <1>14
  DEF Next, Emit, Serve, SendFails, HistoryRaises

\* The rows, the local variables and the queues keep their types, and the seqs in use
\* are 1, 2, ... without a gap, for any number of overlapping executions, failed
\* emissions and restarts: a reader that misses a seq has missed an event
\* (events.py:28-33).
THEOREM SeqsHaveNoGap == Spec => []BusInv
  BY BusInit, BusStep, PTL DEF Spec

\* Among what every client is sent, queued or replayed, there is only what was stored.
THEOREM BusTypes == Spec => []TypeOK
<1>1. BusInv => TypeOK
  BY DEF BusInv
<1>2. QED
  BY <1>1, SeqsHaveNoGap, PTL

-----------------------------------------------------------------------------
(* What a client misses.                                                   *)

\* The events session s has sent or will send, those still to be fanned out, and
\* those that are in neither: a client that catches up has not seen them.
Known(s) == Range(received[s]) \cup Range(backlog[s]) \cup Range(queue[s])
OnTheWay == {held[e] : e \in {x \in Emitters : stage[x] = "stored"}}
Missed(s) == Event \ (Known(s) \cup OnTheWay \cup untold)

\* A session whose client is there misses nothing when it has read the history.  After
\* that it comes to miss an event in one way only: the event is fanned out while
\* the history is being replayed and the queue is not subscribed yet.
OnlyTheGapLoses == [][\A s \in Sessions :
  client'[s] /\ handler'[s] \in {"replaying", "live"} => \A i \in Missed(s)' :
    \/ handler[s] # "accepted" /\ i \in Missed(s)
    \/ handler[s] = "replaying" /\ \E e \in Emitters : Publish(e) /\ held[e] = i]_vars

\* A permutation of the log leaves no row out.
LEMMA BySeqCovers ==
  ASSUME TypeOK, NEW h \in BySeq
  PROVE  Range(h) = Event
<1>1. /\ Len(log) \in Nat /\ h \in [Event -> Event]
      /\ \A i, j \in Event : i < j => h[i] # h[j]
  BY LenProperties DEF BySeq, TypeOK, Event
<1>2. \A i, j \in Event : h[i] = h[j] => i = j
  BY <1>1 DEF Event
<1>3. h \in Injection(Event, Event)
  BY <1>1, <1>2 DEF Injection, IsInjective
<1>4. IsFiniteSet(Event)
  BY <1>1, FS_Interval DEF Event
<1>5. h \in Surjection(Event, Event)
  BY <1>3, <1>4, FS_Injection
<1>6. QED
  BY <1>1, <1>5 DEF Surjection, Range

\* What is not touched keeps what it knows.
LEMMA KnownKept ==
  ASSUME NEW s \in Sessions, received'[s] = received[s], backlog'[s] = backlog[s],
         queue'[s] = queue[s]
  PROVE  Known(s)' = Known(s)
  BY DEF Known

\* What a send takes from the replay or the queue, the client has.
LEMMA SendKeepsKnown ==
  ASSUME TypeOK, NEW s \in Sessions, SendReplay(s) \/ Forward(s), client[s]
  PROVE  Known(s) \subseteq Known(s)'
<1>1. CASE SendReplay(s)
  <2>1. /\ backlog[s] \in Seq(Event) /\ backlog[s] # <<>> /\ received[s] \in Seq(Event)
        /\ backlog'[s] = Tail(backlog[s]) /\ received'[s] = Append(received[s], Head(backlog[s]))
        /\ queue'[s] = queue[s]
    BY <1>1 DEF SendReplay, Delivered, TypeOK
  <2>2. Head(backlog[s]) \in Event
    BY <2>1, HeadTailProperties
  <2>3. QED
    BY <2>1, <2>2, RangeAppend, RangeTail DEF Known
<1>2. CASE Forward(s)
  <2>1. /\ queue[s] \in Seq(Event) /\ queue[s] # <<>> /\ received[s] \in Seq(Event)
        /\ queue'[s] = Tail(queue[s]) /\ received'[s] = Append(received[s], Head(queue[s]))
        /\ backlog'[s] = backlog[s]
    BY <1>2 DEF Forward, Delivered, TypeOK
  <2>2. Head(queue[s]) \in Event
    BY <2>1, HeadTailProperties
  <2>3. QED
    BY <2>1, <2>2, RangeAppend, RangeTail DEF Known
<1>3. QED
  BY <1>1, <1>2

LEMMA GapStep ==
  ASSUME BusInv, Next, NEW s \in Sessions, client'[s], handler'[s] \in {"replaying", "live"},
         NEW i \in Missed(s)'
  PROVE  \/ handler[s] # "accepted" /\ i \in Missed(s)
         \/ handler[s] = "replaying" /\ \E e \in Emitters : Publish(e) /\ held[e] = i
<1> USE DEF BusInv
<1>1. /\ i \in Event' /\ i \notin Known(s)' /\ i \notin OnTheWay' /\ i \notin untold'
      /\ Len(log) \in Nat
  BY LenProperties DEF Missed, TypeOK
<1>2. ASSUME NEW e \in Emitters, ReadMax(e) PROVE handler[s] # "accepted" /\ i \in Missed(s)
  <2>1. Known(s)' = Known(s) /\ handler' = handler
    BY <1>2, KnownKept DEF ReadMax, serving
  <2>2. OnTheWay \subseteq OnTheWay'
    BY <1>2 DEF ReadMax, OnTheWay, TypeOK
  <2>3. QED
    BY <1>1, <1>2, <2>1, <2>2 DEF ReadMax, Missed, Event
<1>3. ASSUME NEW e \in Emitters, Insert(e) PROVE handler[s] # "accepted" /\ i \in Missed(s)
  <2>1. Known(s)' = Known(s) /\ handler' = handler
    BY <1>3, KnownKept DEF Insert, serving
  <2>2. Len(log') = Len(log) + 1
    BY <1>3, AppendProperties DEF Insert, TypeOK
  <2>3. OnTheWay \subseteq OnTheWay' /\ Len(log') \in OnTheWay'
    BY <1>3 DEF Insert, OnTheWay, TypeOK
  <2>4. i \in Event
    BY <1>1, <2>2, <2>3 DEF Event
  <2>5. QED
    BY <1>1, <1>3, <2>1, <2>3, <2>4 DEF Insert, Missed
<1>4. ASSUME NEW e \in Emitters, Publish(e)
      PROVE  \/ handler[s] # "accepted" /\ i \in Missed(s)
             \/ handler[s] = "replaying" /\ held[e] = i
  <2>1. /\ UNCHANGED <<log, handler, received, backlog, untold>> /\ held[e] \in Event
        /\ queue[s] \in Seq(Event)
        /\ queue'[s] = IF s \in subs THEN Append(queue[s], held[e]) ELSE queue[s]
    BY <1>4 DEF Publish, Holding, TypeOK
  <2>2. Known(s)' = IF s \in subs THEN Known(s) \cup {held[e]} ELSE Known(s)
    BY <2>1, RangeAppend DEF Known
  <2>3. OnTheWay \subseteq OnTheWay' \cup {held[e]}
    BY <1>4 DEF Publish, OnTheWay, TypeOK
  <2>4. s \in subs <=> handler[s] = "live"
    BY DEF LiveIsSubscribed
  <2>5. QED
    BY <1>1, <2>1, <2>2, <2>3, <2>4 DEF Missed, Event
<1>5. ASSUME NEW e \in Emitters, EmitRaises(e) PROVE handler[s] # "accepted" /\ i \in Missed(s)
  <2>1. Known(s)' = Known(s) /\ handler' = handler
    BY <1>5, KnownKept DEF EmitRaises, serving
  <2>2. OnTheWay \subseteq OnTheWay' \cup untold' /\ untold \subseteq untold'
    BY <1>5 DEF EmitRaises, OnTheWay, TypeOK
  <2>3. QED
    BY <1>1, <1>5, <2>1, <2>2 DEF EmitRaises, Missed, Event
<1>6. ASSUME NEW q \in Sessions, Connect(q) \/ Serve(q) \/ Leave(q)
      PROVE  handler[s] # "accepted" /\ i \in Missed(s)
  <2>1. OnTheWay' = OnTheWay /\ Event' = Event /\ untold' = untold /\ TypeOK
    BY <1>6 DEF Connect, Serve, ReadHistory, SendReplay, Subscribe, Forward, SendFails,
                HistoryRaises, Close, Leave, emitting, OnTheWay, Event
  <2>2. CASE q # s
    <3>1. /\ received'[s] = received[s] /\ queue'[s] = queue[s] /\ backlog'[s] = backlog[s]
          /\ handler'[s] = handler[s]
      BY <1>6, <2>1, <2>2
      DEF Connect, Serve, ReadHistory, SendReplay, Subscribe, Forward, SendFails,
          HistoryRaises, Close, Leave, Delivered, TypeOK
    <3>2. QED
      BY <1>1, <2>1, <3>1, KnownKept DEF Missed
  <2>3. CASE q = s /\ ReadHistory(s)
    <3>1. PICK h \in BySeq : backlog' = [backlog EXCEPT ![s] = h]
      BY <2>3 DEF ReadHistory
    <3>2. Event \subseteq Known(s)'
      BY <2>1, <3>1, BySeqCovers DEF Known, TypeOK
    <3>3. QED
      BY <1>1, <2>1, <3>2
  <2>4. CASE q = s /\ (SendReplay(s) \/ Forward(s))
    <3>1. client[s] /\ handler[s] # "accepted"
      BY <2>4 DEF SendReplay, Forward
    <3>2. Known(s) \subseteq Known(s)'
      BY <2>1, <2>4, <3>1, SendKeepsKnown
    <3>3. QED
      BY <1>1, <2>1, <3>1, <3>2 DEF Missed
  <2>5. CASE q = s /\ (Subscribe(s) \/ Leave(s))
    <3>1. Known(s)' = Known(s) /\ (Subscribe(s) => handler[s] # "accepted")
      BY <2>5, KnownKept DEF Subscribe, Leave
    <3>2. Leave(s) => handler'[s] = handler[s]
      BY DEF Leave
    <3>3. QED
      BY <1>1, <2>1, <2>5, <3>1, <3>2 DEF Missed
  <2>6. CASE q = s /\ (Connect(s) \/ SendFails(s) \/ HistoryRaises(s))
    BY <2>1, <2>6 DEF Connect, SendFails, HistoryRaises, Close, TypeOK
  <2>7. QED
    BY <1>6, <2>2, <2>3, <2>4, <2>5, <2>6 DEF Serve
<1>7. ~Crash
  BY DEF Crash
<1>8. QED
  BY <1>2, <1>3, <1>4, <1>5, <1>6, <1>7 DEF Next, Emit

\* For any number of executions that emit and of clients, and whatever fails: the only
\* events a client that stays can miss, but for those whose own emission raised, are those
\* fanned out between its history and its queue (ws.py:20-26).  Nothing after the
\* subscription is lost, however late the client is or however many others there are.
THEOREM ClientsMissOnlyTheGap == Spec => OnlyTheGapLoses
<1> DEFINE Lost(s) ==
             client'[s] /\ handler'[s] \in {"replaying", "live"} => \A i \in Missed(s)' :
               \/ handler[s] # "accepted" /\ i \in Missed(s)
               \/ handler[s] = "replaying" /\ \E e \in Emitters : Publish(e) /\ held[e] = i
<1>1. BusInv /\ [Next]_vars => [\A s \in Sessions : Lost(s)]_vars
  BY GapStep
<1>2. QED
  BY <1>1, SeqsHaveNoGap, PTL DEF Spec, OnlyTheGapLoses

-----------------------------------------------------------------------------
(* One emitter.                                                            *)

\* The types are kept whoever steps (BusStep); the rest is changed only by an insertion.
LEMMA NumberingStep ==
  ASSUME NEW e0, Emitters = {e0}, BusInv, NumberingInv, [Next]_vars
  PROVE  NumberingInv'
<1>0. TypeOK' /\ TypeOK /\ Len(log) \in Nat
  BY BusStep, LenProperties DEF BusInv, TypeOK
<1>1. ASSUME NEW e \in Emitters, ReadMax(e) PROVE NumberingInv'
  BY <1>0, <1>1, LastSeqIsLength DEF NumberingInv, ReadMax, TypeOK, Dense, Numbering
<1>2. ASSUME NEW e \in Emitters, Insert(e) PROVE NumberingInv'
  <2>1. log' = Append(log, Len(log) + 1)
    BY <1>2 DEF Insert, NumberingInv, Numbering
  <2>2. Dense'
    BY <1>0, <2>1, AppendProperties DEF NumberingInv, Dense, TypeOK
  <2>3. Len(log') = Len(log) + 1
    BY <1>0, <2>1, AppendProperties DEF TypeOK
  <2>4. Numbering'
    BY <1>0, <1>2, <2>3 DEF Insert, Numbering, TypeOK
  <2>5. QED
    BY <1>0, <2>2, <2>4 DEF NumberingInv
<1>3. ASSUME NEW e \in Emitters, Publish(e) \/ EmitRaises(e) PROVE NumberingInv'
  BY <1>0, <1>3 DEF Publish, EmitRaises, NumberingInv, TypeOK, Dense, Numbering
<1>4. ASSUME NEW s \in Sessions, Connect(s) \/ Serve(s) \/ Leave(s) PROVE NumberingInv'
  <2>1. UNCHANGED <<log, stage, held>>
    BY <1>4 DEF Connect, Serve, ReadHistory, SendReplay, Subscribe, Forward, SendFails,
                HistoryRaises, Close, Leave, emitting
  <2>2. QED
    BY <1>0, <2>1 DEF NumberingInv, Dense, Numbering
<1>5. CASE Crash
  BY <1>0, <1>5 DEF Crash, NumberingInv, Dense, Numbering
<1>6. CASE UNCHANGED vars
  BY <1>0, <1>6 DEF vars, NumberingInv, Dense, Numbering
<1> QED
  BY <1>1, <1>2, <1>3, <1>4, <1>5, <1>6 DEF Next, Emit

-----------------------------------------------------------------------------
(* What a client sees.                                                     *)

Ascending(w) == \A i, j \in 1 .. Len(w) : i < j => w[i] < w[j]
Below(v, w) == \A i \in 1 .. Len(v), j \in 1 .. Len(w) : v[i] < w[j]
UpTo(v, w) == \A i \in 1 .. Len(v), j \in 1 .. Len(w) : v[i] <= w[j]

\* An event is stored that nobody is told of yet: it is the last one.
Pending == \E e \in Emitters : stage[e] = "stored"

\* The replay and the queue are in order, and so is what is received of them.  The
\* queue may begin with the last event received, if none was received twice so far.
Replayed(s) == Ascending(received[s]) /\ Ascending(backlog[s]) /\ Below(received[s], backlog[s])

Followed(s) ==
  /\ Ascending(queue[s]) /\ UpTo(received[s], queue[s])
  /\ Pending => \A j \in 1 .. Len(queue[s]) : queue[s][j] < Len(log)
  /\ Repeats(received[s]) # {} =>
       /\ Below(received[s], queue[s])
       /\ Pending => \A i \in 1 .. Len(received[s]) : received[s][i] < Len(log)

Viewed(s) ==
  /\ AtMostOneTwice(received[s])
  /\ handler[s] \in {"none", "accepted"} => received[s] = <<>>
  /\ handler[s] # "live" => s \notin subs /\ queue[s] = <<>>
  /\ handler[s] = "replaying" => Replayed(s)
  /\ handler[s] = "live" => Followed(s)

ViewedInv == \A s \in Sessions : Viewed(s)

\* A sequence in strict order repeats nothing.
LEMMA AscendingInOrder ==
  ASSUME NEW w \in Seq(Nat), Ascending(w)
  PROVE  AtMostOneTwice(w) /\ Repeats(w) = {}
<1>1. Len(w) \in Nat /\ \A k \in 1 .. Len(w) : w[k] \in Nat
  BY LenProperties, ElementOfSeq
<1>2. \A k \in 2 .. Len(w) : w[k - 1] < w[k]
  BY <1>1 DEF Ascending
<1>3. \A k \in 2 .. Len(w) : w[k - 1] \in Nat /\ w[k] \in Nat
  BY <1>1
<1>4. Repeats(w) = {} /\ InOrder(w)
  BY <1>2, <1>3, SMTT(30) DEF Repeats, InOrder
<1>5. QED
  BY <1>4 DEF AtMostOneTwice

\* An event above all keeps a sequence in strict order.
LEMMA AscendingAppend ==
  ASSUME NEW w \in Seq(Nat), NEW x \in Nat, Ascending(w), \A i \in 1 .. Len(w) : w[i] < x
  PROVE  Ascending(Append(w, x))
  BY AppendProperties, LenProperties DEF Ascending

\* What remains of a sequence in strict order, and where it is.
LEMMA AscendingTail ==
  ASSUME NEW w \in Seq(Nat), w # <<>>, Ascending(w)
  PROVE  /\ Ascending(Tail(w)) /\ Head(w) = w[1] /\ Head(w) \in Nat /\ 1 \in 1 .. Len(w)
         /\ Len(Tail(w)) = Len(w) - 1
         /\ \A j \in 1 .. Len(Tail(w)) : /\ Tail(w)[j] = w[j + 1] /\ j + 1 \in 1 .. Len(w)
                                         /\ Head(w) < Tail(w)[j]
<1>1. /\ Tail(w) \in Seq(Nat) /\ Len(Tail(w)) = Len(w) - 1 /\ Head(w) = w[1]
      /\ \A j \in 1 .. Len(Tail(w)) : Tail(w)[j] = w[j + 1]
      /\ Len(w) \in Nat \ {0} /\ Head(w) \in Nat
  BY HeadTailProperties, EmptySeq, LenProperties
<1>2. \A j \in 1 .. Len(Tail(w)) : j + 1 \in 1 .. Len(w)
  BY <1>1
<1>3. QED
  BY <1>1, <1>2 DEF Ascending

\* An event not below any is received next: it may repeat the last one.
LEMMA ReceivingOnce ==
  ASSUME NEW w \in Seq(Nat), NEW x \in Nat, AtMostOneTwice(w),
         \A i \in 1 .. Len(w) : w[i] <= x,
         Repeats(w) # {} => \A i \in 1 .. Len(w) : w[i] < x
  PROVE  AtMostOneTwice(Append(w, x))
<1> DEFINE v == Append(w, x)
<1>1. /\ Len(w) \in Nat /\ Len(v) = Len(w) + 1 /\ v[Len(w) + 1] = x
      /\ \A i \in 1 .. Len(w) : v[i] = w[i] /\ w[i] \in Nat
  BY AppendProperties, LenProperties, ElementOfSeq
<1> HIDE DEF v
<1>2. \A k \in 2 .. Len(v) : k \in 2 .. Len(w) \/ (k = Len(w) + 1 /\ Len(w) \in 1 .. Len(w))
  BY <1>1
<1>3. InOrder(v)
  BY <1>1, <1>2 DEF InOrder, AtMostOneTwice
<1>4. \A k \in Repeats(v) : k \in Repeats(w) \/ (k = Len(w) + 1 /\ Repeats(w) = {})
  BY <1>1, <1>2, SMTT(30) DEF Repeats
<1>5. QED
  BY <1>3, <1>4 DEF AtMostOneTwice, v

\* What a session holds are numbers, and none is above the last event.
LEMMA Bounded ==
  ASSUME TypeOK, NEW q \in Seq(Event)
  PROVE  /\ q \in Seq(Nat) /\ Len(q) \in Nat /\ Len(log) \in Nat
         /\ \A i \in 1 .. Len(q) : q[i] \in Nat /\ q[i] <= Len(log)
<1>1. Len(log) \in Nat /\ Event \subseteq Nat
  BY LenProperties DEF TypeOK, Event
<1>2. q \in Seq(Nat) /\ Len(q) \in Nat
  BY <1>1, SeqMonotonic, LenProperties
<1>3. \A i \in 1 .. Len(q) : q[i] \in Event
  BY ElementOfSeq
<1>4. QED
  BY <1>1, <1>2, <1>3 DEF Event

LEMMA BoundedAll ==
  ASSUME TypeOK, NEW s \in Sessions
  PROVE  /\ Len(log) \in Nat
         /\ received[s] \in Seq(Nat) /\ queue[s] \in Seq(Nat) /\ backlog[s] \in Seq(Nat)
         /\ Len(received[s]) \in Nat /\ Len(queue[s]) \in Nat
         /\ \A i \in 1 .. Len(received[s]) : received[s][i] \in Nat /\ received[s][i] <= Len(log)
         /\ \A i \in 1 .. Len(queue[s]) : queue[s][i] \in Nat /\ queue[s][i] <= Len(log)
<1>1. received[s] \in Seq(Event) /\ queue[s] \in Seq(Event) /\ backlog[s] \in Seq(Event)
  BY DEF TypeOK
<1>2. QED
  BY <1>1, Bounded

\* What does not touch a session, tells of no event and stores none, leaves its view.
LEMMA ViewKept ==
  ASSUME NEW s \in Sessions, Viewed(s), Pending' => Pending, UNCHANGED log,
         received'[s] = received[s], queue'[s] = queue[s], backlog'[s] = backlog[s],
         handler'[s] = handler[s], s \in subs' => s \in subs
  PROVE  Viewed(s)'
  BY DEF Viewed, Replayed, Followed

\* A new event is above all that was seen or is queued.
LEMMA ViewAfterInsert ==
  ASSUME NEW s \in Sessions, TypeOK, Viewed(s), Len(log') = Len(log) + 1, UNCHANGED serving
  PROVE  Viewed(s)'
<1>1. UNCHANGED <<received, queue, backlog, handler, subs>>
  BY DEF serving
<1>2. Len(log) \in Nat
      /\ (\A i \in 1 .. Len(received[s]) : received[s][i] < Len(log'))
      /\ (\A i \in 1 .. Len(queue[s]) : queue[s][i] < Len(log'))
  BY BoundedAll
<1>3. Followed(s) => Followed(s)'
  BY <1>1, <1>2 DEF Followed
<1>4. QED
  BY <1>1, <1>3 DEF Viewed, Replayed

\* The one event stored is published: it is above the queue, and the end of the log.
LEMMA ViewAfterPublish ==
  ASSUME NEW e0, Emitters = {e0}, NumberingInv, Publish(e0), NEW s \in Sessions, Viewed(s)
  PROVE  Viewed(s)'
<1>1. /\ Pending /\ ~Pending' /\ held[e0] = Len(log) /\ TypeOK
      /\ UNCHANGED <<log, handler, backlog, subs, received>>
      /\ queue'[s] = IF s \in subs THEN Append(queue[s], Len(log)) ELSE queue[s]
  BY DEF Publish, NumberingInv, Numbering, Pending, TypeOK
<1>2. CASE s \notin subs
  BY <1>1, <1>2, ViewKept
<1>3. CASE s \in subs
  <2>1. handler[s] = "live" /\ Followed(s)
    BY <1>3 DEF Viewed
  <2>2. Ascending(queue'[s])
    BY <1>1, <1>3, <2>1, BoundedAll, AscendingAppend DEF Followed
  <2>3. /\ \A j \in 1 .. Len(queue'[s]) :
             \/ j \in 1 .. Len(queue[s]) /\ queue'[s][j] = queue[s][j]
             \/ queue'[s][j] = Len(log)
    <3>1. queue[s] \in Seq(Nat) /\ Len(log) \in Nat /\ queue'[s] = Append(queue[s], Len(log))
      BY <1>1, <1>3, BoundedAll
    <3>2. /\ Len(queue[s]) \in Nat /\ Len(queue'[s]) = Len(queue[s]) + 1
          /\ \A j \in 1 .. Len(queue[s]) : queue'[s][j] = queue[s][j]
          /\ queue'[s][Len(queue[s]) + 1] = Len(log)
      BY <3>1, AppendProperties, LenProperties
    <3>3. QED
      BY <3>2
  <2>4. UpTo(received[s], queue'[s])
    BY <1>1, <2>1, <2>3, BoundedAll DEF UpTo, Followed
  <2>5. Repeats(received[s]) # {} => Below(received[s], queue'[s])
    BY <1>1, <2>1, <2>3 DEF Below, Followed
  <2>6. Followed(s)'
    BY <1>1, <2>2, <2>4, <2>5 DEF Followed
  <2>7. QED
    BY <1>1, <1>3, <2>1, <2>6 DEF Viewed
<1>4. QED
  BY <1>2, <1>3

\* The history is read in the order of the seqs, which is that of the commits.
LEMMA ViewAfterRead ==
  ASSUME NumberingInv, NEW s \in Sessions, Viewed(s), ReadHistory(s)
  PROVE  Viewed(s)'
<1>1. /\ received[s] = <<>> /\ queue[s] = <<>> /\ s \notin subs /\ handler'[s] = "replaying"
      /\ UNCHANGED <<log, stage, subs, queue, received>>
  BY DEF ReadHistory, Viewed, NumberingInv, TypeOK, emitting
<1>2. PICK h \in BySeq : backlog' = [backlog EXCEPT ![s] = h]
  BY DEF ReadHistory
<1>3. backlog'[s] = h /\ Len(log) \in Nat
  BY <1>2, LenProperties DEF NumberingInv, TypeOK
<1>4. h \in [1 .. Len(log) -> 1 .. Len(log)] /\ Len(h) = Len(log)
  BY <1>3 DEF BySeq
<1>5. \A i, j \in 1 .. Len(log) : i < j => h[i] # h[j] /\ h[i] <= h[j]
  BY <1>4 DEF BySeq, NumberingInv, Dense
<1>6. Ascending(h)
  <2>1. SUFFICES ASSUME NEW i \in 1 .. Len(log), NEW j \in 1 .. Len(log), i < j
                 PROVE  h[i] < h[j]
    BY <1>4 DEF Ascending
  <2>2. h[i] \in Nat /\ h[j] \in Nat /\ h[i] # h[j] /\ h[i] <= h[j]
    BY <1>3, <1>4, <1>5, <2>1
  <2>3. QED
    BY <2>2
<1>7. Len(<<>>) = 0
  BY EmptySeq
<1>8. Replayed(s)' /\ AtMostOneTwice(<<>>)
  BY <1>1, <1>3, <1>6, <1>7 DEF Replayed, Ascending, Below, AtMostOneTwice, InOrder, Repeats
<1>9. QED
  BY <1>1, <1>8 DEF Viewed

\* What is sent next of the replay is above what was sent before.
LEMMA ViewAfterReplay ==
  ASSUME TypeOK, NEW s \in Sessions, Viewed(s), SendReplay(s)
  PROVE  Viewed(s)'
<1>1. /\ handler[s] = "replaying" /\ Replayed(s) /\ backlog[s] # <<>>
      /\ s \notin subs /\ queue[s] = <<>>
      /\ UNCHANGED <<log, stage, handler, subs, queue>>
      /\ backlog'[s] = Tail(backlog[s])
      /\ received'[s] = IF client[s] THEN Append(received[s], Head(backlog[s])) ELSE received[s]
  BY DEF SendReplay, Delivered, Viewed, TypeOK, emitting
<1> DEFINE x == Head(backlog[s])
<1>2. /\ Ascending(backlog'[s]) /\ x = backlog[s][1] /\ x \in Nat /\ 1 \in 1 .. Len(backlog[s])
      /\ \A j \in 1 .. Len(backlog'[s]) : /\ backlog'[s][j] = backlog[s][j + 1]
                                          /\ j + 1 \in 1 .. Len(backlog[s])
                                          /\ x < backlog'[s][j]
  BY <1>1, AscendingTail, BoundedAll DEF Replayed
<1>3. received[s] \in Seq(Nat) /\ \A i \in 1 .. Len(received[s]) : received[s][i] < x
  BY <1>1, <1>2, BoundedAll DEF Replayed, Below
<1>4. Below(received[s], backlog'[s])
  BY <1>1, <1>2 DEF Replayed, Below
<1>5. Ascending(received'[s]) /\ Below(received'[s], backlog'[s]) /\ received'[s] \in Seq(Nat)
  <2>1. CASE ~client[s]
    BY <1>1, <1>3, <1>4, <2>1 DEF Replayed
  <2>2. CASE client[s]
    <3>1. received'[s] = Append(received[s], x)
      BY <1>1, <2>2
    <3>2. /\ received'[s] \in Seq(Nat) /\ Len(received'[s]) = Len(received[s]) + 1
          /\ Len(received[s]) \in Nat
          /\ \A i \in 1 .. Len(received[s]) : received'[s][i] = received[s][i]
          /\ received'[s][Len(received[s]) + 1] = x
      BY <1>2, <1>3, <3>1, AppendProperties, LenProperties
    <3>3. Ascending(received'[s])
      BY <1>1, <1>2, <1>3, <3>1, AscendingAppend DEF Replayed
    <3>4. \A i \in 1 .. Len(received'[s]) :
            \/ i \in 1 .. Len(received[s]) /\ received'[s][i] = received[s][i]
            \/ received'[s][i] = x
      BY <3>2
    <3>5. Below(received'[s], backlog'[s])
      BY <1>2, <1>4, <3>4 DEF Below
    <3>6. QED
      BY <3>2, <3>3, <3>5
  <2>3. QED
    BY <2>1, <2>2
<1>6. AtMostOneTwice(received'[s])
  BY <1>5, AscendingInOrder
<1>7. Replayed(s)'
  BY <1>2, <1>5 DEF Replayed
<1>8. handler'[s] = "replaying" /\ s \notin subs' /\ queue'[s] = <<>>
  BY <1>1
<1>9. QED
  BY <1>6, <1>7, <1>8 DEF Viewed

\* The live part begins with an empty queue, after a replay that repeats nothing.
LEMMA ViewAfterSubscribe ==
  ASSUME TypeOK, NEW s \in Sessions, Viewed(s), Subscribe(s)
  PROVE  Viewed(s)'
<1>1. /\ Ascending(received[s]) /\ queue[s] = <<>> /\ handler'[s] = "live"
      /\ UNCHANGED <<log, stage, queue, received>>
  BY DEF Subscribe, Viewed, Replayed, TypeOK, emitting
<1>2. AtMostOneTwice(received[s]) /\ Repeats(received[s]) = {}
  BY <1>1, BoundedAll, AscendingInOrder
<1>3. Len(<<>>) = 0
  BY EmptySeq
<1>4. Followed(s)'
  BY <1>1, <1>2, <1>3 DEF Followed, Ascending, UpTo
<1>5. QED
  BY <1>1, <1>2, <1>4 DEF Viewed

\* What is forwarded is below the rest of the queue, so it cannot be repeated by it.
LEMMA ViewAfterForward ==
  ASSUME TypeOK, NEW s \in Sessions, Viewed(s), Forward(s)
  PROVE  Viewed(s)'
<1>1. /\ handler[s] = "live" /\ Followed(s) /\ queue[s] # <<>>
      /\ UNCHANGED <<log, stage, handler, subs, backlog>>
      /\ queue'[s] = Tail(queue[s])
      /\ received'[s] = IF client[s] THEN Append(received[s], Head(queue[s])) ELSE received[s]
  BY DEF Forward, Delivered, Viewed, TypeOK, emitting
<1> DEFINE x == Head(queue[s])
<1>2. /\ Ascending(queue'[s]) /\ x = queue[s][1] /\ x \in Nat /\ 1 \in 1 .. Len(queue[s])
      /\ \A j \in 1 .. Len(queue'[s]) : /\ queue'[s][j] = queue[s][j + 1]
                                        /\ j + 1 \in 1 .. Len(queue[s])
                                        /\ x < queue'[s][j]
  BY <1>1, AscendingTail, BoundedAll DEF Followed
<1> HIDE DEF x
<1>3. /\ received[s] \in Seq(Nat) /\ Len(log) \in Nat
      /\ \A i \in 1 .. Len(received[s]) : received[s][i] \in Nat /\ received[s][i] <= x
      /\ Repeats(received[s]) # {} => \A i \in 1 .. Len(received[s]) : received[s][i] < x
      /\ Pending => x < Len(log)
  BY <1>1, <1>2, BoundedAll DEF Followed, UpTo, Below
<1>4. /\ UpTo(received[s], queue'[s])
      /\ Repeats(received[s]) # {} => Below(received[s], queue'[s])
      /\ Pending => \A j \in 1 .. Len(queue'[s]) : queue'[s][j] < Len(log)
  BY <1>1, <1>2 DEF Followed, UpTo, Below
<1>5. Pending' <=> Pending
  BY <1>1 DEF Pending
<1>6. CASE ~client[s]
  <2>1. Followed(s)'
    BY <1>1, <1>2, <1>4, <1>5, <1>6 DEF Followed
  <2>2. QED
    BY <1>1, <1>6, <2>1 DEF Viewed
<1>7. CASE client[s]
  <2>1. received'[s] = Append(received[s], x)
    BY <1>1, <1>7 DEF x
  <2>2. /\ Len(received'[s]) = Len(received[s]) + 1 /\ Len(received[s]) \in Nat
        /\ \A i \in 1 .. Len(received[s]) : received'[s][i] = received[s][i]
        /\ received'[s][Len(received[s]) + 1] = x
    BY <1>2, <1>3, <2>1, AppendProperties, LenProperties
  <2>3. \A i \in 1 .. Len(received'[s]) : received'[s][i] \in Nat /\ received'[s][i] <= x
    <3>1. \A i \in 1 .. Len(received'[s]) :
            \/ i \in 1 .. Len(received[s]) /\ received'[s][i] = received[s][i]
            \/ received'[s][i] = x
      BY <2>2
    <3>2. x \in Nat /\ x <= x
      BY <1>2
    <3>3. QED
      BY <1>3, <3>1, <3>2
  <2>4. queue'[s] \in Seq(Nat) /\ \A j \in 1 .. Len(queue'[s]) : queue'[s][j] \in Nat
    <3>1. queue'[s] \in Seq(Nat)
      BY <1>1, BoundedAll, HeadTailProperties
    <3>2. QED
      BY <3>1, ElementOfSeq
  <2>5. Below(received'[s], queue'[s])
    <3>1. SUFFICES ASSUME NEW i \in 1 .. Len(received'[s]), NEW j \in 1 .. Len(queue'[s])
                   PROVE  received'[s][i] < queue'[s][j]
      BY DEF Below
    <3>2. received'[s][i] \in Nat /\ received'[s][i] <= x /\ x \in Nat
      BY <1>2, <2>3
    <3>3. queue'[s][j] \in Nat /\ x < queue'[s][j]
      BY <1>2, <2>4
    <3>4. QED
      BY <3>2, <3>3
  <2>6. UpTo(received'[s], queue'[s])
    BY <2>3, <2>4, <2>5 DEF Below, UpTo
  <2>7. Pending => \A i \in 1 .. Len(received'[s]) : received'[s][i] < Len(log)
    BY <1>2, <1>3, <2>3
  <2>8. Followed(s)'
    BY <1>1, <1>2, <1>4, <1>5, <2>5, <2>6, <2>7 DEF Followed
  <2>9. AtMostOneTwice(received'[s])
    BY <1>1, <1>2, <1>3, <2>1, ReceivingOnce DEF Viewed
  <2>10. QED
    BY <1>1, <2>8, <2>9 DEF Viewed
<1>8. QED
  BY <1>6, <1>7

LEMMA ViewedStep ==
  ASSUME NEW e0, Emitters = {e0}, NumberingInv, ViewedInv, [Next]_vars
  PROVE  ViewedInv'
<1> SUFFICES ASSUME NEW s \in Sessions PROVE Viewed(s)'
  BY DEF ViewedInv
<1>1. Viewed(s) /\ TypeOK
  BY DEF ViewedInv, NumberingInv
<1>2. CASE ReadMax(e0) \/ EmitRaises(e0)
  <2>1. (Pending' => Pending) /\ UNCHANGED <<log, serving>>
    BY <1>1, <1>2 DEF ReadMax, EmitRaises, Pending, TypeOK
  <2>2. QED
    BY <1>1, <2>1, ViewKept DEF serving
<1>3. CASE Insert(e0)
  <2>1. Len(log') = Len(log) + 1 /\ UNCHANGED serving
    BY <1>1, <1>3, AppendProperties DEF Insert, TypeOK
  <2>2. QED
    BY <1>1, <2>1, ViewAfterInsert
<1>4. CASE Publish(e0)
  BY <1>1, <1>4, ViewAfterPublish
<1>5. ASSUME NEW q \in Sessions, Connect(q) \/ Serve(q) \/ Leave(q)
      PROVE  Viewed(s)'
  <2>1. UNCHANGED <<log, stage>> /\ (Pending' <=> Pending)
    BY <1>5 DEF Connect, Serve, ReadHistory, SendReplay, Subscribe, Forward, SendFails,
                HistoryRaises, Close, Leave, emitting, Pending
  <2>2. CASE q # s
    <3>1. /\ received'[s] = received[s] /\ queue'[s] = queue[s] /\ backlog'[s] = backlog[s]
          /\ handler'[s] = handler[s] /\ (s \in subs' => s \in subs)
      BY <1>1, <1>5, <2>2
      DEF Connect, Serve, ReadHistory, SendReplay, Subscribe, Forward, SendFails,
          HistoryRaises, Close, Leave, Delivered, TypeOK
    <3>2. QED
      BY <1>1, <2>1, <3>1, ViewKept
  <2>3. CASE q = s
    <3>1. CASE Connect(s)
      BY <1>1, <3>1 DEF Connect, Viewed, TypeOK
    <3>2. CASE Leave(s)
      BY <1>1, <2>1, <3>2, ViewKept DEF Leave
    <3>3. CASE SendFails(s) \/ HistoryRaises(s)
      BY <1>1, <3>3 DEF SendFails, HistoryRaises, Close, Viewed, TypeOK
    <3>4. QED
      BY <1>1, <1>5, <2>3, <3>1, <3>2, <3>3, ViewAfterRead, ViewAfterReplay,
         ViewAfterSubscribe, ViewAfterForward
         DEF Serve
  <2>4. QED
    BY <2>2, <2>3
<1>6. CASE Crash
  BY <1>1, <1>6 DEF Crash, Viewed, TypeOK
<1>7. CASE UNCHANGED vars
  BY <1>1, <1>7 DEF vars, Viewed, Replayed, Followed, Pending
<1>8. QED
  BY <1>2, <1>3, <1>4, <1>5, <1>6, <1>7 DEF Next, Emit

-----------------------------------------------------------------------------
(* The theorems.                                                           *)

\* With one emitter event i has seq i, and an emitter never works with a stale maximum
\* (events.py:28-33).
THEOREM NumberingHolds ==
  ASSUME NEW e0, Emitters = {e0}
  PROVE  Spec => []NumberingInv
<1>1. Init => NumberingInv
  BY NumberingInit
<1>2. BusInv /\ NumberingInv /\ [Next]_vars => NumberingInv'
  BY NumberingStep
<1> QED
  BY <1>1, <1>2, SeqsHaveNoGap, PTL DEF Spec

\* With one emitter the persisted events of a run are the timeline of module
\* RunTimeline, across failed emissions and restarts.
THEOREM TimelineKept ==
  ASSUME NEW e0, Emitters = {e0}
  PROVE  Spec => ImplementsTimeline
<1>1. Init => Timeline!Init
  BY DEF Init, Timeline!Init
<1>2. NumberingInv /\ [Next]_vars => [Timeline!Record]_log
  <2> SUFFICES ASSUME NumberingInv, [Next]_vars PROVE [Timeline!Record]_log
    OBVIOUS
  <2>1. ASSUME NEW e \in Emitters, Insert(e) PROVE Timeline!Record
    BY <2>1 DEF NumberingInv, Numbering, Insert, Timeline!Record
  <2>2. ASSUME NEW e \in Emitters, ReadMax(e) \/ Publish(e) \/ EmitRaises(e)
        PROVE  UNCHANGED log
    BY <2>2 DEF ReadMax, Publish, EmitRaises
  <2>3. ASSUME NEW s \in Sessions, Connect(s) \/ Serve(s) \/ Leave(s) PROVE UNCHANGED log
    BY <2>3 DEF Connect, Serve, ReadHistory, SendReplay, Subscribe, Forward,
                SendFails, HistoryRaises, Close, Leave
  <2>4. Crash \/ UNCHANGED vars => UNCHANGED log
    BY DEF Crash, vars
  <2> QED
    BY <2>1, <2>2, <2>3, <2>4 DEF Next, Emit
<1> QED
  BY <1>1, <1>2, NumberingHolds, PTL DEF Spec, ImplementsTimeline, Timeline!Spec

\* With one emitter a client is sent the events in order, and at most one of them twice,
\* whenever it connects, whatever fails or is restarted, and however far it lags behind.
THEOREM SentInOrder ==
  ASSUME NEW e0, Emitters = {e0}
  PROVE  Spec => []ReceivedInOrder
<1>1. Init => ViewedInv
  <2>1. Len(<<>>) = 0
    BY EmptySeq
  <2>2. AtMostOneTwice(<<>>)
    BY <2>1 DEF AtMostOneTwice, InOrder, Repeats
  <2>3. QED
    BY <2>2 DEF Init, ViewedInv, Viewed
<1>2. NumberingInv /\ ViewedInv /\ [Next]_vars => ViewedInv'
  BY ViewedStep
<1>3. ViewedInv => ReceivedInOrder
  BY DEF ViewedInv, Viewed, ReceivedInOrder
<1>4. QED
  BY <1>1, <1>2, <1>3, NumberingHolds, PTL DEF Spec
=============================================================================
