---------------------------- MODULE StreamProofs ---------------------------
(***************************************************************************)
(* Proofs about EventStream: the two streams of a lazily loaded provider,  *)
(* put together, are one channel.                                          *)
(***************************************************************************)
EXTENDS MCParts, TLAPS

Sides == {"inner", "outer"}
Events == 0..MaxDeltas

StreamRecord == [queue : Seq(Events), waiting : Seq(Streams!Iterations),
                 done : BOOLEAN, result : {Nothing, Streams!Complete}]
LogRecord == [accepted : Seq(Events), handed : Seq(Events)]
ReaderRecord == [pc : {"idle", "waiting", "resumed", "body", "returned", "over"},
                 event : Events \cup {Nothing}]

StreamTypes ==
    /\ stream \in [Sides -> StreamRecord]
    /\ log \in [Sides -> LogRecord]
    /\ reader \in [Streams!Iterations -> ReaderRecord]
    /\ loading \in {"loading", "loaded", "failed", "ended", "over"}

\* What a stream has accepted it has handed out or keeps in its queue; nobody waits
\* beside a queue; the waiters are iterations of this stream, each waiting once.
StreamOK(s) ==
    LET waiting == stream[s].waiting IN
    /\ log[s].accepted = log[s].handed \o stream[s].queue
    /\ stream[s].queue # <<>> => waiting = <<>>
    /\ \A k \in DOMAIN waiting : Streams!Reads(waiting[k]) = s /\ reader[waiting[k]].pc = "waiting"
    /\ \A k, l \in DOMAIN waiting : waiting[k] = waiting[l] => k = l

\* An iteration that goes on has an event; one that is told of the end has left
\* nothing behind.
IterationOK(i) ==
    /\ reader[i].pc = "body" => reader[i].event \in Events
    /\ (reader[i].pc = "resumed" /\ reader[i].event = Nothing)
          \/ (i = Forwarder /\ reader[i].pc \in {"returned", "over"})
       => stream[Streams!Reads(i)].done /\ stream[Streams!Reads(i)].queue = <<>>

\* The event that forwardStream has taken and not yet pushed.
Held ==
    IF reader[Forwarder].pc = "body"
          \/ (reader[Forwarder].pc = "resumed" /\ reader[Forwarder].event # Nothing)
    THEN <<reader[Forwarder].event>> ELSE <<>>

\* Nothing follows the event that completes a provider's stream.
CompleteIsLast ==
    \A k \in DOMAIN log["inner"].accepted : log["inner"].accepted[k] = Streams!Complete =>
        k = Len(log["inner"].accepted) /\ stream["inner"].done

\* Of a provider that has not loaded, nothing has come.
NothingYet ==
    loading \in {"loading", "failed", "over"} =>
        /\ log["inner"].accepted = <<>> /\ log["inner"].handed = <<>> /\ ~stream["inner"].done
        /\ reader[Forwarder].pc = "idle"

\* The outer stream has accepted what forwardStream took, but for the event it holds,
\* and it is closed when nothing will follow.
Forwarding ==
    ~Streams!Failed =>
        /\ log["inner"].handed = log["outer"].accepted \o Held
        /\ stream["outer"].done => Held = <<>> /\ stream["inner"].done /\ stream["inner"].queue = <<>>

StreamInv ==
    /\ StreamTypes
    /\ \A s \in Sides : StreamOK(s)
    /\ \A i \in Streams!Iterations : IterationOK(i)
    /\ CompleteIsLast /\ NothingYet /\ Forwarding

-----------------------------------------------------------------------------

(* Operators.                                                              *)

\* The event that completes a stream is one; no event is none.
LEMMA CompleteIsEvent == Streams!Complete \in Events /\ Nothing \notin Events
BY StreamAssumption DEF Streams!Complete, Events

\* The parts of a sequence that is not empty.
LEMMA HeadAndTail ==
    ASSUME NEW S, NEW q \in Seq(S), q # <<>>
    PROVE  /\ Head(q) \in S /\ Tail(q) \in Seq(S) /\ Head(q) = q[1]
           /\ \A h \in Seq(S) : h \o q = Append(h, Head(q)) \o Tail(q)
           /\ 1 \in DOMAIN q /\ DOMAIN Tail(q) \subseteq Nat
           /\ \A k \in DOMAIN Tail(q) : k + 1 \in DOMAIN q /\ Tail(q)[k] = q[k + 1] /\ k + 1 # 1
<1>1. Len(q) \in Nat \ {0} /\ DOMAIN q = 1..Len(q)
  OBVIOUS
<1>2. Tail(q) \in Seq(S) /\ Len(Tail(q)) = Len(q) - 1
  BY <1>1
<1>3. Head(q) \in S /\ Head(q) = q[1]
  BY <1>1
<1>4. DOMAIN Tail(q) = 1..Len(q) - 1 /\ \A k \in 1..Len(q) - 1 : Tail(q)[k] = q[k + 1]
  BY <1>1, <1>2
<1>5. ASSUME NEW h \in Seq(S)
      PROVE  h \o q = Append(h, Head(q)) \o Tail(q)
  <2> DEFINE a == h \o q
             b == Append(h, Head(q)) \o Tail(q)
  <2>1. /\ a \in Seq(S) /\ Len(a) = Len(h) + Len(q)
        /\ Append(h, Head(q)) \in Seq(S) /\ Len(Append(h, Head(q))) = Len(h) + 1
        /\ b \in Seq(S) /\ Len(b) = Len(h) + 1 + (Len(q) - 1)
    BY <1>2, <1>3
  <2>2. Len(a) = Len(b)
    BY <1>1, <2>1
  <2>3. ASSUME NEW k \in 1..Len(a)
        PROVE  a[k] = b[k]
    <3>1. CASE k <= Len(h)
      BY <3>1, <1>2, <1>3, <2>1
    <3>2. CASE k = Len(h) + 1
      BY <3>2, <1>1, <1>2, <1>3, <2>1
    <3>3. CASE k > Len(h) + 1
      <4>1. a[k] = q[k - Len(h)]
        BY <3>3, <2>1
      <4>2. b[k] = Tail(q)[k - (Len(h) + 1)]
        BY <3>3, <2>1, <2>2, <1>2
      <4>3. k - (Len(h) + 1) \in 1..Len(q) - 1 /\ k - (Len(h) + 1) + 1 = k - Len(h)
        BY <3>3, <2>1, <1>1
      <4> QED BY <4>1, <4>2, <4>3, <1>4
    <3> QED BY <3>1, <3>2, <3>3, <2>1
  <2> QED BY <2>1, <2>2, <2>3
<1>6. \A k \in 1..Len(q) - 1 : k + 1 \in 1..Len(q) /\ k + 1 # 1
  BY <1>1
<1> QED BY <1>1, <1>2, <1>3, <1>4, <1>5, <1>6

\* Appending to the second of two sequences.
LEMMA AppendBehind ==
    ASSUME NEW h \in Seq(Events), NEW q \in Seq(Events), NEW e \in Events
    PROVE  Append(h \o q, e) = h \o Append(q, e)
<1> DEFINE a == Append(h \o q, e)
           b == h \o Append(q, e)
<1>1. /\ h \o q \in Seq(Events) /\ Append(q, e) \in Seq(Events) /\ a \in Seq(Events) /\ b \in Seq(Events)
      /\ Len(a) = Len(h) + Len(q) + 1 /\ Len(b) = Len(h) + (Len(q) + 1)
  OBVIOUS
<1>2. Len(a) = Len(b)
  BY <1>1
<1>3. ASSUME NEW k \in 1..Len(a)
      PROVE  a[k] = b[k]
  <2>1. CASE k <= Len(h)
    BY <2>1, <1>1
  <2>2. CASE k > Len(h) /\ k <= Len(h) + Len(q)
    BY <2>2, <1>1
  <2>3. CASE k = Len(h) + Len(q) + 1
    BY <2>3, <1>1
  <2> QED BY <2>1, <2>2, <2>3, <1>1
<1> QED BY <1>1, <1>2, <1>3

\* Two sequences that are empty together, and a first one that is not.
LEMMA NothingTogether ==
    ASSUME NEW a \in Seq(Events), NEW b \in Seq(Events), <<>> = a \o b
    PROVE  a = <<>> /\ b = <<>>
<1>1. Len(a \o b) = Len(a) + Len(b) /\ Len(a) \in Nat /\ Len(b) \in Nat
  OBVIOUS
<1>2. Len(a) = 0 /\ Len(b) = 0
  BY <1>1
<1> QED BY <1>2

\* A first sequence that is not empty, with one behind it.
LEMMA FirstOfTwo ==
    ASSUME NEW a \in Seq(Events), NEW b \in Seq(Events), a # <<>>
    PROVE  /\ Len(a) \in DOMAIN (a \o b) /\ (a \o b)[Len(a)] = a[Len(a)]
           /\ Len(a) = Len(a \o b) => b = <<>>
<1>1. /\ Len(a \o b) = Len(a) + Len(b) /\ Len(a) \in Nat \ {0} /\ Len(b) \in Nat
      /\ a \o b \in Seq(Events)
  OBVIOUS
<1>2. Len(a) \in DOMAIN (a \o b) /\ (a \o b)[Len(a)] = a[Len(a)]
  BY <1>1
<1>3. Len(a) = Len(a \o b) => Len(b) = 0
  BY <1>1
<1> QED BY <1>2, <1>3

\* The state that an operation works on has every waiter waiting.
StateOK(state) ==
    /\ state \in [Streams!Iterations -> ReaderRecord]
    /\ \A i \in Streams!Iterations : reader[i].pc = "waiting" => state[i] = reader[i]

\* What push() does: nothing to a closed stream; otherwise the event goes to the
\* oldest waiter, or behind the others of the queue.
Accepts(s, e, state) ==
    LET old == stream[s] IN
    /\ stream[s].done => stream' = stream /\ log' = log /\ reader' = state
    /\ ~stream[s].done =>
          /\ log'[s].accepted = Append(log[s].accepted, e)
          /\ stream'[s].done = (e = Streams!Complete)
          /\ IF old.waiting = <<>>
             THEN /\ reader' = state /\ stream'[s].queue = Append(old.queue, e)
                  /\ log'[s].handed = log[s].handed
             ELSE /\ old.queue = <<>> /\ stream'[s].queue = <<>>
                  /\ log'[s].handed = Append(log[s].handed, e)
                  /\ reader' = [state EXCEPT ![Head(old.waiting)] = [pc |-> "resumed", event |-> e]]
                  /\ Head(old.waiting) \in Streams!Iterations /\ Streams!Reads(Head(old.waiting)) = s
                  /\ reader[Head(old.waiting)].pc = "waiting"

\* push() keeps every stream well formed, and does what Accepts says.
LEMMA PushStep ==
    ASSUME StreamTypes, \A t \in Sides : StreamOK(t), NEW s \in Sides, NEW e \in Events,
           NEW state, StateOK(state), Streams!Push(s, e, state)
    PROVE  /\ stream' \in [Sides -> StreamRecord] /\ log' \in [Sides -> LogRecord]
           /\ reader' \in [Streams!Iterations -> ReaderRecord]
           /\ \A t \in Sides : StreamOK(t)'
           /\ \A t \in Sides : t # s => stream'[t] = stream[t] /\ log'[t] = log[t]
           /\ Accepts(s, e, state)
<1> DEFINE old == stream[s]
           w == old.waiting
           hand == ~old.done /\ w # <<>>
           new == Streams!Pushed(old, e)
           told == [pc |-> "resumed", event |-> e]
<1>1. /\ stream' = [stream EXCEPT ![s] = new]
      /\ reader' = IF hand THEN [state EXCEPT ![Head(w)] = told] ELSE state
      /\ log' = [log EXCEPT ![s].accepted = IF old.done THEN @ ELSE Append(@, e),
                            ![s].handed = IF hand THEN Append(@, e) ELSE @]
  BY DEF Streams!Push
<1>2. /\ old \in StreamRecord /\ w \in Seq(Streams!Iterations) /\ old.queue \in Seq(Events)
      /\ log[s] \in LogRecord /\ log[s].accepted \in Seq(Events) /\ log[s].handed \in Seq(Events)
      /\ StreamOK(s)
  BY DEF StreamTypes, StreamRecord, LogRecord
<1>3. /\ w # <<>> => /\ Head(w) \in Streams!Iterations /\ Tail(w) \in Seq(Streams!Iterations)
                     /\ Head(w) = w[1] /\ 1 \in DOMAIN w
                     /\ \A k \in DOMAIN Tail(w) : /\ k \in Nat /\ k + 1 \in DOMAIN w
                                                  /\ Tail(w)[k] = w[k + 1] /\ k + 1 # 1
  BY <1>2, HeadAndTail
<1>4. new = IF old.done THEN old
            ELSE [queue |-> IF w = <<>> THEN Append(old.queue, e) ELSE old.queue,
                  waiting |-> IF w = <<>> THEN w ELSE Tail(w),
                  done |-> e = Streams!Complete,
                  result |-> IF e = Streams!Complete /\ old.result = Nothing THEN e ELSE old.result]
  <2>1. CASE old.done
    BY <2>1 DEF Streams!Pushed
  <2>2. CASE ~old.done
    <3>1. old = [queue |-> old.queue, waiting |-> w, done |-> old.done, result |-> old.result]
      BY <1>2 DEF StreamRecord
    <3>2. new = [old EXCEPT !.done = (e = Streams!Complete),
                            !.result = IF e = Streams!Complete /\ @ = Nothing THEN e ELSE @,
                            !.queue = IF w = <<>> THEN Append(@, e) ELSE @,
                            !.waiting = IF @ = <<>> THEN @ ELSE Tail(@)]
      BY <2>2 DEF Streams!Pushed
    <3>3. /\ DOMAIN new = {"queue", "waiting", "done", "result"}
          /\ new.queue = IF w = <<>> THEN Append(old.queue, e) ELSE old.queue
          /\ new.waiting = IF w = <<>> THEN w ELSE Tail(w)
          /\ new.done = (e = Streams!Complete)
          /\ new.result = IF e = Streams!Complete /\ old.result = Nothing THEN e ELSE old.result
      <4> HIDE DEF new
      <4> QED BY <3>1, <3>2
    <3>4. new = [f \in {"queue", "waiting", "done", "result"} |-> new[f]]
      BY <3>2, <3>3
    <3> HIDE DEF new
    <3> QED BY <2>2, <3>3, <3>4
  <2> QED BY <2>1, <2>2
<1>5. new \in StreamRecord
  BY <1>2, <1>3, <1>4 DEF StreamRecord
<1>6. log'[s] = [accepted |-> IF old.done THEN log[s].accepted ELSE Append(log[s].accepted, e),
                 handed |-> IF hand THEN Append(log[s].handed, e) ELSE log[s].handed]
  BY <1>1, <1>2 DEF StreamTypes, LogRecord
<1>7. log'[s] \in LogRecord
  BY <1>2, <1>6 DEF LogRecord
<1>8. stream' \in [Sides -> StreamRecord] /\ log' \in [Sides -> LogRecord] /\ stream'[s] = new
  <2>1. stream' \in [Sides -> StreamRecord] /\ stream'[s] = new
    <3> HIDE DEF new, StreamRecord
    <3> QED BY <1>1, <1>5 DEF StreamTypes, StreamRecord
  <2>2. log' = [t \in Sides |-> IF t = s THEN log'[s] ELSE log[t]]
    BY <1>1 DEF StreamTypes
  <2>3. log' \in [Sides -> LogRecord]
    BY <2>2, <1>7 DEF StreamTypes, LogRecord
  <2> QED BY <2>1, <2>3
<1>9. \A t \in Sides : t # s => stream'[t] = stream[t] /\ log'[t] = log[t]
  BY <1>1 DEF StreamTypes
<1>10. told \in ReaderRecord /\ (reader' \in [Streams!Iterations -> ReaderRecord])
  <2>1. told \in ReaderRecord
    BY DEF ReaderRecord
  <2> HIDE DEF told
  <2> QED BY <2>1, <1>1, <1>3 DEF StateOK
<1>11. Accepts(s, e, state)
  <2>1. CASE old.done
    <3>1. new = old
      BY <1>4, <2>1
    <3>2. stream' = stream
      BY <1>1, <3>1 DEF StreamTypes
    <3>3. log'[s] = log[s]
      BY <1>6, <2>1, <1>2 DEF LogRecord
    <3>4. log' = log
      BY <1>1, <1>8, <1>9, <3>3 DEF StreamTypes
    <3> QED BY <1>1, <2>1, <3>2, <3>4 DEF Accepts
  <2>2. CASE ~old.done /\ w = <<>>
    BY <1>1, <1>4, <1>6, <1>8, <2>2 DEF Accepts
  <2>3. CASE ~old.done /\ w # <<>>
    <3>1. old.queue = <<>> /\ Streams!Reads(Head(w)) = s /\ reader[Head(w)].pc = "waiting"
      BY <2>3, <1>2, <1>3 DEF StreamOK
    <3> QED BY <1>1, <1>3, <1>4, <1>6, <1>8, <2>3, <3>1 DEF Accepts
  <2> QED BY <2>1, <2>2, <2>3
\* Who waits has waited before, and was not told.
<1>12. \A i \in Streams!Iterations :
          reader[i].pc = "waiting" /\ ~(hand /\ i = Head(w)) => reader'[i].pc = "waiting"
  BY <1>1, <1>3 DEF StateOK
<1>13. StreamOK(s)'
  <2>1. CASE old.done
    <3>1. stream' = stream /\ log' = log /\ reader' = state
      BY <2>1, <1>11 DEF Accepts
    <3>2. \A k \in DOMAIN w : w[k] \in Streams!Iterations
      BY <1>2
    <3> QED BY <3>1, <3>2, <1>2 DEF StreamOK, StateOK
  <2>2. CASE ~old.done /\ w = <<>>
    <3>1. /\ stream'[s].queue = Append(old.queue, e) /\ stream'[s].waiting = <<>>
          /\ log'[s].accepted = Append(log[s].accepted, e) /\ log'[s].handed = log[s].handed
      BY <2>2, <1>4, <1>6, <1>8
    <3>2. log'[s].accepted = log'[s].handed \o stream'[s].queue
      <4>1. log[s].accepted = log[s].handed \o old.queue
        BY <1>2 DEF StreamOK
      <4>2. \A h, q \in Seq(Events) : Append(h \o q, e) = h \o Append(q, e)
        BY AppendBehind
      <4>3. Append(log[s].handed \o old.queue, e) = log[s].handed \o Append(old.queue, e)
        BY <1>2, <4>2
      <4> QED BY <3>1, <4>1, <4>3
    <3> QED BY <3>1, <3>2 DEF StreamOK
  <2>3. CASE ~old.done /\ w # <<>>
    <3>1. /\ stream'[s].queue = <<>> /\ old.queue = <<>> /\ stream'[s].waiting = Tail(w)
          /\ log'[s].accepted = Append(log[s].accepted, e) /\ log'[s].handed = Append(log[s].handed, e)
      <4>1. old.queue = <<>>
        BY <2>3, <1>2 DEF StreamOK
      <4> QED BY <2>3, <4>1, <1>4, <1>6, <1>8
    <3>2. log'[s].accepted = log'[s].handed \o stream'[s].queue
      <4>1. log[s].accepted = log[s].handed
        BY <3>1, <1>2 DEF StreamOK
      <4>2. Append(log[s].handed, e) \o <<>> = Append(log[s].handed, e)
        BY <1>2
      <4> QED BY <3>1, <4>1, <4>2
    <3>3. ASSUME NEW k \in DOMAIN Tail(w)
          PROVE  Streams!Reads(Tail(w)[k]) = s /\ reader'[Tail(w)[k]].pc = "waiting"
      <4>1. k + 1 \in DOMAIN w /\ Tail(w)[k] = w[k + 1] /\ w[k + 1] \in Streams!Iterations
        BY <2>3, <1>2, <1>3
      <4>2. w[k + 1] # Head(w)
        BY <4>1, <2>3, <1>2, <1>3 DEF StreamOK
      <4>3. Streams!Reads(w[k + 1]) = s /\ reader[w[k + 1]].pc = "waiting"
        BY <4>1, <1>2 DEF StreamOK
      <4> QED BY <4>1, <4>2, <4>3, <1>12
    <3>4. ASSUME NEW k \in DOMAIN Tail(w), NEW l \in DOMAIN Tail(w), Tail(w)[k] = Tail(w)[l]
          PROVE  k = l
      <4>1. k + 1 = l + 1
        BY <2>3, <3>4, <1>2, <1>3 DEF StreamOK
      <4>2. k \in Nat /\ l \in Nat
        BY <2>3, <1>3
      <4> QED BY <4>1, <4>2
    <3> QED BY <3>1, <3>2, <3>3, <3>4 DEF StreamOK
  <2> QED BY <2>1, <2>2, <2>3
<1>14. ASSUME NEW t \in Sides, t # s
       PROVE  StreamOK(t)'
  <2> DEFINE v == stream[t].waiting
  <2>1. stream'[t] = stream[t] /\ log'[t] = log[t] /\ StreamOK(t) /\ v \in Seq(Streams!Iterations)
    BY <1>9, <1>14 DEF StreamTypes, StreamRecord
  <2>2. ASSUME NEW k \in DOMAIN v
        PROVE  reader'[v[k]].pc = "waiting"
    <3>1. v[k] \in Streams!Iterations /\ Streams!Reads(v[k]) = t /\ reader[v[k]].pc = "waiting"
      BY <2>1 DEF StreamOK
    <3>2. hand => v[k] # Head(w)
      BY <3>1, <1>14, <1>2, <1>3 DEF StreamOK
    <3> QED BY <3>1, <3>2, <1>12
  <2> QED BY <2>1, <2>2 DEF StreamOK
<1> QED BY <1>8, <1>9, <1>10, <1>11, <1>13, <1>14

\* What end() does: who waits is told that nothing follows.
Ends(s, state) ==
    /\ stream'[s].queue = stream[s].queue /\ stream'[s].done /\ log' = log
    /\ \A i \in Streams!Iterations :
          \/ reader'[i] = state[i]
          \/ /\ reader[i].pc = "waiting" /\ Streams!Reads(i) = s /\ stream[s].queue = <<>>
             /\ reader'[i] = [pc |-> "resumed", event |-> Nothing]

\* end() keeps every stream well formed, and does what Ends says.
LEMMA EndStep ==
    ASSUME StreamTypes, \A t \in Sides : StreamOK(t), NEW s \in Sides,
           NEW result \in {Nothing, Streams!Complete},
           NEW state, StateOK(state), Streams!End(s, result, state)
    PROVE  /\ stream' \in [Sides -> StreamRecord] /\ log' \in [Sides -> LogRecord]
           /\ reader' \in [Streams!Iterations -> ReaderRecord]
           /\ \A t \in Sides : StreamOK(t)'
           /\ \A t \in Sides : t # s => stream'[t] = stream[t]
           /\ Ends(s, state)
<1> DEFINE old == stream[s]
           w == old.waiting
           told == [pc |-> "resumed", event |-> Nothing]
           new == [old EXCEPT !.done = TRUE, !.waiting = <<>>,
                              !.result = IF @ = Nothing THEN result ELSE @]
           Told == Streams!Range(w)
<1>1. /\ stream' = [stream EXCEPT ![s] = new]
      /\ reader' = [i \in Streams!Iterations |-> IF i \in Told THEN told ELSE state[i]]
      /\ log' = log
  BY DEF Streams!End
<1>2. /\ old \in StreamRecord /\ w \in Seq(Streams!Iterations) /\ StreamOK(s)
      /\ log \in [Sides -> LogRecord]
  BY DEF StreamTypes, StreamRecord, LogRecord
<1>3. new \in StreamRecord /\ new.queue = old.queue /\ new.waiting = <<>> /\ new.done
  <2> DEFINE r == IF old.result = Nothing THEN result ELSE old.result
  <2>1. r \in {Nothing, Streams!Complete}
    BY <1>2 DEF StreamRecord
  <2>2. new = [old EXCEPT !.done = TRUE, !.waiting = <<>>, !.result = r]
    OBVIOUS
  <2>3. old = [queue |-> old.queue, waiting |-> w, done |-> old.done, result |-> old.result]
    BY <1>2 DEF StreamRecord
  <2> HIDE DEF r, new
  <2>4. new = [queue |-> old.queue, waiting |-> <<>>, done |-> TRUE, result |-> r]
    BY <2>2, <2>3
  <2>5. old.queue \in Seq(Events) /\ <<>> \in Seq(Streams!Iterations)
    BY <1>2 DEF StreamRecord
  <2> QED BY <2>1, <2>4, <2>5 DEF StreamRecord
<1>4. told \in ReaderRecord
  BY DEF ReaderRecord
<1>5. \A i \in Told : \E k \in DOMAIN w : i = w[k]
  BY DEF Streams!Range
<1> HIDE DEF new, told, Told
<1>6. /\ stream' \in [Sides -> StreamRecord] /\ stream'[s] = new
      /\ \A t \in Sides : t # s => stream'[t] = stream[t]
  BY <1>1, <1>3 DEF StreamTypes, StreamRecord
<1>7. reader' \in [Streams!Iterations -> ReaderRecord]
  BY <1>1, <1>4 DEF StateOK
<1>8. \A i \in Told : reader[i].pc = "waiting" /\ Streams!Reads(i) = s /\ old.queue = <<>>
  <2> SUFFICES ASSUME NEW i \in Told
               PROVE  reader[i].pc = "waiting" /\ Streams!Reads(i) = s /\ old.queue = <<>>
    OBVIOUS
  <2>1. PICK k \in DOMAIN w : i = w[k]
    BY <1>5
  <2>2. w # <<>>
    BY <2>1
  <2> QED BY <2>1, <2>2, <1>2 DEF StreamOK
<1>9. Ends(s, state)
  BY <1>1, <1>3, <1>6, <1>8 DEF Ends, told
<1>10. StreamOK(s)'
  <2>1. /\ stream'[s].queue = old.queue /\ stream'[s].waiting = <<>>
        /\ log[s].accepted = log[s].handed \o old.queue
    BY <1>2, <1>3, <1>6 DEF StreamOK
  <2>2. log' = log
    BY <1>1
  <2>3. DOMAIN stream'[s].waiting = {}
    BY <2>1
  <2>4. log'[s].accepted = log'[s].handed \o stream'[s].queue
    BY <2>1, <2>2
  <2> QED BY <2>1, <2>3, <2>4 DEF StreamOK
<1>11. ASSUME NEW t \in Sides, t # s
       PROVE  StreamOK(t)'
  <2> DEFINE v == stream[t].waiting
  <2>1. stream'[t] = stream[t] /\ log'[t] = log[t] /\ StreamOK(t) /\ v \in Seq(Streams!Iterations)
    BY <1>1, <1>6, <1>11 DEF StreamTypes, StreamRecord
  <2>2. ASSUME NEW k \in DOMAIN v
        PROVE  reader'[v[k]].pc = "waiting"
    <3>1. v[k] \in Streams!Iterations /\ Streams!Reads(v[k]) = t /\ reader[v[k]].pc = "waiting"
      BY <2>1 DEF StreamOK
    <3> QED BY <3>1, <1>1, <1>8, <1>11 DEF StateOK
  <2> QED BY <2>1, <2>2 DEF StreamOK
<1> QED BY <1>1, <1>2, <1>6, <1>7, <1>9, <1>10, <1>11

\* What the iterator does: it takes the oldest event, or returns, or waits.
Iterates(i) ==
    LET s == Streams!Reads(i) IN
    /\ stream'[s].done = stream[s].done /\ log'[s].accepted = log[s].accepted
    /\ \A j \in Streams!Iterations : j # i => reader'[j] = reader[j]
    /\ \/ /\ stream[s].queue # <<>> /\ Head(stream[s].queue) \in Events
          /\ log'[s].handed = Append(log[s].handed, Head(stream[s].queue))
          /\ stream'[s].queue = Tail(stream[s].queue)
          /\ reader'[i] = [pc |-> "body", event |-> Head(stream[s].queue)]
       \/ /\ stream[s].queue = <<>> /\ stream'[s].queue = <<>> /\ log'[s].handed = log[s].handed
          /\ reader'[i].pc = IF stream[s].done THEN "returned" ELSE "waiting"

\* The iterator keeps every stream well formed, and does what Iterates says.
LEMMA IterateStep ==
    ASSUME StreamTypes, \A t \in Sides : StreamOK(t), NEW i \in Streams!Iterations, Streams!Iterate(i)
    PROVE  /\ stream' \in [Sides -> StreamRecord] /\ log' \in [Sides -> LogRecord]
           /\ reader' \in [Streams!Iterations -> ReaderRecord]
           /\ \A t \in Sides : StreamOK(t)'
           /\ \A t \in Sides : t # Streams!Reads(i) => stream'[t] = stream[t] /\ log'[t] = log[t]
           /\ Iterates(i)
<1> DEFINE s == Streams!Reads(i)
           old == stream[s]
           q == old.queue
           w == old.waiting
<1>1. s \in Sides /\ reader[i].pc = "idle" /\ reader[i] \in ReaderRecord
  BY DEF Streams!Iterate, Streams!Reads, Sides, StreamTypes, ReaderRecord
<1>2. /\ old \in StreamRecord /\ q \in Seq(Events) /\ w \in Seq(Streams!Iterations) /\ StreamOK(s)
      /\ log[s] \in LogRecord /\ log[s].handed \in Seq(Events)
      /\ log \in [Sides -> LogRecord] /\ stream \in [Sides -> StreamRecord]
      /\ reader \in [Streams!Iterations -> ReaderRecord]
  BY <1>1 DEF StreamTypes, StreamRecord, LogRecord, ReaderRecord
<1>3. \A k \in DOMAIN w : w[k] \in Streams!Iterations /\ w[k] # i
  BY <1>1, <1>2 DEF StreamOK
\* The waiters of the other stream are not i, which is idle.
<1>4. ASSUME \A j \in Streams!Iterations : j # i => reader'[j] = reader[j],
             NEW t \in Sides, stream'[t] = stream[t], log'[t] = log[t]
      PROVE  StreamOK(t)'
  <2> DEFINE v == stream[t].waiting
  <2>1. v \in Seq(Streams!Iterations) /\ StreamOK(t)
    BY <1>2 DEF StreamRecord
  <2>2. ASSUME NEW k \in DOMAIN v
        PROVE  reader'[v[k]].pc = "waiting"
    <3>1. v[k] \in Streams!Iterations /\ reader[v[k]].pc = "waiting"
      BY <2>1 DEF StreamOK
    <3> QED BY <3>1, <1>1, <1>4
  <2> QED BY <1>4, <2>1, <2>2 DEF StreamOK
<1>5. CASE q # <<>>
  <2>1. /\ stream' = [stream EXCEPT ![s].queue = Tail(@)]
        /\ reader' = [reader EXCEPT ![i] = [pc |-> "body", event |-> Head(q)]]
        /\ log' = [log EXCEPT ![s].handed = Append(@, Head(q))]
    BY <1>5 DEF Streams!Iterate
  <2>2. /\ Head(q) \in Events /\ Tail(q) \in Seq(Events)
        /\ log[s].handed \o q = Append(log[s].handed, Head(q)) \o Tail(q)
    BY <1>2, <1>5, HeadAndTail
  <2>3. w = <<>>
    BY <1>2, <1>5 DEF StreamOK
  <2> HIDE DEF q
  <2>4. /\ [old EXCEPT !.queue = Tail(@)] \in StreamRecord
        /\ [log[s] EXCEPT !.handed = Append(@, Head(q))] \in LogRecord
        /\ [pc |-> "body", event |-> Head(q)] \in ReaderRecord
    <3>1. [old EXCEPT !.queue = Tail(@)] \in StreamRecord
      <4>1. Tail(old.queue) \in Seq(Events)
        BY <2>2 DEF q
      <4> QED BY <1>2, <4>1 DEF StreamRecord
    <3>2. [log[s] EXCEPT !.handed = Append(@, Head(q))] \in LogRecord
      <4>1. Append(log[s].handed, Head(q)) \in Seq(Events)
        BY <1>2, <2>2
      <4> QED BY <1>2, <4>1 DEF LogRecord
    <3>3. [pc |-> "body", event |-> Head(q)] \in ReaderRecord
      BY <2>2 DEF ReaderRecord
    <3> QED BY <3>1, <3>2, <3>3
  <2>5. /\ stream'[s] = [old EXCEPT !.queue = Tail(@)]
        /\ log'[s] = [log[s] EXCEPT !.handed = Append(@, Head(q))]
        /\ \A t \in Sides : t # s => stream'[t] = stream[t] /\ log'[t] = log[t]
        /\ \A j \in Streams!Iterations : j # i => reader'[j] = reader[j]
        /\ reader'[i] = [pc |-> "body", event |-> Head(q)]
    BY <1>1, <1>2, <2>1
  <2>6. /\ stream' \in [Sides -> StreamRecord] /\ log' \in [Sides -> LogRecord]
        /\ reader' \in [Streams!Iterations -> ReaderRecord]
    BY <1>1, <1>2, <2>1, <2>4
  <2>7. /\ stream'[s].queue = Tail(q) /\ stream'[s].waiting = <<>> /\ stream'[s].done = old.done
        /\ log'[s].handed = Append(log[s].handed, Head(q)) /\ log'[s].accepted = log[s].accepted
    BY <2>3, <2>5, <1>2 DEF StreamRecord, LogRecord, q
  <2>8. StreamOK(s)'
    BY <2>2, <2>7, <1>2 DEF StreamOK, q
  <2>9. \A t \in Sides : t # s => StreamOK(t)'
    BY <1>4, <2>5
  <2>10. Iterates(i)
    BY <1>5, <2>2, <2>5, <2>7 DEF Iterates, q
  <2> QED BY <2>5, <2>6, <2>8, <2>9, <2>10
<1>6. CASE q = <<>> /\ old.done
  <2>1. reader' = [reader EXCEPT ![i].pc = "returned"] /\ UNCHANGED <<stream, log>>
    BY <1>6 DEF Streams!Iterate
  <2>2. [reader[i] EXCEPT !.pc = "returned"] \in ReaderRecord
    BY <1>1 DEF ReaderRecord
  <2>3. /\ \A j \in Streams!Iterations : j # i => reader'[j] = reader[j]
        /\ reader'[i].pc = "returned" /\ reader' \in [Streams!Iterations -> ReaderRecord]
    BY <2>1, <2>2, <1>1, <1>2 DEF ReaderRecord
  <2>4. \A t \in Sides : StreamOK(t)'
    BY <1>4, <2>1, <2>3
  <2> QED BY <1>2, <1>6, <2>1, <2>3, <2>4 DEF Iterates
<1>7. CASE q = <<>> /\ ~old.done
  <2>1. /\ stream' = [stream EXCEPT ![s].waiting = Append(@, i)]
        /\ reader' = [reader EXCEPT ![i].pc = "waiting"] /\ log' = log
    BY <1>7 DEF Streams!Iterate
  <2>2. /\ [reader[i] EXCEPT !.pc = "waiting"] \in ReaderRecord
        /\ [old EXCEPT !.waiting = Append(@, i)] \in StreamRecord
    <3>1. Append(old.waiting, i) \in Seq(Streams!Iterations)
      BY <1>2
    <3> QED BY <1>1, <1>2, <3>1 DEF ReaderRecord, StreamRecord
  <2>3. /\ \A j \in Streams!Iterations : j # i => reader'[j] = reader[j]
        /\ reader'[i].pc = "waiting" /\ reader' \in [Streams!Iterations -> ReaderRecord]
        /\ stream' \in [Sides -> StreamRecord]
        /\ \A t \in Sides : t # s => stream'[t] = stream[t]
    BY <2>1, <2>2, <1>1, <1>2 DEF ReaderRecord
  <2>4. stream'[s].queue = q /\ stream'[s].done = old.done /\ stream'[s].waiting = Append(w, i)
    BY <2>1, <1>1, <1>2 DEF StreamRecord
  <2>5. StreamOK(s)'
    <3> HIDE DEF w, q
    <3>1. \A k \in DOMAIN Append(w, i) :
             \/ k \in DOMAIN w /\ Append(w, i)[k] = w[k]
             \/ k = Len(w) + 1 /\ Append(w, i)[k] = i
      <4>1. w \in Seq(Streams!Iterations)
        BY <1>2 DEF w
      <4> QED BY <4>1
    <3>2. \A k \in DOMAIN w : /\ Streams!Reads(w[k]) = s /\ reader[w[k]].pc = "waiting"
                              /\ \A l \in DOMAIN w : w[k] = w[l] => k = l
      BY <1>2 DEF StreamOK, w
    <3>3. \A k \in DOMAIN Append(w, i) : /\ Streams!Reads(Append(w, i)[k]) = s
                                         /\ reader'[Append(w, i)[k]].pc = "waiting"
      BY <3>1, <3>2, <2>3, <1>3 DEF w
    <3>4. \A k, l \in DOMAIN Append(w, i) : Append(w, i)[k] = Append(w, i)[l] => k = l
      BY <3>1, <3>2, <1>3 DEF w
    <3>5. log'[s].accepted = log'[s].handed \o stream'[s].queue /\ stream'[s].queue = <<>>
      BY <2>1, <2>4, <1>2, <1>7 DEF StreamOK, q
    <3> QED BY <2>4, <3>3, <3>4, <3>5 DEF StreamOK
  <2>6. \A t \in Sides : t # s => StreamOK(t)'
    BY <1>4, <2>1, <2>3
  <2> QED BY <1>2, <1>7, <2>1, <2>3, <2>4, <2>5, <2>6 DEF Iterates
<1> QED BY <1>5, <1>6, <1>7

-----------------------------------------------------------------------------
(* The channel that both streams together are.                             *)

Sent == IF Streams!Failed THEN log["outer"].accepted ELSE log["inner"].accepted
Taken == log["outer"].handed
Closed == IF Streams!Failed THEN stream["outer"].done ELSE stream["inner"].done
Left == Streams!Returned

ChannelStep == [Streams!Channel!Next]_<<Sent, Taken, Closed, Left>>

\* The channel accepts an event; it may reach a reader at once.
LEMMA MapsToSend ==
    ASSUME ~Closed, NEW e \in Events, Sent' = Append(Sent, e), Closed' \in BOOLEAN,
           Taken' = Taken \/ (Taken = Sent /\ Taken' = Sent'), Left' = Left
    PROVE  ChannelStep
BY DEF ChannelStep, Streams!Channel!Next, Streams!Channel!Send, Sent, Taken, Closed, Left, Events

\* A reader takes the next event of the channel.
LEMMA MapsToTake ==
    ASSUME Len(Taken) < Len(Sent), Taken' = Append(Taken, Sent[Len(Taken) + 1]),
           Sent' = Sent, Closed' = Closed, Left' = Left
    PROVE  ChannelStep
BY DEF ChannelStep, Streams!Channel!Next, Streams!Channel!Take, Sent, Taken, Closed, Left

\* The channel is closed.
LEMMA MapsToClose ==
    ASSUME Closed', Sent' = Sent, Taken' = Taken, Left' = Left, Closed' \in BOOLEAN
    PROVE  ChannelStep
BY DEF ChannelStep, Streams!Channel!Next, Streams!Channel!Close, Sent, Taken, Closed, Left

\* A reader leaves the channel, which is closed and empty.
LEMMA MapsToLeave ==
    ASSUME Closed, Closed \in BOOLEAN, Taken = Sent, NEW i \in Readers, Left' = Left \cup {i},
           Sent' = Sent, Taken' = Taken, Closed' = Closed
    PROVE  ChannelStep
BY DEF ChannelStep, Streams!Channel!Next, Streams!Channel!Leave, Sent, Taken, Closed, Left

\* The channel sees nothing.
LEMMA MapsToStutter ==
    ASSUME Sent' = Sent, Taken' = Taken, Closed' = Closed, Left' = Left
    PROVE  ChannelStep
BY DEF ChannelStep

\* No reader returns.
LEMMA LeftStays ==
    ASSUME \A i \in Readers : reader'[i].pc = "returned" <=> reader[i].pc = "returned"
    PROVE  Left' = Left
BY DEF Left, Streams!Returned

\* The types of the parts, for the steps below.
LEMMA StreamFacts ==
    ASSUME StreamTypes
    PROVE  /\ "inner" \in Sides /\ "outer" \in Sides /\ Forwarder \in Streams!Iterations
           /\ \A i \in Readers : i \in Streams!Iterations /\ i # Forwarder
           /\ \A i \in Streams!Iterations : i \in Readers \/ i = Forwarder
           /\ Streams!Reads(Forwarder) = "inner"
           /\ \A i \in Streams!Iterations : (Streams!Reads(i) = "outer") <=> (i # Forwarder)
           /\ \A i \in Streams!Iterations : Streams!Reads(i) \in Sides
           /\ \A s \in Sides : /\ stream[s].queue \in Seq(Events) /\ stream[s].done \in BOOLEAN
                               /\ log[s].accepted \in Seq(Events) /\ log[s].handed \in Seq(Events)
           /\ reader \in [Streams!Iterations -> ReaderRecord]
BY StreamAssumption DEF StreamTypes, StreamRecord, LogRecord, Sides, Streams!Iterations, Streams!Reads, ReaderRecord

\* What a stream accepted it has handed out or keeps.
LEMMA AcceptedIs ==
    ASSUME StreamInv, NEW s \in Sides
    PROVE  /\ log[s].accepted = log[s].handed \o stream[s].queue
           /\ stream[s].queue = <<>> => log[s].accepted = log[s].handed
<1>1. /\ stream[s].queue \in Seq(Events) /\ log[s].accepted \in Seq(Events) /\ log[s].handed \in Seq(Events)
  BY StreamFacts DEF StreamInv
<1>2. log[s].accepted = log[s].handed \o stream[s].queue
  BY DEF StreamInv, StreamOK
<1>3. log[s].handed \o <<>> = log[s].handed
  BY <1>1
<1> QED BY <1>2, <1>3

\* forwardStream holds at most one event.
LEMMA HeldIsShort == Held = <<>> \/ Held = <<reader[Forwarder].event>>
BY DEF Held

\* What forwardStream holds is an event.
LEMMA HeldIsEvents ==
    ASSUME StreamInv
    PROVE  Held \in Seq(Events)
<1>1. reader[Forwarder] \in ReaderRecord
  BY StreamFacts DEF StreamInv
<1>2. CASE Held = <<>>
  BY <1>2
<1>3. CASE Held # <<>>
  <2>1. reader[Forwarder].event \in Events /\ Held = <<reader[Forwarder].event>>
    BY <1>1, <1>3, StreamFacts DEF Held, StreamInv, IterationOK, ReaderRecord
  <2> QED BY <2>1
<1> QED BY <1>2, <1>3

\* Of four sequences put together, what follows the first.
LEMMA NextOfFour ==
    ASSUME NEW a \in Seq(Events), NEW b \in Seq(Events), NEW c \in Seq(Events), NEW d \in Seq(Events),
           NEW all, all = ((a \o b) \o c) \o d
    PROVE  /\ b # <<>> => Len(a) < Len(all) /\ all[Len(a) + 1] = b[1]
           /\ b = <<>> /\ c # <<>> => Len(a) < Len(all) /\ all[Len(a) + 1] = c[1]
<1>1. /\ a \o b \in Seq(Events) /\ Len(a \o b) = Len(a) + Len(b)
      /\ (a \o b) \o c \in Seq(Events) /\ Len((a \o b) \o c) = Len(a) + Len(b) + Len(c)
      /\ all \in Seq(Events) /\ Len(all) = Len(a) + Len(b) + Len(c) + Len(d)
  OBVIOUS
<1>2. ASSUME b # <<>>
      PROVE  Len(a) < Len(all) /\ all[Len(a) + 1] = b[1]
  <2>1. Len(b) \in Nat \ {0}
    BY <1>2
  <2>2. (a \o b)[Len(a) + 1] = b[1]
    BY <2>1
  <2>3. ((a \o b) \o c)[Len(a) + 1] = (a \o b)[Len(a) + 1]
    BY <1>1, <2>1
  <2>4. all[Len(a) + 1] = ((a \o b) \o c)[Len(a) + 1]
    BY <1>1, <2>1
  <2> QED BY <1>1, <2>1, <2>2, <2>3, <2>4
<1>3. ASSUME b = <<>>, c # <<>>
      PROVE  Len(a) < Len(all) /\ all[Len(a) + 1] = c[1]
  <2>1. Len(c) \in Nat \ {0} /\ Len(b) = 0
    BY <1>3
  <2>2. ((a \o b) \o c)[Len(a \o b) + 1] = c[1]
    BY <1>1, <2>1
  <2>3. Len(a \o b) + 1 = Len(a) + 1 /\ Len(a) + 1 <= Len((a \o b) \o c)
    BY <1>1, <2>1
  <2>4. all[Len(a) + 1] = ((a \o b) \o c)[Len(a) + 1]
    BY <1>1, <2>3
  <2> QED BY <1>1, <2>1, <2>2, <2>3, <2>4
<1> QED BY <1>2, <1>3

\* What comes next to a reader is the oldest event it has not had.
LEMMA NextIsSent ==
    ASSUME StreamInv
    PROVE  /\ stream["outer"].queue # <<>> =>
                 Len(Taken) < Len(Sent) /\ Sent[Len(Taken) + 1] = Head(stream["outer"].queue)
           /\ ~Streams!Failed /\ stream["outer"].queue = <<>> /\ Held # <<>> =>
                 Len(Taken) < Len(Sent) /\ Sent[Len(Taken) + 1] = reader[Forwarder].event
<1> DEFINE q == stream["outer"].queue
           r == stream["inner"].queue
<1>1. /\ q \in Seq(Events) /\ r \in Seq(Events) /\ Taken \in Seq(Events) /\ Held \in Seq(Events)
      /\ log["outer"].accepted = Taken \o q /\ log["inner"].accepted = log["inner"].handed \o r
  <2>1. StreamTypes
    BY DEF StreamInv
  <2> QED BY <2>1, StreamFacts, HeldIsEvents, AcceptedIs DEF Taken
<1>2. q # <<>> => Head(q) = q[1]
  BY <1>1
<1>3. CASE ~Streams!Failed
  <2>1. Sent = ((Taken \o q) \o Held) \o r
    BY <1>1, <1>3 DEF Sent, StreamInv, Forwarding
  <2>2. Held # <<>> => Held[1] = reader[Forwarder].event
    BY HeldIsShort
  <2>3. /\ q # <<>> => Len(Taken) < Len(Sent) /\ Sent[Len(Taken) + 1] = q[1]
        /\ q = <<>> /\ Held # <<>> => Len(Taken) < Len(Sent) /\ Sent[Len(Taken) + 1] = Held[1]
    <3> HIDE DEF q, r
    <3> QED BY <1>1, <2>1, NextOfFour
  <2> QED BY <1>2, <2>2, <2>3
<1>4. CASE Streams!Failed
  <2>1. Sent = Taken \o q
    BY <1>1, <1>4 DEF Sent
  <2> HIDE DEF q
  <2>2. q # <<>> => Len(q) \in Nat \ {0}
    BY <1>1
  <2>3. q # <<>> => Len(Taken) < Len(Taken \o q) /\ (Taken \o q)[Len(Taken) + 1] = q[1]
    BY <1>1, <2>2
  <2> QED BY <1>2, <1>4, <2>1, <2>3 DEF q
<1> QED BY <1>3, <1>4

\* When the outer stream is closed and empty, everything has been taken.
LEMMA AllIsTaken ==
    ASSUME StreamInv, stream["outer"].done, stream["outer"].queue = <<>>
    PROVE  Closed /\ Taken = Sent
<1>0. StreamTypes
  BY DEF StreamInv
<1>1. log["outer"].accepted = Taken
  BY <1>0, StreamFacts, AcceptedIs DEF Taken
<1>2. CASE Streams!Failed
  BY <1>1, <1>2 DEF Closed, Sent
<1>3. CASE ~Streams!Failed
  <2>1. /\ log["inner"].handed = Taken \o <<>> /\ stream["inner"].done /\ stream["inner"].queue = <<>>
    BY <1>1, <1>3 DEF StreamInv, Forwarding
  <2>2. log["inner"].accepted = log["inner"].handed
    BY <1>0, <2>1, StreamFacts, AcceptedIs
  <2>3. Taken \in Seq(Events)
    BY <1>0, StreamFacts DEF Taken
  <2>4. Taken \o <<>> = Taken
    BY <2>3
  <2> QED BY <1>3, <2>1, <2>2, <2>4 DEF Closed, Sent
<1> QED BY <1>2, <1>3

-----------------------------------------------------------------------------
(* Steps.                                                                  *)

\* The invariant of the streams holds at first.
LEMMA StreamInit == Streams!Init => StreamInv
<1> SUFFICES ASSUME Streams!Init
             PROVE  StreamInv
  OBVIOUS
<1>1. /\ stream = [s \in Sides |-> [queue |-> <<>>, waiting |-> <<>>, done |-> FALSE, result |-> Nothing]]
      /\ reader = [i \in Streams!Iterations |-> [pc |-> "idle", event |-> Nothing]]
      /\ loading = "loading"
      /\ log = [s \in Sides |-> [accepted |-> <<>>, handed |-> <<>>]]
  BY DEF Streams!Init, Sides
<1>2. StreamTypes
  BY <1>1 DEF StreamTypes, StreamRecord, LogRecord, ReaderRecord
<1>0. <<>> = <<>> \o <<>>
  OBVIOUS
<1>3. ASSUME NEW s \in Sides
      PROVE  StreamOK(s)
  <2>1. /\ stream[s].queue = <<>> /\ stream[s].waiting = <<>> /\ log[s].accepted = <<>>
        /\ log[s].handed = <<>>
    BY <1>1
  <2>2. DOMAIN stream[s].waiting = {}
    BY <2>1
  <2> QED BY <1>0, <2>1, <2>2 DEF StreamOK
<1>4. \A i \in Streams!Iterations : IterationOK(i)
  BY <1>1 DEF IterationOK
<1>5. Forwarder \in Streams!Iterations /\ "inner" \in Sides /\ "outer" \in Sides
  BY DEF Streams!Iterations, Sides
<1>6. CompleteIsLast /\ NothingYet
  BY <1>1, <1>5 DEF CompleteIsLast, NothingYet
<1>7. Forwarding
  <2>1. Held = <<>> /\ log["inner"].handed = <<>> /\ log["outer"].accepted = <<>> /\ ~stream["outer"].done
    BY <1>1, <1>5 DEF Held
  <2> QED BY <1>0, <2>1 DEF Forwarding
<1> QED BY <1>2, <1>3, <1>4, <1>6, <1>7 DEF StreamInv

\* reader itself is a state to work on.
LEMMA ReaderIsOK == ASSUME StreamTypes PROVE StateOK(reader)
BY StreamFacts DEF StateOK

\* The provider pushes an event.
LEMMA ProviderPush ==
    ASSUME StreamInv, NEW e \in Events, Streams!Push("inner", e, reader), loading = "loaded",
           loading' = loading
    PROVE  StreamInv' /\ ChannelStep
<1>0. StreamTypes /\ ~Streams!Failed /\ ~Streams!Failed'
  BY DEF StreamInv, Streams!Failed
<1>1. /\ stream' \in [Sides -> StreamRecord] /\ log' \in [Sides -> LogRecord]
      /\ reader' \in [Streams!Iterations -> ReaderRecord]
      /\ \A t \in Sides : StreamOK(t)'
      /\ stream'["outer"] = stream["outer"] /\ log'["outer"] = log["outer"]
      /\ Accepts("inner", e, reader)
  BY <1>0, PushStep, ReaderIsOK, StreamFacts DEF StreamInv
<1>2. StreamTypes'
  BY <1>1, <1>0 DEF StreamTypes, StreamRecord, LogRecord, ReaderRecord
<1>3. NothingYet'
  BY DEF NothingYet
<1>4. CASE stream["inner"].done
  <2>1. stream' = stream /\ log' = log /\ reader' = reader
    BY <1>1, <1>4 DEF Accepts
  <2>2. StreamInv'
    BY <1>1, <1>2, <1>3, <2>1 DEF StreamInv, IterationOK, CompleteIsLast, Forwarding, Held, Streams!Failed
  <2>3. ChannelStep
    BY <1>0, <2>1, MapsToStutter DEF Sent, Taken, Closed, Left, Streams!Returned
  <2> QED BY <2>2, <2>3
<1>5. CASE ~stream["inner"].done
  <2> DEFINE w == stream["inner"].waiting
             acc == log["inner"].accepted
  <2>1. /\ log'["inner"].accepted = Append(acc, e)
        /\ stream'["inner"].done = (e = Streams!Complete)
        /\ ~stream["outer"].done /\ acc \in Seq(Events)
    BY <1>0, <1>1, <1>5, StreamFacts DEF Accepts, StreamInv, Forwarding
  <2>2. CompleteIsLast'
    <3> HIDE DEF acc
    <3> SUFFICES ASSUME NEW k \in DOMAIN Append(acc, e), Append(acc, e)[k] = Streams!Complete
                 PROVE  k = Len(Append(acc, e)) /\ e = Streams!Complete
      BY <2>1 DEF CompleteIsLast
    <3>1. k \notin DOMAIN acc \/ acc[k] # Streams!Complete
      BY <1>5 DEF StreamInv, CompleteIsLast, acc
    <3> QED BY <2>1, <3>1
  <2>3. /\ \A i \in Streams!Iterations : i # Forwarder => reader'[i] = reader[i]
        /\ reader[Forwarder].pc \in {"returned", "over"} => FALSE
        /\ ~(reader[Forwarder].pc = "resumed" /\ reader[Forwarder].event = Nothing)
        /\ IF w = <<>>
           THEN reader' = reader /\ log'["inner"].handed = log["inner"].handed
           ELSE /\ log'["inner"].handed = Append(log["inner"].handed, e)
                /\ reader'[Forwarder] = [pc |-> "resumed", event |-> e]
                /\ reader[Forwarder].pc = "waiting"
    <3>1. /\ reader[Forwarder].pc \in {"returned", "over"} => FALSE
          /\ ~(reader[Forwarder].pc = "resumed" /\ reader[Forwarder].event = Nothing)
      BY <1>0, <1>5, StreamFacts DEF StreamInv, IterationOK
    <3>2. w # <<>> => Head(w) = Forwarder
      BY <1>0, <1>1, <1>5, StreamFacts DEF Accepts
    <3>3. IF w = <<>>
          THEN reader' = reader /\ log'["inner"].handed = log["inner"].handed
          ELSE /\ log'["inner"].handed = Append(log["inner"].handed, e)
               /\ reader' = [reader EXCEPT ![Forwarder] = [pc |-> "resumed", event |-> e]]
               /\ reader[Forwarder].pc = "waiting"
      BY <1>1, <1>5, <3>2 DEF Accepts
    <3> HIDE DEF w
    <3> QED BY <1>0, <3>1, <3>3, StreamFacts
  <2>4. \A i \in Streams!Iterations : IterationOK(i)'
    <3> SUFFICES ASSUME NEW i \in Streams!Iterations
                 PROVE  IterationOK(i)'
      OBVIOUS
    <3>1. CASE i = Forwarder
      BY <1>0, <2>3, <3>1, StreamFacts, CompleteIsEvent DEF IterationOK, StreamInv
    <3>2. CASE i # Forwarder
      BY <1>0, <1>1, <2>3, <3>2, StreamFacts DEF IterationOK, StreamInv
    <3> QED BY <3>1, <3>2
  <2>5. log'["inner"].handed = log'["outer"].accepted \o Held'
    <3>1. log["inner"].handed = log["outer"].accepted \o Held /\ log["outer"].accepted \in Seq(Events)
      BY <1>0, StreamFacts DEF StreamInv, Forwarding
    <3>2. CASE w = <<>>
      BY <1>1, <2>3, <3>1, <3>2 DEF Held
    <3>3. CASE w # <<>>
      <4>1. Held = <<>> /\ Held' = <<e>>
        BY <2>3, <3>3, CompleteIsEvent DEF Held
      <4>2. log["inner"].handed = log["outer"].accepted
        BY <3>1, <4>1
      <4>3. Append(log["outer"].accepted, e) = log["outer"].accepted \o <<e>>
        BY <3>1
      <4> QED BY <1>1, <2>3, <3>3, <4>1, <4>2, <4>3
    <3> QED BY <3>2, <3>3
  <2>6. Forwarding'
    BY <1>1, <2>1, <2>5 DEF Forwarding
  <2>7. StreamInv'
    BY <1>1, <1>2, <1>3, <2>2, <2>4, <2>6 DEF StreamInv
  <2>8. Left' = Left
    BY <1>0, <2>3, StreamFacts, LeftStays
  <2>9. /\ ~Closed /\ Sent' = Append(Sent, e) /\ Taken' = Taken /\ Closed' \in BOOLEAN
    BY <1>0, <1>1, <1>5, <2>1 DEF Closed, Sent, Taken
  <2>10. ChannelStep
    BY <2>8, <2>9, MapsToSend
  <2> QED BY <2>7, <2>10
<1> QED BY <1>4, <1>5

\* The module does not load: the error goes to the outer stream.
LEMMA ModuleFailsStep ==
    ASSUME StreamInv, Streams!ModuleFails
    PROVE  StreamInv' /\ ChannelStep
<1> DEFINE e == Streams!Complete
<1>0. /\ StreamTypes /\ loading = "loading" /\ loading' = "failed" /\ Streams!Push("outer", e, reader)
      /\ ~Streams!Failed /\ Streams!Failed' /\ e \in Events
  BY CompleteIsEvent DEF StreamInv, Streams!ModuleFails, Streams!Failed
<1>1. /\ stream' \in [Sides -> StreamRecord] /\ log' \in [Sides -> LogRecord]
      /\ reader' \in [Streams!Iterations -> ReaderRecord]
      /\ \A t \in Sides : StreamOK(t)'
      /\ stream'["inner"] = stream["inner"] /\ log'["inner"] = log["inner"]
      /\ Accepts("outer", e, reader)
  BY <1>0, PushStep, ReaderIsOK, StreamFacts DEF StreamInv
<1>2. StreamTypes'
  BY <1>0, <1>1 DEF StreamTypes, StreamRecord, LogRecord, ReaderRecord
<1>3. /\ log["inner"].accepted = <<>> /\ log["inner"].handed = <<>> /\ ~stream["inner"].done
      /\ reader[Forwarder].pc = "idle"
  BY <1>0 DEF StreamInv, NothingYet
<1>4. log["outer"].accepted = <<>> /\ log["outer"].handed = <<>> /\ ~stream["outer"].done
  <2>1. <<>> = log["outer"].accepted \o <<>> /\ ~stream["outer"].done
    BY <1>0, <1>3 DEF StreamInv, Forwarding, Held
  <2>2. log["outer"].accepted = <<>>
    <3>1. log["outer"].accepted \in Seq(Events)
      BY <1>0, StreamFacts
    <3> QED BY <2>1, <3>1
  <2>3. log["outer"].handed = <<>>
    <3>1. /\ <<>> = log["outer"].handed \o stream["outer"].queue
          /\ log["outer"].handed \in Seq(Events) /\ stream["outer"].queue \in Seq(Events)
      BY <1>0, <2>2, StreamFacts, AcceptedIs
    <3> QED BY <3>1, NothingTogether
  <2> QED BY <2>1, <2>2, <2>3
<1>5. /\ log'["outer"].accepted = Append(<<>>, e)
      /\ log'["outer"].handed = <<>> \/ log'["outer"].handed = Append(<<>>, e)
      /\ \A i \in Streams!Iterations :
            reader'[i] = reader[i]
            \/ (i # Forwarder /\ reader[i].pc = "waiting" /\ reader'[i] = [pc |-> "resumed", event |-> e])
  <2> DEFINE w == stream["outer"].waiting
  <2>1. CASE w = <<>>
    BY <1>1, <1>4, <2>1 DEF Accepts
  <2>2. CASE w # <<>>
    <3>1. /\ reader' = [reader EXCEPT ![Head(w)] = [pc |-> "resumed", event |-> e]]
          /\ Head(w) \in Streams!Iterations /\ Streams!Reads(Head(w)) = "outer"
          /\ reader[Head(w)].pc = "waiting"
      BY <1>1, <1>4, <2>2 DEF Accepts
    <3>2. Head(w) # Forwarder
      BY <1>0, <3>1, StreamFacts
    <3>3. \A i \in Streams!Iterations :
            reader'[i] = IF i = Head(w) THEN [pc |-> "resumed", event |-> e] ELSE reader[i]
      BY <1>0, <3>1, StreamFacts
    <3> QED BY <1>1, <1>4, <2>2, <3>1, <3>2, <3>3 DEF Accepts
  <2> QED BY <2>1, <2>2
<1>6. CompleteIsLast' /\ Forwarding'
  BY <1>0, <1>1 DEF StreamInv, CompleteIsLast, Forwarding
<1>7. NothingYet'
  BY <1>0, <1>1, <1>3, <1>5, StreamFacts DEF NothingYet
<1>8. \A i \in Streams!Iterations : IterationOK(i)'
  <2> SUFFICES ASSUME NEW i \in Streams!Iterations
               PROVE  IterationOK(i)'
    OBVIOUS
  <2>1. CASE i = Forwarder
    BY <1>0, <1>3, <1>5, <2>1 DEF IterationOK
  <2>2. CASE i # Forwarder
    <3>1. ~(reader[i].pc = "resumed" /\ reader[i].event = Nothing)
      BY <1>0, <1>4, <2>2, StreamFacts DEF StreamInv, IterationOK
    <3> QED BY <1>0, <1>5, <2>2, <3>1, CompleteIsEvent DEF StreamInv, IterationOK
  <2> QED BY <2>1, <2>2
<1>9. Left' = Left
  BY <1>0, <1>5, StreamFacts, LeftStays
<1>10. /\ Sent = <<>> /\ Taken = <<>> /\ ~Closed /\ Sent' = Append(<<>>, e)
       /\ Taken' = <<>> \/ Taken' = Append(<<>>, e)
       /\ Closed' \in BOOLEAN
  BY <1>0, <1>1, <1>3, <1>4, <1>5, StreamFacts DEF Sent, Taken, Closed, StreamRecord
<1>11. ChannelStep
  BY <1>0, <1>9, <1>10, MapsToSend
<1> QED BY <1>1, <1>2, <1>6, <1>7, <1>8, <1>11 DEF StreamInv

\* A stream is ended.
LEMMA EndKeeps ==
    ASSUME StreamInv, NEW s \in Sides, NEW state, StateOK(state), Ends(s, state),
           stream' \in [Sides -> StreamRecord], log' \in [Sides -> LogRecord],
           reader' \in [Streams!Iterations -> ReaderRecord],
           \A t \in Sides : StreamOK(t)', \A t \in Sides : t # s => stream'[t] = stream[t],
           \A i \in Streams!Iterations : state[i] = reader[i]
              \/ (i = Forwarder /\ s = "outer" /\ reader[i].pc = "returned" /\ state[i].pc = "over"),
           loading' \in {"loading", "loaded", "failed", "ended", "over"},
           s = "inner" => stream["inner"].done /\ loading = "loaded" /\ loading' = "ended",
           s = "outer" => loading' = loading \/ (loading = "failed" /\ loading' = "over"),
           s = "outer" => Streams!Failed \/ reader[Forwarder].pc = "returned"
    PROVE  StreamInv' /\ ChannelStep
<1>0. StreamTypes /\ (Streams!Failed' <=> Streams!Failed)
  BY DEF StreamInv, Streams!Failed, Sides
<1>1. StreamTypes'
  BY DEF StreamTypes, StreamRecord, LogRecord, ReaderRecord
<1>2. /\ stream'["inner"].queue = stream["inner"].queue /\ stream'["outer"].queue = stream["outer"].queue
      /\ stream'[s].done /\ log' = log
      /\ stream'["inner"].done = stream["inner"].done
      /\ s = "inner" => stream'["outer"].done = stream["outer"].done
      /\ s = "outer" => stream'["inner"] = stream["inner"]
  <2>1. stream'[s].done = TRUE /\ stream["inner"].done \in BOOLEAN
    BY <1>0, StreamFacts DEF Ends, StreamRecord
  <2> QED BY <2>1 DEF Ends, Sides
<1>3. \A i \in Streams!Iterations :
         \/ reader'[i] = reader[i]
         \/ i = Forwarder /\ s = "outer" /\ reader[i].pc = "returned" /\ reader'[i].pc = "over"
         \/ /\ reader[i].pc = "waiting" /\ Streams!Reads(i) = s /\ stream[s].queue = <<>>
            /\ reader'[i] = [pc |-> "resumed", event |-> Nothing]
  BY DEF Ends
<1>4. \A i \in Streams!Iterations : IterationOK(i)'
  <2> SUFFICES ASSUME NEW i \in Streams!Iterations
               PROVE  IterationOK(i)'
    OBVIOUS
  <2>0. /\ IterationOK(i) /\ Streams!Reads(i) \in Sides
        /\ \A t \in Sides : stream'[t].queue = stream[t].queue /\ (stream[t].done => stream'[t].done)
    BY <1>0, <1>2, StreamFacts DEF StreamInv, Sides
  <2>1. CASE reader'[i] = reader[i]
    BY <2>0, <2>1 DEF IterationOK
  <2>2. CASE i = Forwarder /\ s = "outer" /\ reader[i].pc = "returned" /\ reader'[i].pc = "over"
    BY <2>0, <2>2 DEF IterationOK
  <2>3. CASE /\ reader[i].pc = "waiting" /\ Streams!Reads(i) = s /\ stream[s].queue = <<>>
             /\ reader'[i] = [pc |-> "resumed", event |-> Nothing]
    BY <1>2, <2>0, <2>3 DEF IterationOK
  <2> QED BY <1>3, <2>1, <2>2, <2>3
<1>5. CompleteIsLast'
  BY <1>2 DEF StreamInv, CompleteIsLast
<1>6. NothingYet'
  <2> SUFFICES ASSUME loading' \in {"loading", "failed", "over"}
               PROVE  /\ log["inner"].accepted = <<>> /\ log["inner"].handed = <<>>
                      /\ ~stream["inner"].done /\ reader'[Forwarder].pc = "idle"
    BY <1>2 DEF NothingYet
  <2>1. /\ s = "outer" /\ log["inner"].accepted = <<>> /\ log["inner"].handed = <<>>
        /\ ~stream["inner"].done /\ reader[Forwarder].pc = "idle"
    BY DEF StreamInv, NothingYet, Sides
  <2> QED BY <1>0, <1>3, <2>1, StreamFacts
<1>7. Held' = Held /\ (s = "outer" => Streams!Failed \/ Held = <<>>)
  BY <1>0, <1>3, StreamFacts DEF Held
<1>8. Forwarding'
  <2>1. s = "outer" /\ ~Streams!Failed => stream["inner"].done /\ stream["inner"].queue = <<>>
    BY <1>0, StreamFacts DEF StreamInv, IterationOK
  <2> QED BY <1>0, <1>2, <1>7, <2>1 DEF StreamInv, Forwarding, Sides
<1>9. Left' = Left
  BY <1>0, <1>3, StreamFacts, LeftStays
<1>10. Sent' = Sent /\ Taken' = Taken
  BY <1>0, <1>2 DEF Sent, Taken
<1>11. Closed' = Closed \/ (Closed' /\ Closed' \in BOOLEAN)
  BY <1>0, <1>2 DEF Closed, Sides, StreamRecord
<1>12. ChannelStep
  BY <1>9, <1>10, <1>11, MapsToClose, MapsToStutter
<1> QED BY <1>1, <1>4, <1>5, <1>6, <1>8, <1>12 DEF StreamInv

\* Who ends a stream: the provider its own, forwardStream and a failed load the outer one.
LEMMA FailureEndsStep ==
    ASSUME StreamInv, Streams!FailureEnds
    PROVE  StreamInv' /\ ChannelStep
<1>1. /\ StreamTypes /\ loading = "failed" /\ loading' = "over" /\ Streams!Failed
      /\ Streams!End("outer", Streams!Complete, reader)
  BY DEF StreamInv, Streams!FailureEnds, Streams!Failed
<1>2. StateOK(reader) /\ "outer" \in Sides
  BY <1>1, ReaderIsOK, StreamFacts
<1>3. /\ stream' \in [Sides -> StreamRecord] /\ log' \in [Sides -> LogRecord]
      /\ reader' \in [Streams!Iterations -> ReaderRecord]
      /\ \A t \in Sides : StreamOK(t)'
      /\ \A t \in Sides : t # "outer" => stream'[t] = stream[t]
      /\ Ends("outer", reader)
  BY <1>1, <1>2, EndStep DEF StreamInv
<1> QED BY <1>1, <1>2, <1>3, EndKeeps

\* The provider ends the inner stream.
LEMMA ProviderEndsStep ==
    ASSUME StreamInv, Streams!ProviderEnds
    PROVE  StreamInv' /\ ChannelStep
<1>1. /\ StreamTypes /\ loading = "loaded" /\ loading' = "ended" /\ stream["inner"].done
      /\ Streams!End("inner", Nothing, reader)
  BY DEF StreamInv, Streams!ProviderEnds
<1>2. StateOK(reader) /\ "inner" \in Sides
  BY <1>1, ReaderIsOK, StreamFacts
<1>3. /\ stream' \in [Sides -> StreamRecord] /\ log' \in [Sides -> LogRecord]
      /\ reader' \in [Streams!Iterations -> ReaderRecord]
      /\ \A t \in Sides : StreamOK(t)'
      /\ \A t \in Sides : t # "inner" => stream'[t] = stream[t]
      /\ Ends("inner", reader)
  BY <1>1, <1>2, EndStep DEF StreamInv
<1> QED BY <1>1, <1>2, <1>3, EndKeeps

\* The loop of forwardStream is over: it ends the outer stream.
LEMMA ForwardEndStep ==
    ASSUME StreamInv, Streams!ForwardEnd
    PROVE  StreamInv' /\ ChannelStep
<1> DEFINE state == [reader EXCEPT ![Forwarder].pc = "over"]
<1>1. /\ StreamTypes /\ loading' = loading /\ reader[Forwarder].pc = "returned"
      /\ loading' \in {"loading", "loaded", "failed", "ended", "over"}
      /\ Streams!End("outer", Nothing, state)
  BY DEF StreamInv, StreamTypes, Streams!ForwardEnd
<1>2. /\ StateOK(state) /\ "outer" \in Sides /\ state[Forwarder].pc = "over"
      /\ \A i \in Streams!Iterations : i # Forwarder => state[i] = reader[i]
  <2>1. [reader[Forwarder] EXCEPT !.pc = "over"] \in ReaderRecord
    BY <1>1, StreamFacts DEF ReaderRecord
  <2>2. reader \in [Streams!Iterations -> ReaderRecord] /\ Forwarder \in Streams!Iterations
    BY <1>1, StreamFacts
  <2>3. state = [reader EXCEPT ![Forwarder] = [reader[Forwarder] EXCEPT !.pc = "over"]]
    OBVIOUS
  <2>4. /\ state \in [Streams!Iterations -> ReaderRecord]
        /\ state[Forwarder] = [reader[Forwarder] EXCEPT !.pc = "over"]
        /\ \A i \in Streams!Iterations : i # Forwarder => state[i] = reader[i]
    BY <2>1, <2>2, <2>3
  <2>5. state[Forwarder].pc = "over"
    BY <2>2, <2>4 DEF ReaderRecord
  <2> HIDE DEF state
  <2> QED BY <1>1, <2>4, <2>5, StreamFacts DEF StateOK
<1> HIDE DEF state
<1>3. /\ stream' \in [Sides -> StreamRecord] /\ log' \in [Sides -> LogRecord]
      /\ reader' \in [Streams!Iterations -> ReaderRecord]
      /\ \A t \in Sides : StreamOK(t)'
      /\ \A t \in Sides : t # "outer" => stream'[t] = stream[t]
      /\ Ends("outer", state)
  BY <1>1, <1>2, EndStep DEF StreamInv
<1>4. \A i \in Streams!Iterations : state[i] = reader[i]
         \/ (i = Forwarder /\ reader[i].pc = "returned" /\ state[i].pc = "over")
  BY <1>1, <1>2
<1> QED BY <1>1, <1>2, <1>3, <1>4, EndKeeps

\* The provider's module is there, and nothing else has changed.
LEMMA ModuleLoadsStep ==
    ASSUME StreamInv, Streams!ModuleLoads
    PROVE  StreamInv' /\ ChannelStep
<1>1. /\ loading = "loading" /\ loading' = "loaded" /\ stream' = stream /\ reader' = reader /\ log' = log
      /\ ~Streams!Failed /\ ~Streams!Failed'
  BY DEF Streams!ModuleLoads, Streams!Failed
<1>2. StreamInv'
  BY <1>1 DEF StreamInv, StreamTypes, StreamOK, IterationOK, CompleteIsLast, NothingYet, Forwarding, Held
<1>3. ChannelStep
  BY <1>1, MapsToStutter DEF Sent, Taken, Closed, Left, Streams!Returned
<1> QED BY <1>2, <1>3

\* The provider pushes an event, or the one that completes the stream.
LEMMA ProviderPushesStep ==
    ASSUME StreamInv, Streams!ProviderPushes
    PROVE  StreamInv' /\ ChannelStep
<1> DEFINE n == Len(log["inner"].accepted)
<1>1. n \in Nat
  BY StreamFacts DEF StreamInv
<1>2. CASE n < MaxDeltas /\ Streams!Push("inner", n + 1, reader)
  <2>1. n + 1 \in Events
    BY <1>1, <1>2, StreamAssumption DEF Events
  <2> QED BY <1>2, <2>1, ProviderPush DEF Streams!ProviderPushes
<1>3. CASE Streams!Push("inner", Streams!Complete, reader)
  BY <1>3, ProviderPush, CompleteIsEvent DEF Streams!ProviderPushes
<1> QED BY <1>2, <1>3 DEF Streams!ProviderPushes

\* forwardStream pushes the event it holds: to a waiting reader, or into the queue.
LEMMA ForwardStep ==
    ASSUME StreamInv, Streams!Forward
    PROVE  StreamInv' /\ ChannelStep
<1> DEFINE e == reader[Forwarder].event
           state == [reader EXCEPT ![Forwarder] = [pc |-> "idle", event |-> Nothing]]
           w == stream["outer"].waiting
           told == [pc |-> "resumed", event |-> e]
<1>1. /\ StreamTypes /\ reader[Forwarder].pc = "body" /\ loading' = loading /\ Streams!Push("outer", e, state)
      /\ e \in Events /\ Forwarder \in Streams!Iterations /\ "inner" \in Sides /\ "outer" \in Sides
      /\ reader \in [Streams!Iterations -> ReaderRecord]
  BY StreamFacts DEF StreamInv, IterationOK, Streams!Forward
<1>2. ~Streams!Failed /\ ~Streams!Failed' /\ loading \in {"loaded", "ended"}
  BY <1>1 DEF StreamInv, NothingYet, StreamTypes, Streams!Failed
<1>3. /\ Held = <<e>> /\ ~stream["outer"].done
      /\ log["inner"].handed = log["outer"].accepted \o <<e>>
  <2>1. Held = <<e>>
    BY <1>1 DEF Held
  <2> QED BY <1>2, <2>1 DEF StreamInv, Forwarding
<1>4. /\ state \in [Streams!Iterations -> ReaderRecord] /\ StateOK(state)
      /\ state[Forwarder] = [pc |-> "idle", event |-> Nothing]
      /\ \A i \in Streams!Iterations : i # Forwarder => state[i] = reader[i]
  <2>1. [pc |-> "idle", event |-> Nothing] \in ReaderRecord
    BY DEF ReaderRecord
  <2>2. /\ state \in [Streams!Iterations -> ReaderRecord]
        /\ state[Forwarder] = [pc |-> "idle", event |-> Nothing]
        /\ \A i \in Streams!Iterations : i # Forwarder => state[i] = reader[i]
    BY <1>1, <2>1
  <2> HIDE DEF state
  <2> QED BY <1>1, <2>2 DEF StateOK
<1> HIDE DEF state, e
<1>5. /\ stream' \in [Sides -> StreamRecord] /\ log' \in [Sides -> LogRecord]
      /\ reader' \in [Streams!Iterations -> ReaderRecord]
      /\ \A t \in Sides : StreamOK(t)'
      /\ \A t \in Sides : t # "outer" => stream'[t] = stream[t] /\ log'[t] = log[t]
      /\ Accepts("outer", e, state)
  BY <1>1, <1>4, PushStep DEF StreamInv
<1>6. StreamTypes'
  BY <1>1, <1>5 DEF StreamTypes, StreamRecord, LogRecord, ReaderRecord
<1>7. /\ log'["outer"].accepted = Append(log["outer"].accepted, e)
      /\ stream'["outer"].done = (e = Streams!Complete)
      /\ stream'["inner"] = stream["inner"] /\ log'["inner"] = log["inner"]
      /\ \/ log'["outer"].handed = log["outer"].handed
         \/ stream["outer"].queue = <<>> /\ log'["outer"].handed = Append(log["outer"].handed, e)
  BY <1>1, <1>3, <1>5 DEF Accepts, Sides
<1>8. /\ reader'[Forwarder] = [pc |-> "idle", event |-> Nothing]
      /\ \A i \in Streams!Iterations : i # Forwarder =>
            reader'[i] = reader[i] \/ (reader[i].pc = "waiting" /\ reader'[i] = told)
  <2>1. CASE w = <<>>
    BY <1>3, <1>4, <1>5, <2>1 DEF Accepts
  <2>2. CASE w # <<>>
    <3>1. /\ reader' = [state EXCEPT ![Head(w)] = told]
          /\ Head(w) \in Streams!Iterations /\ Streams!Reads(Head(w)) = "outer"
          /\ reader[Head(w)].pc = "waiting"
      BY <1>3, <1>5, <2>2 DEF Accepts
    <3>2. Head(w) # Forwarder
      BY <1>1, <3>1
    <3>3. \A i \in Streams!Iterations : reader'[i] = IF i = Head(w) THEN told ELSE state[i]
      <4> HIDE DEF told, w
      <4> QED BY <1>4, <3>1
    <3> QED BY <1>1, <1>4, <3>1, <3>2, <3>3
  <2> QED BY <2>1, <2>2
<1>9. CompleteIsLast' /\ NothingYet'
  <2>1. CompleteIsLast'
    BY <1>7 DEF StreamInv, CompleteIsLast
  <2>2. NothingYet'
    BY <1>1, <1>2 DEF NothingYet
  <2> QED BY <2>1, <2>2
<1>10. ASSUME NEW i \in Streams!Iterations
       PROVE  IterationOK(i)'
  <2>1. CASE i = Forwarder
    BY <1>8, <2>1 DEF IterationOK
  <2>2. CASE i # Forwarder
    <3>1. ~(reader[i].pc = "resumed" /\ reader[i].event = Nothing) /\ IterationOK(i)
      BY <1>1, <1>3, <2>2, StreamFacts DEF StreamInv, IterationOK
    <3>2. CASE reader'[i] = reader[i]
      BY <2>2, <3>1, <3>2 DEF IterationOK
    <3>3. CASE reader'[i] = told
      BY <1>1, <2>2, <3>3, CompleteIsEvent DEF IterationOK
    <3> QED BY <1>8, <2>2, <3>2, <3>3
  <2> QED BY <2>1, <2>2
<1>11. Forwarding'
  <2>1. Held' = <<>>
    BY <1>8 DEF Held
  <2>2. /\ log["outer"].accepted \in Seq(Events) /\ log["inner"].handed \in Seq(Events)
        /\ log["inner"].accepted \in Seq(Events) /\ stream["inner"].queue \in Seq(Events)
    BY <1>1, StreamFacts
  <2>3. /\ log["inner"].handed = Append(log["outer"].accepted, e)
        /\ log["inner"].handed = log["inner"].handed \o <<>>
    BY <1>1, <1>3, <2>2
  <2>4. ASSUME e = Streams!Complete
        PROVE  stream["inner"].done /\ stream["inner"].queue = <<>>
    <3> DEFINE h == log["inner"].handed
               q == stream["inner"].queue
               n == Len(h)
    <3>1. n \in Nat \ {0} /\ h[n] = e
      BY <1>1, <2>2, <2>3
    <3>2. log["inner"].accepted = h \o q
      BY <1>1, AcceptedIs
    <3> HIDE DEF h, q
    <3>3. /\ n \in DOMAIN (h \o q) /\ (h \o q)[n] = e
          /\ n = Len(h \o q) => q = <<>>
      <4>1. h # <<>> /\ h \in Seq(Events) /\ q \in Seq(Events)
        BY <2>2, <3>1 DEF h, q
      <4> QED BY <3>1, <4>1, FirstOfTwo
    <3>4. n = Len(h \o q) /\ stream["inner"].done
      BY <2>4, <3>2, <3>3 DEF StreamInv, CompleteIsLast
    <3> QED BY <3>3, <3>4 DEF q
  <2>5. log'["inner"].handed = log'["outer"].accepted \o Held'
    BY <1>7, <2>1, <2>3
  <2> QED BY <1>7, <2>1, <2>4, <2>5 DEF Forwarding
<1>12. Left' = Left
  <2>1. \A i \in Readers : reader'[i].pc = "returned" <=> reader[i].pc = "returned"
    BY <1>1, <1>8, StreamFacts
  <2> QED BY <2>1, LeftStays
<1>13. Sent' = Sent /\ Closed' = Closed /\ ~Streams!Failed
  BY <1>2, <1>7 DEF Sent, Closed
<1>14. StreamInv'
  BY <1>5, <1>6, <1>9, <1>10, <1>11 DEF StreamInv
<1>15. CASE log'["outer"].handed = log["outer"].handed
  <2>1. Taken' = Taken
    BY <1>15 DEF Taken
  <2> QED BY <1>12, <1>13, <1>14, <2>1, MapsToStutter
<1>16. CASE stream["outer"].queue = <<>> /\ log'["outer"].handed = Append(log["outer"].handed, e)
  <2>1. Len(Taken) < Len(Sent) /\ Sent[Len(Taken) + 1] = e
    BY <1>3, <1>13, <1>16, NextIsSent DEF e
  <2>2. Taken' = Append(Taken, Sent[Len(Taken) + 1])
    BY <1>16, <2>1 DEF Taken
  <2> QED BY <1>12, <1>13, <1>14, <2>1, <2>2, MapsToTake
<1> QED BY <1>7, <1>15, <1>16

\* An iteration goes on from where it neither waits nor is handed anything.
LEMMA IterationMoves ==
    ASSUME StreamInv, UNCHANGED <<stream, loading, log>>, NEW i \in Streams!Iterations,
           reader' \in [Streams!Iterations -> ReaderRecord], reader[i].pc \notin {"idle", "waiting"},
           \A j \in Streams!Iterations : j # i => reader'[j] = reader[j],
           IterationOK(i)', Held' = Held
    PROVE  StreamInv' /\ Sent' = Sent /\ Taken' = Taken /\ Closed' = Closed
<1>1. StreamTypes /\ (Streams!Failed' <=> Streams!Failed)
  BY DEF StreamInv, Streams!Failed
<1>2. StreamTypes'
  BY <1>1 DEF StreamTypes, ReaderRecord
<1>3. ASSUME NEW s \in Sides
      PROVE  StreamOK(s)'
  <2> DEFINE w == stream[s].waiting
  <2>1. StreamOK(s) /\ w \in Seq(Streams!Iterations)
    BY <1>1 DEF StreamInv, StreamTypes, StreamRecord
  <2>2. \A k \in DOMAIN w : reader'[w[k]].pc = "waiting"
    <3>1. \A k \in DOMAIN w : w[k] \in Streams!Iterations /\ reader[w[k]].pc = "waiting"
      BY <2>1 DEF StreamOK
    <3> QED BY <3>1
  <2> QED BY <2>1, <2>2 DEF StreamOK
<1>4. ASSUME NEW j \in Streams!Iterations
      PROVE  IterationOK(j)'
  BY DEF StreamInv, IterationOK
<1>5. CompleteIsLast' /\ Forwarding'
  BY <1>1 DEF StreamInv, CompleteIsLast, Forwarding
<1>6. NothingYet'
  BY <1>1, StreamFacts DEF StreamInv, NothingYet
<1>7. Sent' = Sent /\ Taken' = Taken /\ Closed' = Closed
  BY <1>1 DEF Sent, Taken, Closed
<1> QED BY <1>2, <1>3, <1>4, <1>5, <1>6, <1>7 DEF StreamInv

\* The body of a reader's loop.
LEMMA ReadStep ==
    ASSUME StreamInv, NEW i \in Streams!Iterations, Streams!Read(i)
    PROVE  StreamInv' /\ ChannelStep
<1>1. /\ StreamTypes /\ i \in Readers /\ i # Forwarder /\ reader[i].pc = "body"
      /\ reader' = [reader EXCEPT ![i] = [pc |-> "idle", event |-> Nothing]]
      /\ UNCHANGED <<stream, loading, log>> /\ reader \in [Streams!Iterations -> ReaderRecord]
  BY StreamFacts DEF StreamInv, Streams!Read
<1>2. /\ reader' \in [Streams!Iterations -> ReaderRecord]
      /\ \A j \in Streams!Iterations : j # i => reader'[j] = reader[j]
      /\ reader'[i].pc = "idle"
  <2>1. [pc |-> "idle", event |-> Nothing] \in ReaderRecord
    BY DEF ReaderRecord
  <2> QED BY <1>1, <2>1
<1>3. IterationOK(i)'
  BY <1>1, <1>2 DEF IterationOK
<1>4. Held' = Held
  BY <1>1, <1>2, StreamFacts DEF Held
<1>5. StreamInv' /\ Sent' = Sent /\ Taken' = Taken /\ Closed' = Closed
  BY <1>1, <1>2, <1>3, <1>4, IterationMoves
<1>6. Left' = Left
  <2>1. \A j \in Readers : reader'[j].pc = "returned" <=> reader[j].pc = "returned"
    BY <1>1, <1>2, StreamFacts
  <2> QED BY <2>1, LeftStays
<1> QED BY <1>5, <1>6, MapsToStutter

\* A waiter whose promise was resolved: with an event it goes on, without one it returns.
LEMMA ResumeStep ==
    ASSUME StreamInv, NEW i \in Streams!Iterations, Streams!Resume(i)
    PROVE  StreamInv' /\ ChannelStep
<1> DEFINE e == reader[i].event
           to == IF e = Nothing THEN "returned" ELSE "body"
<1>1. /\ StreamTypes /\ reader[i].pc = "resumed"
      /\ UNCHANGED <<stream, loading, log>> /\ reader \in [Streams!Iterations -> ReaderRecord]
      /\ reader' = [reader EXCEPT ![i].pc = to] /\ IterationOK(i)
  BY StreamFacts DEF StreamInv, Streams!Resume
<1>2. /\ reader' \in [Streams!Iterations -> ReaderRecord]
      /\ \A j \in Streams!Iterations : j # i => reader'[j] = reader[j]
      /\ reader'[i].pc = to /\ reader'[i].event = e
  <2>1. /\ [reader[i] EXCEPT !.pc = to] \in ReaderRecord
        /\ [reader[i] EXCEPT !.pc = to].pc = to /\ [reader[i] EXCEPT !.pc = to].event = e
    BY <1>1 DEF ReaderRecord
  <2>2. reader' = [reader EXCEPT ![i] = [reader[i] EXCEPT !.pc = to]]
    BY <1>1
  <2> HIDE DEF to, e
  <2> QED BY <1>1, <2>1, <2>2
<1>3. e # Nothing => e \in Events
  BY <1>1 DEF ReaderRecord
<1>4. IterationOK(i)'
  BY <1>1, <1>2, <1>3 DEF IterationOK
<1>5. Held' = Held
  <2>1. CASE i = Forwarder
    BY <1>1, <1>2, <2>1 DEF Held
  <2>2. CASE i # Forwarder
    BY <1>1, <1>2, <2>2, StreamFacts DEF Held
  <2> QED BY <2>1, <2>2
<1>6. StreamInv' /\ Sent' = Sent /\ Taken' = Taken /\ Closed' = Closed
  BY <1>1, <1>2, <1>4, <1>5, IterationMoves
<1>7. CASE i = Forwarder \/ e # Nothing
  <2>1. \A j \in Readers : reader'[j].pc = "returned" <=> reader[j].pc = "returned"
    BY <1>1, <1>2, <1>7, StreamFacts
  <2> QED BY <1>6, <2>1, LeftStays, MapsToStutter
<1>8. CASE i # Forwarder /\ e = Nothing
  <2>1. i \in Readers /\ stream["outer"].done /\ stream["outer"].queue = <<>>
    BY <1>1, <1>8, StreamFacts DEF IterationOK
  <2>2. Left' = Left \cup {i}
    BY <1>1, <1>2, <1>8, <2>1, StreamFacts DEF Left, Streams!Returned
  <2>3. Closed /\ Taken = Sent
    BY <2>1, AllIsTaken
  <2>4. Closed \in BOOLEAN
    BY <1>1, StreamFacts DEF Closed
  <2> QED BY <1>6, <2>1, <2>2, <2>3, <2>4, MapsToLeave
<1> QED BY <1>7, <1>8

\* forwardStream asks the inner stream for the next event; the channel sees nothing of it.
LEMMA ForwarderIterates ==
    ASSUME StreamInv, Streams!Iterate(Forwarder)
    PROVE  StreamInv' /\ ChannelStep
<1> DEFINE q == stream["inner"].queue
<1>1. /\ StreamTypes /\ reader[Forwarder].pc = "idle" /\ loading' = loading
      /\ loading \in {"loaded", "ended"} /\ ~Streams!Failed /\ ~Streams!Failed'
      /\ Forwarder \in Streams!Iterations /\ Streams!Reads(Forwarder) = "inner"
      /\ "inner" \in Sides /\ "outer" \in Sides /\ q \in Seq(Events)
      /\ stream["inner"].done \in BOOLEAN /\ log["outer"].accepted \in Seq(Events)
  BY StreamFacts DEF StreamInv, Streams!Iterate, Streams!Failed
<1>2. /\ stream' \in [Sides -> StreamRecord] /\ log' \in [Sides -> LogRecord]
      /\ reader' \in [Streams!Iterations -> ReaderRecord]
      /\ \A t \in Sides : StreamOK(t)'
      /\ \A t \in Sides : t # "inner" => stream'[t] = stream[t] /\ log'[t] = log[t]
      /\ Iterates(Forwarder)
  BY <1>1, IterateStep DEF StreamInv
<1>3. StreamTypes'
  BY <1>1, <1>2 DEF StreamTypes, StreamRecord, LogRecord, ReaderRecord
<1>4. /\ stream'["outer"] = stream["outer"] /\ log'["outer"] = log["outer"]
      /\ stream'["inner"].done = stream["inner"].done
      /\ log'["inner"].accepted = log["inner"].accepted
      /\ \A j \in Streams!Iterations : j # Forwarder => reader'[j] = reader[j]
      /\ \/ /\ q # <<>> /\ Head(q) \in Events
            /\ log'["inner"].handed = Append(log["inner"].handed, Head(q))
            /\ reader'[Forwarder] = [pc |-> "body", event |-> Head(q)]
         \/ /\ q = <<>> /\ stream'["inner"].queue = <<>> /\ log'["inner"].handed = log["inner"].handed
            /\ reader'[Forwarder].pc = IF stream["inner"].done THEN "returned" ELSE "waiting"
  BY <1>1, <1>2 DEF Iterates, Sides
<1> HIDE DEF q
<1>5. CompleteIsLast' /\ NothingYet'
  BY <1>1, <1>4 DEF StreamInv, CompleteIsLast, NothingYet
<1>6. ASSUME NEW i \in Streams!Iterations
      PROVE  IterationOK(i)'
  <2>1. CASE i = Forwarder
    BY <1>1, <1>4, <2>1 DEF IterationOK
  <2>2. CASE i # Forwarder
    BY <1>1, <1>4, <2>2, StreamFacts DEF StreamInv, IterationOK
  <2> QED BY <2>1, <2>2
<1>7. Held = <<>> /\ log["inner"].handed = log["outer"].accepted
  <2>1. Held = <<>>
    BY <1>1 DEF Held
  <2> QED BY <1>1, <2>1 DEF StreamInv, Forwarding
<1>8. Sent' = Sent /\ Taken' = Taken /\ Closed' = Closed
  BY <1>1, <1>4 DEF Sent, Taken, Closed
<1>9. Left' = Left
  <2>1. \A j \in Readers : reader'[j].pc = "returned" <=> reader[j].pc = "returned"
    BY <1>1, <1>4, StreamFacts
  <2> QED BY <2>1, LeftStays
<1>10. ChannelStep
  BY <1>8, <1>9, MapsToStutter
<1>11. CASE q # <<>>
  <2>1. /\ Held' = <<Head(q)>> /\ ~stream["outer"].done
        /\ log'["inner"].handed = Append(log["outer"].accepted, Head(q))
    BY <1>1, <1>4, <1>7, <1>11 DEF Held, StreamInv, Forwarding, q
  <2>2. Append(log["outer"].accepted, Head(q)) = log["outer"].accepted \o <<Head(q)>>
    BY <1>1, <1>4, <1>11
  <2>3. log'["inner"].handed = log'["outer"].accepted \o Held'
    BY <1>4, <2>1, <2>2
  <2>4. Forwarding'
    BY <1>4, <2>1, <2>3 DEF Forwarding
  <2> QED BY <1>2, <1>3, <1>5, <1>6, <1>10, <2>4 DEF StreamInv
<1>12. CASE q = <<>>
  <2>1. Held' = <<>>
    BY <1>1, <1>4, <1>12 DEF Held
  <2>2. Forwarding'
    BY <1>1, <1>4, <1>7, <1>12, <2>1 DEF StreamInv, Forwarding
  <2> QED BY <1>2, <1>3, <1>5, <1>6, <1>10, <2>2 DEF StreamInv
<1> QED BY <1>11, <1>12

\* A reader takes the next event of the channel, or leaves it, or waits.
LEMMA ReaderIterates ==
    ASSUME StreamInv, NEW i \in Streams!Iterations, i # Forwarder, Streams!Iterate(i)
    PROVE  StreamInv' /\ ChannelStep
<1> DEFINE q == stream["outer"].queue
<1>1. /\ StreamTypes /\ reader[i].pc = "idle" /\ loading' = loading /\ i \in Readers
      /\ (Streams!Failed' <=> Streams!Failed)
      /\ Forwarder \in Streams!Iterations /\ Streams!Reads(i) = "outer"
      /\ "inner" \in Sides /\ "outer" \in Sides /\ stream["outer"].done \in BOOLEAN
  BY StreamFacts DEF StreamInv, Streams!Iterate, Streams!Failed
<1>2. /\ stream' \in [Sides -> StreamRecord] /\ log' \in [Sides -> LogRecord]
      /\ reader' \in [Streams!Iterations -> ReaderRecord]
      /\ \A t \in Sides : StreamOK(t)'
      /\ \A t \in Sides : t # "outer" => stream'[t] = stream[t] /\ log'[t] = log[t]
      /\ Iterates(i)
  BY <1>1, IterateStep DEF StreamInv
<1>3. StreamTypes'
  BY <1>1, <1>2 DEF StreamInv, StreamTypes, StreamRecord, LogRecord, ReaderRecord
<1>4. /\ stream'["inner"] = stream["inner"] /\ log'["inner"] = log["inner"]
      /\ stream'["outer"].done = stream["outer"].done
      /\ log'["outer"].accepted = log["outer"].accepted
      /\ \A j \in Streams!Iterations : j # i => reader'[j] = reader[j]
      /\ \/ /\ q # <<>> /\ Head(q) \in Events
            /\ log'["outer"].handed = Append(log["outer"].handed, Head(q))
            /\ reader'[i] = [pc |-> "body", event |-> Head(q)]
         \/ /\ q = <<>> /\ stream'["outer"].queue = <<>> /\ log'["outer"].handed = log["outer"].handed
            /\ reader'[i].pc = IF stream["outer"].done THEN "returned" ELSE "waiting"
  BY <1>1, <1>2 DEF Iterates, Sides
<1> HIDE DEF q
<1>5. CompleteIsLast' /\ NothingYet'
  BY <1>1, <1>4 DEF StreamInv, CompleteIsLast, NothingYet
<1>6. ASSUME NEW j \in Streams!Iterations
      PROVE  IterationOK(j)'
  <2>1. CASE j = i
    BY <1>1, <1>4, <2>1 DEF IterationOK
  <2>2. CASE j = Forwarder
    BY <1>1, <1>4, <2>2, StreamFacts DEF StreamInv, IterationOK
  <2>3. CASE j # i /\ j # Forwarder
    BY <1>1, <1>4, <2>3, StreamFacts DEF StreamInv, IterationOK, q
  <2> QED BY <2>1, <2>2, <2>3
<1>7. Forwarding'
  <2>1. Held' = Held
    BY <1>1, <1>4 DEF Held
  <2> QED BY <1>1, <1>4, <2>1 DEF StreamInv, Forwarding
<1>8. StreamInv'
  BY <1>2, <1>3, <1>5, <1>6, <1>7 DEF StreamInv
<1>9. Sent' = Sent /\ Closed' = Closed /\ Closed \in BOOLEAN
  <2>1. stream["inner"].done \in BOOLEAN
    BY <1>1, StreamFacts
  <2> QED BY <1>1, <1>4, <2>1 DEF Sent, Closed
<1>10. CASE q # <<>>
  <2>1. Len(Taken) < Len(Sent) /\ Sent[Len(Taken) + 1] = Head(q)
    BY <1>10, NextIsSent DEF q
  <2>2. Taken' = Append(Taken, Sent[Len(Taken) + 1])
    BY <1>4, <1>10, <2>1 DEF Taken
  <2>3. Left' = Left
    <3>1. \A j \in Readers : reader'[j].pc = "returned" <=> reader[j].pc = "returned"
      BY <1>1, <1>4, <1>10, StreamFacts
    <3> QED BY <3>1, LeftStays
  <2> QED BY <1>8, <1>9, <2>1, <2>2, <2>3, MapsToTake
<1>11. CASE q = <<>> /\ stream["outer"].done
  <2>1. Closed /\ Taken = Sent
    BY <1>11, AllIsTaken DEF q
  <2>2. Taken' = Taken
    BY <1>4, <1>11 DEF Taken
  <2>3. Left' = Left \cup {i}
    BY <1>1, <1>4, <1>11, StreamFacts DEF Left, Streams!Returned
  <2> QED BY <1>1, <1>8, <1>9, <2>1, <2>2, <2>3, MapsToLeave
<1>12. CASE q = <<>> /\ ~stream["outer"].done
  <2>1. Taken' = Taken
    BY <1>4, <1>12 DEF Taken
  <2>2. Left' = Left
    <3>1. \A j \in Readers : reader'[j].pc = "returned" <=> reader[j].pc = "returned"
      BY <1>1, <1>4, <1>12, StreamFacts
    <3> QED BY <3>1, LeftStays
  <2> QED BY <1>8, <1>9, <2>1, <2>2, MapsToStutter
<1> QED BY <1>10, <1>11, <1>12

\* Every step keeps the invariant and is a step of the channel or a stutter.
LEMMA StreamStep ==
    ASSUME StreamInv, [Streams!Next]_streamVars
    PROVE  StreamInv' /\ ChannelStep
<1>1. ASSUME NEW i \in Streams!Iterations, Streams!Iterate(i) \/ Streams!Resume(i) \/ Streams!Read(i)
      PROVE  StreamInv' /\ ChannelStep
  BY <1>1, ForwarderIterates, ReaderIterates, ResumeStep, ReadStep
<1>2. CASE UNCHANGED streamVars
  <2>1. UNCHANGED <<stream, reader, loading, log>>
    BY <1>2 DEF streamVars
  <2>2. StreamInv'
    BY <2>1 DEF StreamInv, StreamTypes, StreamOK, IterationOK, CompleteIsLast, NothingYet, Forwarding,
                Held, Streams!Failed
  <2>3. ChannelStep
    BY <2>1, MapsToStutter DEF Sent, Taken, Closed, Left, Streams!Returned, Streams!Failed
  <2> QED BY <2>2, <2>3
<1> QED BY <1>1, <1>2, ForwardStep, ForwardEndStep, ModuleLoadsStep, ModuleFailsStep,
           FailureEndsStep, ProviderPushesStep, ProviderEndsStep DEF Streams!Next

\* EventStream and forwardStream: for every number of readers and of events, the two
\* streams are one channel. Every event the provider pushed before it ended its stream
\* (or the error event when its module did not load) reaches exactly one reader, in order,
\* and no reader returns while an event is under way.
THEOREM StreamsAreOneChannel == Streams!Spec => ImplementsChannel
<1>1. Streams!Init => StreamInv
  BY StreamInit
<1>2. StreamInv /\ [Streams!Next]_streamVars => StreamInv' /\ ChannelStep
  BY StreamStep
<1>3. Streams!Init => Streams!Channel!Init
  BY DEF Streams!Init, Streams!Channel!Init, Streams!Failed, Streams!Returned, Streams!Iterations
<1>4. Streams!vars = streamVars
  BY DEF Streams!vars, streamVars
<1> QED BY <1>1, <1>2, <1>3, PTL
    DEF Streams!Spec, Streams!vars, streamVars, ChannelStep, ImplementsChannel,
        Streams!ImplementsChannel, Streams!Channel!Spec, Sent, Taken, Closed, Left

=============================================================================
