---------------------------- MODULE EventStream -----------------------------
(***************************************************************************)
(* EventStream (ai/src/utils/event-stream.ts) and the pair of streams that *)
(* carries the events of a lazily loaded provider to the agent loop        *)
(* (ai/src/providers/register-builtins.ts): the provider pushes into the   *)
(* inner stream, forwardStream pulls from it and pushes into the outer     *)
(* one, readers iterate over the outer one.                                *)
(***************************************************************************)
EXTENDS Naturals, Sequences, Functions

CONSTANTS
    Readers,        \* iterations over the outer stream
    MaxDeltas,      \* bound on the events before the last one
    Forwarder, Nothing

Complete == 0       \* a done or an error event; the events before it count from 1
Iterations == Readers \cup {Forwarder}
Reads(i) == IF i = Forwarder THEN "inner" ELSE "outer"

VARIABLES
    stream,     \* stream[s]: queue, waiting, done and the final result
    reader,     \* reader[i]: where an iteration stands and the event it got
    loading,    \* the module of the provider: "loading", "loaded", "failed"
    log         \* log[s]: what the stream accepted and what it handed out

vars == <<stream, reader, loading, log>>

-----------------------------------------------------------------------------

Pushed(s, e) ==
    IF s.done THEN s
    ELSE [s EXCEPT !.done = (e = Complete), !.result = IF e = Complete /\ @ = Nothing THEN e ELSE @,
                   !.queue = IF s.waiting = <<>> THEN Append(@, e) ELSE @,
                   !.waiting = IF @ = <<>> THEN @ ELSE Tail(@)]

\* push(): the oldest waiter gets the event, or the queue.
Push(s, e, state) ==
    LET old == stream[s]
        hand == ~old.done /\ old.waiting # <<>>
    IN  /\ stream' = [stream EXCEPT ![s] = Pushed(old, e)]
        /\ reader' = IF hand THEN [state EXCEPT ![Head(old.waiting)] = [pc |-> "resumed", event |-> e]]
                     ELSE state
        /\ log' = [log EXCEPT ![s].accepted = IF old.done THEN @ ELSE Append(@, e),
                              ![s].handed = IF hand THEN Append(@, e) ELSE @]

\* Mutant: the waiters are not told.
EndUnheard(s, result, state) ==
    /\ stream' = [stream EXCEPT ![s].done = TRUE, ![s].result = IF @ = Nothing THEN result ELSE @]
    /\ reader' = state
    /\ UNCHANGED log

\* end(): all waiters learn that nothing follows.
End(s, result, state) ==
    LET old == stream[s] IN
    /\ stream' = [stream EXCEPT ![s] = [old EXCEPT !.done = TRUE, !.waiting = <<>>,
                                                   !.result = IF @ = Nothing THEN result ELSE @]]
    /\ reader' = [i \in Iterations |-> IF i \in Range(old.waiting)
                                       THEN [pc |-> "resumed", event |-> Nothing] ELSE state[i]]
    /\ UNCHANGED log

\* Mutant: a closed stream is left with its queue.
IterateDoneFirst(i) ==
    LET s == Reads(i) IN
    /\ reader[i].pc = "idle" /\ (i = Forwarder => loading \in {"loaded", "ended"})
    /\ \/ /\ ~stream[s].done /\ stream[s].queue # <<>>
          /\ stream' = [stream EXCEPT ![s].queue = Tail(@)]
          /\ reader' = [reader EXCEPT ![i] = [pc |-> "body", event |-> Head(stream[s].queue)]]
          /\ log' = [log EXCEPT ![s].handed = Append(@, Head(stream[s].queue))]
       \/ /\ stream[s].done
          /\ reader' = [reader EXCEPT ![i].pc = "returned"]
          /\ UNCHANGED <<stream, log>>
       \/ /\ stream[s].queue = <<>> /\ ~stream[s].done
          /\ stream' = [stream EXCEPT ![s].waiting = Append(@, i)]
          /\ reader' = [reader EXCEPT ![i].pc = "waiting"]
          /\ UNCHANGED log
    /\ UNCHANGED loading

\* The iterator: the next event of the queue, the end, or a wait.
Iterate(i) ==
    LET s == Reads(i) IN
    /\ reader[i].pc = "idle" /\ (i = Forwarder => loading \in {"loaded", "ended"})
    /\ \/ /\ stream[s].queue # <<>>
          /\ stream' = [stream EXCEPT ![s].queue = Tail(@)]
          /\ reader' = [reader EXCEPT ![i] = [pc |-> "body", event |-> Head(stream[s].queue)]]
          /\ log' = [log EXCEPT ![s].handed = Append(@, Head(stream[s].queue))]
       \/ /\ stream[s].queue = <<>> /\ stream[s].done
          /\ reader' = [reader EXCEPT ![i].pc = "returned"]
          /\ UNCHANGED <<stream, log>>
       \/ /\ stream[s].queue = <<>> /\ ~stream[s].done
          /\ stream' = [stream EXCEPT ![s].waiting = Append(@, i)]
          /\ reader' = [reader EXCEPT ![i].pc = "waiting"]
          /\ UNCHANGED log
    /\ UNCHANGED loading

\* A waiter whose promise was resolved runs again.
Resume(i) ==
    /\ reader[i].pc = "resumed"
    /\ reader' = [reader EXCEPT ![i].pc = IF reader[i].event = Nothing THEN "returned" ELSE "body"]
    /\ UNCHANGED <<stream, loading, log>>

\* The body of a reader's loop.
Read(i) ==
    /\ i \in Readers /\ reader[i].pc = "body"
    /\ reader' = [reader EXCEPT ![i] = [pc |-> "idle", event |-> Nothing]]
    /\ UNCHANGED <<stream, loading, log>>

\* forwardStream: the body pushes, the end of the loop ends the outer stream.
Forward ==
    /\ reader[Forwarder].pc = "body"
    /\ Push("outer", reader[Forwarder].event,
            [reader EXCEPT ![Forwarder] = [pc |-> "idle", event |-> Nothing]])
    /\ UNCHANGED loading

ForwardEnd ==
    /\ reader[Forwarder].pc = "returned"
    /\ End("outer", Nothing, [reader EXCEPT ![Forwarder].pc = "over"])
    /\ UNCHANGED loading

-----------------------------------------------------------------------------
(* The provider: events, one that completes, and the end.                  *)

ModuleLoads ==
    /\ loading = "loading" /\ loading' = "loaded"
    /\ UNCHANGED <<stream, reader, log>>

\* The module does not load: an error event, then the end.
ModuleFails ==
    /\ loading = "loading" /\ loading' = "failed"
    /\ Push("outer", Complete, reader)

FailureEnds ==
    /\ loading = "failed" /\ End("outer", Complete, reader)
    /\ loading' = "over"

ProviderPushes ==
    /\ loading = "loaded"
    /\ LET n == Len(log["inner"].accepted) IN
       \/ n < MaxDeltas /\ Push("inner", n + 1, reader)
       \/ Push("inner", Complete, reader)
    /\ UNCHANGED loading

ProviderEnds ==
    /\ loading = "loaded" /\ stream["inner"].done
    /\ End("inner", Nothing, reader)
    /\ loading' = "ended"

Init ==
    /\ stream = [s \in {"inner", "outer"} |->
                   [queue |-> <<>>, waiting |-> <<>>, done |-> FALSE, result |-> Nothing]]
    /\ reader = [i \in Iterations |-> [pc |-> "idle", event |-> Nothing]]
    /\ loading = "loading"
    /\ log = [s \in {"inner", "outer"} |-> [accepted |-> <<>>, handed |-> <<>>]]

Next ==
    \/ \E i \in Iterations : Iterate(i) \/ Resume(i) \/ Read(i)
    \/ Forward \/ ForwardEnd
    \/ ModuleLoads \/ ModuleFails \/ FailureEnds \/ ProviderPushes \/ ProviderEnds

Spec == Init /\ [][Next]_vars

-----------------------------------------------------------------------------
(* Properties.                                                             *)

\* The types of the variables.
TypeOK ==
    LET Events == 0..MaxDeltas IN
    /\ \A s \in {"inner", "outer"} :
          /\ Range(stream[s].queue) \subseteq Events
          /\ Range(stream[s].waiting) \subseteq {i \in Iterations : Reads(i) = s}
          /\ stream[s].done \in BOOLEAN
          /\ stream[s].result \in {Nothing, Complete}
          /\ Range(log[s].accepted) \cup Range(log[s].handed) \subseteq Events
    /\ reader \in [Iterations -> [pc : {"idle", "waiting", "resumed", "body", "returned", "over"},
                                  event : Events \cup {Nothing}]]
    /\ loading \in {"loading", "loaded", "failed", "ended", "over"}

Returned == {i \in Readers : reader[i].pc = "returned"}

Failed == loading \in {"failed", "over"}

\* Through both streams every event reaches one reader, once and in order, and
\* no reader returns while an event is under way.
Channel == INSTANCE EventChannel WITH
    Event <- 0..MaxDeltas, Reader <- Readers,
    sent <- IF Failed THEN log["outer"].accepted ELSE log["inner"].accepted,
    taken <- log["outer"].handed,
    closed <- IF Failed THEN stream["outer"].done ELSE stream["inner"].done,
    left <- Returned

ImplementsChannel == Channel!Spec

\* When the provider has ended its stream, or failed to load, no reader of the
\* outer stream waits for ever, and result() settles: the loop awaits it.
ReadersReturn ==
    loading \in {"failed", "ended"} ~> Returned = Readers /\ stream["outer"].result # Nothing

=============================================================================
