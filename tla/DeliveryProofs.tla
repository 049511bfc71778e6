--------------------------- MODULE DeliveryProofs ---------------------------
(***************************************************************************)
(* The agent of AgentRun delivers messages as MessageDelivery promises,    *)
(* for every number of messages, turns, calls and failures and for every   *)
(* queue mode: each message is in one place, and what it was handed to     *)
(* keeps its order.                                                        *)
(***************************************************************************)
EXTENDS MCAgentRun, AgentRunProofs, FiniteSetTheorems

-----------------------------------------------------------------------------
(* The invariant *)

\* Messages are numbered as they are handed over, so a queue is increasing.
Increasing(q) == \A i, j \in 1..Len(q) : i < j => q[i] < q[j]

Before(A, B) == \A m \in A, n \in B : m < n

\* The loop holds messages only while it emits them or is about to.
PendingPhase == pending # <<>> => phase \in {"prompts", "inject", "prepare", "secondPoll"}

\* The queues and the pending list keep the order of the calls, and what is
\* pending of a source is older than what is in its queue.
OrderInv ==
    /\ Increasing(steeringQueue) /\ Increasing(followUpQueue) /\ Increasing(pending)
    /\ \A m \in Range(steeringQueue) : origin[m] = "steer"
    /\ \A m \in Range(followUpQueue) : origin[m] = "followUp"
    /\ Before({m \in Range(pending) : origin[m] = "steer"}, Range(steeringQueue))
    /\ Before({m \in Range(pending) : origin[m] = "followUp"}, Range(followUpQueue))

InQueues == Range(steeringQueue) \cup Range(followUpQueue)
Gone == discarded \cup dropped

\* A message is queued, pending, in the transcript, or given up in one way.
PlaceInv ==
    /\ \A m \in Msg : m \in InQueues \cup Range(pending) \cup Delivered \cup Gone
    /\ Delivered \subseteq Msg
    /\ Range(pending) \cap InQueues = {}
    /\ Delivered \cap (InQueues \cup Range(pending)) = {}
    /\ Gone \cap (InQueues \cup Range(pending) \cup Delivered) = {}
    /\ discarded \cap dropped = {}
    /\ failures = 0 => dropped = {}

DeliveryInv == PendingPhase /\ OrderInv /\ PlaceInv

-----------------------------------------------------------------------------
(* Queues as sets *)

\* A message that is newer than all of a queue extends it.
LEMMA AppendedQueue ==
    ASSUME NEW q \in Seq(Nat), NEW m \in Nat, Increasing(q), \A n \in Range(q) : n < m
    PROVE  Increasing(Append(q, m)) /\ Range(Append(q, m)) = Range(q) \cup {m}
<1>1. /\ Append(q, m) \in Seq(Nat) /\ Len(Append(q, m)) = Len(q) + 1
      /\ \A i \in 1..Len(q) : Append(q, m)[i] = q[i]
      /\ Append(q, m)[Len(q) + 1] = m
    BY AppendProperties
<1>2. /\ Range(q) = {q[i] : i \in 1..Len(q)}
      /\ Range(Append(q, m)) = {Append(q, m)[i] : i \in 1..(Len(q) + 1)}
    BY <1>1, RangeEquality
<1>3. Len(q) \in Nat
    OBVIOUS
<1>4. Range(Append(q, m)) = Range(q) \cup {m}
    <2>1. \A i \in 1..(Len(q) + 1) : Append(q, m)[i] \in Range(q) \cup {m}
        BY <1>1, <1>2, <1>3
    <2>2. \A i \in 1..Len(q) : q[i] \in Range(Append(q, m))
        BY <1>1, <1>2, <1>3
    <2>3. m \in Range(Append(q, m))
        BY <1>1, <1>2, <1>3
    <2> QED BY <1>2, <2>1, <2>2, <2>3
<1>5. Increasing(Append(q, m))
    <2> SUFFICES ASSUME NEW i \in 1..(Len(q) + 1), NEW j \in 1..(Len(q) + 1), i < j
                 PROVE  Append(q, m)[i] < Append(q, m)[j]
        BY <1>1 DEF Increasing
    <2>1. i \in 1..Len(q) /\ Append(q, m)[i] = q[i] /\ q[i] \in Range(q)
        BY <1>1, <1>2, <1>3
    <2>2. CASE j = Len(q) + 1
        BY <1>1, <2>1, <2>2
    <2>3. CASE j \in 1..Len(q)
        BY <1>1, <2>1, <2>3 DEF Increasing
    <2> QED BY <1>3, <2>2, <2>3
<1> QED BY <1>4, <1>5

\* Its head is the oldest message of a queue and not in its tail.
LEMMA ShortenedQueue ==
    ASSUME NEW q \in Seq(Nat), Increasing(q), q # <<>>
    PROVE  /\ Head(q) \in Range(q) /\ \A n \in Range(q) : Head(q) <= n
           /\ Increasing(Tail(q)) /\ Range(Tail(q)) = Range(q) \ {Head(q)}
<1>1. /\ Len(q) \in Nat \ {0} /\ Head(q) = q[1] /\ Tail(q) \in Seq(Nat)
      /\ Len(Tail(q)) = Len(q) - 1 /\ \A i \in 1..(Len(q) - 1) : Tail(q)[i] = q[i + 1]
      /\ \A i \in 1..Len(q) : q[i] \in Nat
    BY HeadTailProperties, EmptySeq
<1>2. /\ Range(q) = {q[i] : i \in 1..Len(q)}
      /\ Range(Tail(q)) = {Tail(q)[i] : i \in 1..(Len(q) - 1)}
    BY <1>1, RangeEquality
<1>3. \A i \in 1..Len(q) : i # 1 => q[1] < q[i]
    BY <1>1 DEF Increasing
<1>4. Increasing(Tail(q))
    BY <1>1 DEF Increasing
<1>5. Range(Tail(q)) = Range(q) \ {Head(q)}
    <2>1. ASSUME NEW i \in 1..(Len(q) - 1) PROVE Tail(q)[i] \in Range(q) \ {Head(q)}
        <3>1. i + 1 \in 1..Len(q) /\ i + 1 # 1 /\ 1 \in 1..Len(q)
            BY <1>1
        <3>2. q[1] < q[i + 1] /\ q[1] \in Nat /\ q[i + 1] \in Nat
            BY <1>1, <1>3, <3>1
        <3>3. q[i + 1] # q[1]
            BY <3>2
        <3> QED BY <1>1, <1>2, <3>1, <3>3
    <2>2. ASSUME NEW i \in 1..Len(q), q[i] # Head(q) PROVE q[i] \in Range(Tail(q))
        <3>1. i # 1 /\ i - 1 \in 1..(Len(q) - 1) /\ Tail(q)[i - 1] = q[i]
            BY <1>1, <2>2
        <3> QED BY <1>2, <3>1
    <2> QED BY <1>2, <2>1, <2>2
<1>6. Head(q) \in Range(q) /\ \A n \in Range(q) : Head(q) <= n
    BY <1>1, <1>2, <1>3
<1> QED BY <1>4, <1>5, <1>6

\* drain() splits a queue into an older and a newer part, whatever the mode.
LEMMA DrainedQueue ==
    ASSUME NEW q \in Seq(Nat), Increasing(q), NEW mode
    PROVE  /\ Increasing(Drained(q, mode)) /\ Increasing(Undrained(q, mode))
           /\ Range(Drained(q, mode)) \cup Range(Undrained(q, mode)) = Range(q)
           /\ Before(Range(Drained(q, mode)), Range(Undrained(q, mode)))
<1>0. Increasing(<<>>) /\ Range(<<>>) = {}
    <2>1. <<>> \in Seq(Nat) /\ Len(<<>>) = 0
        BY EmptySeq
    <2>2. Range(<<>>) = {<<>>[i] : i \in 1..0}
        BY <2>1, RangeEquality
    <2> QED BY <2>1, <2>2 DEF Increasing
<1>1. CASE mode = "all" \/ q = <<>>
    BY <1>0, <1>1 DEF Drained, Undrained, Before
<1>2. CASE mode # "all" /\ q # <<>>
    <2>1. Head(q) \in Nat
        BY <1>2, HeadTailProperties
    <2>2. <<Head(q)>> \in Seq(Nat) /\ Len(<<Head(q)>>) = 1 /\ <<Head(q)>>[1] = Head(q)
        BY <2>1
    <2>3. Increasing(<<Head(q)>>) /\ Range(<<Head(q)>>) = {Head(q)}
        <3>1. Range(<<Head(q)>>) = {<<Head(q)>>[i] : i \in 1..1}
            BY <2>2, RangeEquality
        <3> QED BY <2>2, <3>1 DEF Increasing
    <2>4. \A n \in Range(Tail(q)) : Head(q) < n
        <3>1. Range(q) \subseteq Nat
            BY RangeOfSeq
        <3> QED BY <1>2, <2>1, <3>1, ShortenedQueue
    <2>5. Drained(q, mode) = <<Head(q)>> /\ Undrained(q, mode) = Tail(q)
        BY <1>2 DEF Drained, Undrained
    <2>6. Increasing(Tail(q)) /\ {Head(q)} \cup Range(Tail(q)) = Range(q)
        BY <1>2, ShortenedQueue
    <2> QED BY <2>3, <2>4, <2>5, <2>6 DEF Before
<1> QED BY <1>1, <1>2

-----------------------------------------------------------------------------
(* What a step does to the messages *)

\* The transcript stays, or grows by an assistant message or a result.
QuietStep ==
    /\ UNCHANGED <<steeringQueue, followUpQueue, pending, discarded, dropped, origin>>
    /\ messages' = messages \/ \E e \in Entry : e.role # "user" /\ Emit(e)
    /\ failures' = 0 => failures = 0

HandOverStep ==
    /\ \/ /\ origin' = Append(origin, "prompt")
          /\ pending = <<>> /\ pending' = <<Len(origin) + 1>>
          /\ UNCHANGED <<steeringQueue, followUpQueue>>
       \/ /\ origin' = Append(origin, "steer")
          /\ steeringQueue' = Append(steeringQueue, Len(origin) + 1)
          /\ UNCHANGED <<pending, followUpQueue>>
       \/ /\ origin' = Append(origin, "followUp")
          /\ followUpQueue' = Append(followUpQueue, Len(origin) + 1)
          /\ UNCHANGED <<pending, steeringQueue>>
    /\ UNCHANGED <<messages, discarded, dropped, failures>>

DrainStep ==
    /\ pending = <<>>
    /\ \/ PollSteering /\ UNCHANGED followUpQueue
       \/ /\ pending' = Drained(followUpQueue, FollowUpMode)
          /\ followUpQueue' = Undrained(followUpQueue, FollowUpMode)
          /\ UNCHANGED steeringQueue
    /\ UNCHANGED <<messages, discarded, dropped, origin, failures>>

EmitStep ==
    /\ pending # <<>> /\ pending' = Tail(pending)
    /\ Emit(UserEntry(Head(pending)))
    /\ UNCHANGED <<steeringQueue, followUpQueue, discarded, dropped, origin, failures>>

ClearStep ==
    /\ steeringQueue' = <<>> /\ followUpQueue' = <<>>
    /\ discarded' = discarded \cup Range(steeringQueue) \cup Range(followUpQueue)
    /\ UNCHANGED <<pending, messages, dropped, origin, failures>>

DropStep ==
    /\ pending' = <<>> /\ dropped' = dropped \cup Range(pending) /\ failures' # 0
    /\ UNCHANGED <<steeringQueue, followUpQueue, messages, discarded, origin>>

\* Every step is of one kind: no poll drains a queue over pending messages.
LEMMA StepKinds ==
    ASSUME IndTypeOK, PendingPhase, [Next]_vars
    PROVE  /\ PendingPhase'
           /\ QuietStep \/ HandOverStep \/ DrainStep \/ EmitStep \/ ClearStep \/ DropStep
<1> USE DEF PendingPhase
<1>t. phase \in Phase /\ failures \in Nat
    BY BoundAssumption DEF IndTypeOK, TypeOK, ControlOK
<1>1. CASE Prompt
    BY <1>1 DEF Prompt, StartRun, HandOverStep, queueVars
<1>2. CASE ContinueWithSteering \/ ContinueWithFollowUps
    BY <1>2 DEF ContinueWithSteering, ContinueWithFollowUps, StartRun, DrainStep, PollSteering
<1>3. CASE ContinueTranscript
    BY <1>3 DEF ContinueTranscript, StartRun, QuietStep, queueVars
<1>4. CASE Steer \/ FollowUp
    BY <1>4 DEF Steer, FollowUp, HandOverStep, loopVars
<1>5. CASE ClearAllQueues
    BY <1>5 DEF ClearAllQueues, ClearStep, loopVars
<1>6. CASE EmitPrompt \/ InjectPending
    BY <1>6 DEF EmitPrompt, InjectPending, EmitStep, LoopOnly, queueVars
<1>7. CASE FirstPoll \/ PrepareNextTurn \/ SecondPoll
    BY <1>7 DEF FirstPoll, PrepareNextTurn, SecondPoll, queueVars, DrainStep, QuietStep, PollSteering, histVars
<1>8. CASE PollAfterTurn
    BY <1>8 DEF PollAfterTurn, DrainStep, PollSteering, histVars
<1>9. CASE PollFollowUps
    BY <1>9 DEF PollFollowUps, DrainStep
<1>10. CASE CallModel \/ ResponseFails \/ ResponseWithoutCalls
    <2>1. messages' = messages \/ \E stop \in StopReason : Emit(AssistantEntry(stop, <<>>))
        BY <1>10 DEF CallModel, ResponseFails, ResponseWithoutCalls, AddResponse, StopReason
    <2>2. \A stop \in StopReason : AssistantEntry(stop, <<>>) \in Entry
        BY EntryTypes, EmptySeq
    <2>3. \A stop \in StopReason : AssistantEntry(stop, <<>>).role # "user"
        BY DEF AssistantEntry
    <2>4. messages' = messages \/ \E e \in Entry : e.role # "user" /\ Emit(e)
        BY <2>1, <2>2, <2>3
    <2> QED BY <1>10, <2>4 DEF CallModel, ResponseFails, ResponseWithoutCalls, QuietStep, LoopOnly, queueVars
<1>11. CASE ResponseWithCalls
    <2>1. PICK n \in 1..MaxCalls :
              AddResponse("toolUse", [i \in 1..n |-> <<responses + 1, i>>])
        BY <1>11 DEF ResponseWithCalls
    <2>2. [i \in 1..n |-> <<responses + 1, i>>] \in Seq(CallId)
        BY BoundAssumption DEF CallId, IndTypeOK, TypeOK, ControlOK
    <2>3. \A cs : AssistantEntry("toolUse", cs).role # "user"
        BY DEF AssistantEntry
    <2>4. \E e \in Entry : e.role # "user" /\ Emit(e)
        BY <2>1, <2>2, <2>3, EntryTypes DEF AddResponse, StopReason
    <2> QED BY <1>11, <2>4 DEF ResponseWithCalls, QuietStep, queueVars
<1>12. CASE EmitResult
    <2>1. emitted + 1 \in 1..Len(calls) /\ calls \in Seq(CallId)
        BY <1>12 DEF EmitResult, IndTypeOK, TypeOK, BatchOK
    <2>2. calls[emitted + 1] \in CallId
        BY <2>1, ElementOfSeq
    <2>3. \A c : ResultEntry(c).role # "user"
        BY DEF ResultEntry
    <2>4. \E e \in Entry : e.role # "user" /\ Emit(e)
        BY <1>12, <2>2, <2>3, EntryTypes DEF EmitResult
    <2> QED BY <1>12, <2>4 DEF EmitResult, QuietStep, ToolsOnly, queueVars, loopVars
<1>13. CASE StartCall \/ AdmitCall \/ RefuseCall \/ StartBatch \/ ToolEnds
    BY <1>13 DEF StartCall, AdmitCall, RefuseCall, StartBatch, ToolEnds, ToolsOnly, QuietStep,
        queueVars, loopVars
<1>14. CASE PromptsEmitted \/ PendingInjected \/ TurnEnd
    BY <1>14 DEF PromptsEmitted, PendingInjected, TurnEnd, LoopOnly, QuietStep, queueVars, loopVars
<1>15. CASE Abort \/ BreakOnAbort \/ BatchDone \/ OrphanEnds
    BY <1>15 DEF Abort, BreakOnAbort, BatchDone, OrphanEnds, AtNextCall, QuietStep, queueVars, loopVars,
        histVars
<1>16. CASE AgentEnd
    BY <1>16 DEF AgentEnd, FinishRun, QuietStep, queueVars, histVars
<1>17. CASE Throws \/ ToolListenerThrows
    BY <1>t, <1>17 DEF Throws, ToolListenerThrows, TearDown, DropStep, queueVars
<1>18. CASE RunFailure
    <2>1. AssistantEntry(outcome, <<>>) \in Entry
        BY <1>18, EntryTypes, EmptySeq DEF RunFailure, IndTypeOK, FailureOutcome, StopReason
    <2>2. AssistantEntry(outcome, <<>>).role # "user"
        BY DEF AssistantEntry
    <2>3. messages' = messages \/ \E e \in Entry : e.role # "user" /\ Emit(e)
        BY <1>18, <2>1, <2>2 DEF RunFailure
    <2> QED BY <1>t, <1>18, <2>3 DEF RunFailure, FinishRun, QuietStep, queueVars
<1>19. CASE UNCHANGED vars
    BY <1>19 DEF vars, agentVars, loopVars, histVars, QuietStep
<1> QED BY <1>1, <1>2, <1>3, <1>4, <1>5, <1>6, <1>7, <1>8, <1>9, <1>10, <1>11, <1>12, <1>13, <1>14, <1>15,
        <1>16, <1>17, <1>18, <1>19 DEF Next, Callers, RunStep

-----------------------------------------------------------------------------
(* The invariant is inductive *)

\* The messages of the transcript are those that have a place in it.
LEMMA DeliveredAreMessages == Delivered = {d[2] : d \in DeliveredMessages}
<1> DEFINE Users == {j \in 1..Len(messages) : messages[j].role = "user"}
<1>1. \A i \in Users : <<i, messages[i].msg>> \in DeliveredMessages
    BY DEF DeliveredMessages
<1>2. \A d \in DeliveredMessages : \E i \in Users : d[2] = messages[i].msg
    BY DEF DeliveredMessages
<1>3. \A i \in Users : <<i, messages[i].msg>>[2] = messages[i].msg
    OBVIOUS
<1>4. \A m : m \in Delivered <=> \E i \in Users : m = messages[i].msg
    BY DEF Delivered
<1> HIDE DEF Users
<1>5. ASSUME NEW m \in Delivered PROVE \E d \in DeliveredMessages : m = d[2]
    <2>1. PICK i \in Users : m = messages[i].msg
        BY <1>4
    <2> QED BY <1>1, <1>3, <2>1
<1> QED BY <1>2, <1>4, <1>5

\* A user message takes the next place of the transcript, other entries take
\* no message's.
LEMMA AppendedEntry ==
    ASSUME messages \in Seq(Entry), NEW e \in Entry, Emit(e)
    PROVE  /\ e.role # "user" => DeliveredMessages' = DeliveredMessages /\ Delivered' = Delivered
           /\ e.role = "user" => /\ DeliveredMessages' = DeliveredMessages \cup {<<Len(messages) + 1, e.msg>>}
                                 /\ Delivered' = Delivered \cup {e.msg}
<1>1. /\ Len(messages') = Len(messages) + 1 /\ Len(messages) \in Nat
      /\ \A i \in 1..Len(messages) : messages'[i] = messages[i]
      /\ messages'[Len(messages) + 1] = e
    BY AppendProperties DEF Emit
<1> DEFINE Users == {j \in 1..Len(messages) : messages[j].role = "user"}
<1>2. CASE e.role # "user"
    <2>1. Users' = Users
        BY <1>1, <1>2
    <2>2. \A i \in Users : messages'[i] = messages[i]
        BY <1>1
    <2> QED BY <1>2, <2>1, <2>2 DEF Delivered, DeliveredMessages
<1>3. CASE e.role = "user"
    <2>1. Users' = Users \cup {Len(messages) + 1}
        BY <1>1, <1>3
    <2>2. \A i \in Users : messages'[i] = messages[i]
        BY <1>1
    <2>3. messages'[Len(messages) + 1].msg = e.msg
        BY <1>1
    <2> QED BY <1>3, <2>1, <2>2, <2>3 DEF Delivered, DeliveredMessages
<1> QED BY <1>2, <1>3

\* What the sets of messages are made of.
LEMMA KnownMessages ==
    ASSUME IndTypeOK
    PROVE  /\ origin \in Seq(Origin) /\ Len(origin) \in Nat /\ Msg = 1..Len(origin) /\ Msg \subseteq Nat
           /\ steeringQueue \in Seq(Nat) /\ followUpQueue \in Seq(Nat) /\ pending \in Seq(Nat)
           /\ Range(steeringQueue) \subseteq Msg /\ Range(followUpQueue) \subseteq Msg
           /\ Range(pending) \subseteq Msg /\ discarded \subseteq Msg /\ dropped \subseteq Msg
           /\ messages \in Seq(Entry)
<1>1. QueuesOK /\ messages \in Seq(Entry)
    BY DEF IndTypeOK, TypeOK, TranscriptOK
<1>2. /\ Range(steeringQueue) \subseteq Msg /\ Range(followUpQueue) \subseteq Msg
      /\ Range(pending) \subseteq Msg
    BY <1>1, RangeOfSeq DEF QueuesOK
<1> QED BY <1>1, <1>2, MessagesAreNumbers DEF QueuesOK, Msg

\* The new message is known to nobody, and the others keep their source.
LEMMA NewMessage ==
    ASSUME IndTypeOK, NEW source \in Origin, origin' = Append(origin, source)
    PROVE  /\ Msg' = Msg \cup {Len(origin) + 1} /\ \A m \in Msg : m < Len(origin) + 1
           /\ \A m \in Msg : origin'[m] = origin[m]
           /\ origin'[Len(origin) + 1] = source
<1>1. Len(origin') = Len(origin) + 1
    BY KnownMessages, AppendProperties
<1> QED BY <1>1, KnownMessages, AppendProperties DEF Msg

\* The one message of a started prompt() is all that is pending.
LEMMA OnePending ==
    ASSUME NEW m \in Nat
    PROVE  Increasing(<<m>>) /\ Range(<<m>>) = {m}
<1>1. <<m>> \in Seq(Nat) /\ Len(<<m>>) = 1 /\ <<m>>[1] = m
    OBVIOUS
<1>2. Range(<<m>>) = {<<m>>[i] : i \in 1..1}
    BY <1>1, RangeEquality
<1> QED BY <1>1, <1>2 DEF Increasing

\* The empty pending list.
LEMMA NonePending == Increasing(<<>>) /\ Range(<<>>) = {}
<1>1. <<>> \in Seq(Nat) /\ Len(<<>>) = 0
    BY EmptySeq
<1>2. Range(<<>>) = {<<>>[i] : i \in 1..0}
    BY <1>1, RangeEquality
<1> QED BY <1>1, <1>2 DEF Increasing

\* Each step keeps every message in one place and the order of what waits.
LEMMA DeliveryInductive ==
    ASSUME IndTypeOK, DeliveryInv, [Next]_vars
    PROVE  DeliveryInv'
<1> USE DEF DeliveryInv, PlaceInv, InQueues, Gone
<1>k. /\ Msg \subseteq Nat /\ messages \in Seq(Entry) /\ Delivered \subseteq Nat
      /\ steeringQueue \in Seq(Nat) /\ followUpQueue \in Seq(Nat) /\ pending \in Seq(Nat)
      /\ Range(steeringQueue) \subseteq Msg /\ Range(followUpQueue) \subseteq Msg
      /\ Range(pending) \subseteq Msg /\ discarded \subseteq Msg /\ dropped \subseteq Msg
    BY KnownMessages
<1>d. ASSUME NEW A, NEW B, A \subseteq Nat, Before(A, B) PROVE A \cap B = {}
    <2>1. ASSUME NEW m \in A, m \in B PROVE FALSE
        <3>1. m \in Nat /\ m < m
            BY <1>d, <2>1 DEF Before
        <3> QED BY <3>1
    <2> QED BY <2>1
<1>o. Range(steeringQueue) \cap Range(followUpQueue) = {}
    BY DEF OrderInv
<1>s. PendingPhase' /\ (QuietStep \/ HandOverStep \/ DrainStep \/ EmitStep \/ ClearStep \/ DropStep)
    BY StepKinds
<1>1. CASE QuietStep
    <2>1. UNCHANGED <<steeringQueue, followUpQueue, pending, discarded, dropped, origin>>
        BY <1>1 DEF QuietStep
    <2>2. Delivered' = Delivered
        <3>1. CASE messages' = messages
            BY <3>1 DEF Delivered
        <3>2. CASE \E e \in Entry : e.role # "user" /\ Emit(e)
            BY <1>k, <3>2, AppendedEntry
        <3> QED BY <1>1, <3>1, <3>2 DEF QuietStep
    <2>3. OrderInv'
        BY <2>1 DEF OrderInv, Increasing, Before
    <2>4. failures' = 0 => dropped' = {}
        BY <1>1, <2>1 DEF QuietStep
    <2> QED BY <1>s, <2>1, <2>2, <2>3, <2>4 DEF Msg
<1>2. CASE HandOverStep
    <2> DEFINE new == Len(origin) + 1
    <2>1. PICK source \in Origin : origin' = Append(origin, source)
        BY <1>2 DEF HandOverStep, Origin
    <2>2. /\ Msg' = Msg \cup {new} /\ \A m \in Msg : m < new
          /\ \A m \in Msg : origin'[m] = origin[m]
          /\ origin'[new] = source /\ new \in Nat
        BY <2>1, NewMessage, KnownMessages
    <2>3. new \notin Msg
        BY <2>2, KnownMessages
    <2> HIDE DEF new
    <2>4. Delivered' = Delivered /\ UNCHANGED <<discarded, dropped, failures>>
        BY <1>2 DEF HandOverStep, Delivered
    <2>5. CASE source = "prompt"
        <3>1. pending = <<>> /\ pending' = <<new>> /\ UNCHANGED <<steeringQueue, followUpQueue>>
            BY <1>2, <2>1, <2>5, <2>2, KnownMessages DEF HandOverStep, new
        <3>2. /\ Increasing(pending') /\ Range(pending') = {new} /\ Range(pending) = {}
            BY <2>2, <3>1, OnePending, NonePending
        <3>3. OrderInv'
            BY <1>k, <2>1, <2>2, <2>3, <2>5, <3>1, <3>2 DEF OrderInv, Before
        <3> QED BY <1>k, <1>s, <2>2, <2>3, <2>4, <3>1, <3>2, <3>3
    <2>6. CASE source = "steer"
        <3>1. steeringQueue' = Append(steeringQueue, new) /\ UNCHANGED <<pending, followUpQueue>>
            BY <1>2, <2>1, <2>6, <2>2, KnownMessages DEF HandOverStep, new
        <3>2. Increasing(steeringQueue') /\ Range(steeringQueue') = Range(steeringQueue) \cup {new}
            BY <1>k, <2>2, <3>1, AppendedQueue DEF OrderInv
        <3>3. OrderInv'
            <4>1. /\ \A m \in Range(steeringQueue') : origin'[m] = "steer"
                  /\ \A m \in Range(followUpQueue') : origin'[m] = "followUp"
                BY <1>k, <2>2, <2>6, <3>1, <3>2 DEF OrderInv
            <4>2. /\ Range(pending') = Range(pending)
                  /\ \A m \in Range(pending) : origin'[m] = origin[m] /\ m < new
                BY <1>k, <2>2, <3>1
            <4>3. /\ Before({m \in Range(pending') : origin'[m] = "steer"}, Range(steeringQueue'))
                  /\ Before({m \in Range(pending') : origin'[m] = "followUp"}, Range(followUpQueue'))
                BY <3>1, <3>2, <4>2 DEF OrderInv, Before
            <4> QED BY <3>1, <3>2, <4>1, <4>3 DEF OrderInv
        <3> QED BY <1>k, <1>s, <2>2, <2>3, <2>4, <3>1, <3>2, <3>3
    <2>7. CASE source = "followUp"
        <3>1. followUpQueue' = Append(followUpQueue, new) /\ UNCHANGED <<pending, steeringQueue>>
            BY <1>2, <2>1, <2>7, <2>2, KnownMessages DEF HandOverStep, new
        <3>2. Increasing(followUpQueue') /\ Range(followUpQueue') = Range(followUpQueue) \cup {new}
            BY <1>k, <2>2, <3>1, AppendedQueue DEF OrderInv
        <3>3. OrderInv'
            <4>1. /\ \A m \in Range(steeringQueue') : origin'[m] = "steer"
                  /\ \A m \in Range(followUpQueue') : origin'[m] = "followUp"
                BY <1>k, <2>2, <2>7, <3>1, <3>2 DEF OrderInv
            <4>2. /\ Range(pending') = Range(pending)
                  /\ \A m \in Range(pending) : origin'[m] = origin[m] /\ m < new
                BY <1>k, <2>2, <3>1
            <4>3. /\ Before({m \in Range(pending') : origin'[m] = "steer"}, Range(steeringQueue'))
                  /\ Before({m \in Range(pending') : origin'[m] = "followUp"}, Range(followUpQueue'))
                BY <3>1, <3>2, <4>2 DEF OrderInv, Before
            <4> QED BY <3>1, <3>2, <4>1, <4>3 DEF OrderInv
        <3> QED BY <1>k, <1>s, <2>2, <2>3, <2>4, <3>1, <3>2, <3>3
    <2> QED BY <2>5, <2>6, <2>7 DEF Origin
<1>3. CASE DrainStep
    <2>1. /\ Delivered' = Delivered /\ Msg' = Msg /\ Range(pending) = {}
          /\ UNCHANGED <<discarded, dropped, origin, failures>>
        BY <1>3, NonePending DEF DrainStep, Delivered, Msg
    <2>2. CASE PollSteering /\ UNCHANGED followUpQueue
        <3>1. /\ Increasing(pending') /\ Increasing(steeringQueue')
              /\ Range(pending') \cup Range(steeringQueue') = Range(steeringQueue)
              /\ Before(Range(pending'), Range(steeringQueue'))
            BY <1>k, <2>2, DrainedQueue DEF PollSteering, OrderInv
        <3>2. Range(pending') \cap Range(steeringQueue') = {}
            <4>1. Range(pending') \subseteq Nat
                BY <1>k, <3>1
            <4> QED BY <1>d, <3>1, <4>1
        <3>3. OrderInv'
            BY <1>k, <2>1, <2>2, <3>1 DEF OrderInv, Before
        <3> QED BY <1>o, <1>s, <2>1, <2>2, <3>1, <3>2, <3>3
    <2>3. CASE /\ pending' = Drained(followUpQueue, FollowUpMode)
               /\ followUpQueue' = Undrained(followUpQueue, FollowUpMode)
               /\ UNCHANGED steeringQueue
        <3>1. /\ Increasing(pending') /\ Increasing(followUpQueue')
              /\ Range(pending') \cup Range(followUpQueue') = Range(followUpQueue)
              /\ Before(Range(pending'), Range(followUpQueue'))
            BY <1>k, <2>3, DrainedQueue DEF OrderInv
        <3>2. Range(pending') \cap Range(followUpQueue') = {}
            <4>1. Range(pending') \subseteq Nat
                BY <1>k, <3>1
            <4> QED BY <1>d, <3>1, <4>1
        <3>3. OrderInv'
            BY <1>k, <2>1, <2>3, <3>1 DEF OrderInv, Before
        <3> QED BY <1>o, <1>s, <2>1, <2>3, <3>1, <3>2, <3>3
    <2> QED BY <1>3, <2>2, <2>3 DEF DrainStep
<1>4. CASE EmitStep
    <2>1. /\ pending # <<>> /\ pending' = Tail(pending) /\ Msg' = Msg
          /\ UNCHANGED <<steeringQueue, followUpQueue, discarded, dropped, origin, failures>>
        BY <1>4 DEF EmitStep, Msg
    <2>2. /\ Head(pending) \in Range(pending) /\ Increasing(pending')
          /\ Range(pending') = Range(pending) \ {Head(pending)}
        BY <1>k, <2>1, ShortenedQueue DEF OrderInv
    <2>3. Delivered' = Delivered \cup {Head(pending)}
        <3>1. UserEntry(Head(pending)) \in Entry
            BY <1>k, <2>2, EntryTypes
        <3>2. UserEntry(Head(pending)).role = "user" /\ UserEntry(Head(pending)).msg = Head(pending)
            BY DEF UserEntry
        <3> QED BY <1>k, <1>4, <3>1, <3>2, AppendedEntry DEF EmitStep
    <2>4. OrderInv'
        BY <2>1, <2>2 DEF OrderInv, Before
    <2>5. /\ \A m \in Msg' : m \in InQueues' \cup Range(pending') \cup Delivered' \cup Gone'
          /\ Delivered' \subseteq Msg'
        BY <1>k, <2>1, <2>2, <2>3
    <2>6. /\ Range(pending') \cap InQueues' = {}
          /\ Delivered' \cap (InQueues' \cup Range(pending')) = {}
          /\ Gone' \cap (InQueues' \cup Range(pending') \cup Delivered') = {}
        BY <2>1, <2>2, <2>3
    <2> QED BY <1>s, <2>1, <2>4, <2>5, <2>6
<1>5. CASE ClearStep
    <2>1. /\ Delivered' = Delivered /\ Msg' = Msg
          /\ steeringQueue' = <<>> /\ followUpQueue' = <<>>
          /\ discarded' = discarded \cup Range(steeringQueue) \cup Range(followUpQueue)
          /\ UNCHANGED <<pending, dropped, origin, failures>>
        BY <1>5 DEF ClearStep, Delivered, Msg
    <2>2. OrderInv'
        BY <2>1, NonePending DEF OrderInv, Before
    <2> QED BY <1>s, <2>1, <2>2, NonePending
<1>6. CASE DropStep
    <2>1. /\ Delivered' = Delivered /\ Msg' = Msg
          /\ pending' = <<>> /\ dropped' = dropped \cup Range(pending) /\ failures' # 0
          /\ UNCHANGED <<steeringQueue, followUpQueue, discarded, origin>>
        BY <1>6 DEF DropStep, Delivered, Msg
    <2>2. OrderInv'
        BY <2>1, NonePending DEF OrderInv, Before
    <2> QED BY <1>s, <2>1, <2>2, NonePending
<1> QED BY <1>s, <1>1, <1>2, <1>3, <1>4, <1>5, <1>6

\* At first nothing was handed over.
LEMMA InitDelivery == Init => IndTypeOK /\ DeliveryInv
<1> SUFFICES ASSUME Init PROVE IndTypeOK /\ DeliveryInv
    OBVIOUS
<1>1. IndTypeOK
    BY InitTypes
<1>2. Range(<<>>) = {} /\ Increasing(<<>>)
    BY NonePending
<1>3. Msg = {} /\ Delivered = {}
    BY DEF Init, Msg, Delivered
<1> QED BY <1>1, <1>2, <1>3 DEF Init, DeliveryInv, PendingPhase, OrderInv, Before, PlaceInv, InQueues, Gone

\* A message that satisfies the invariant has exactly one place.
LEMMA OnePlace ==
    ASSUME DeliveryInv, NEW m \in Msg
    PROVE  Cardinality(Places(m)) = 1
<1>1. ~(m \in Range(steeringQueue) /\ m \in Range(followUpQueue))
    BY DEF DeliveryInv, OrderInv
<1>2. \E p : Places(m) = {p}
    <2> USE DEF DeliveryInv, PlaceInv, InQueues, Gone
    <2>1. CASE m \in Range(steeringQueue)
        <3>1. Places(m) = {"steering"}
            BY <1>1, <2>1 DEF Places
        <3> QED BY <3>1
    <2>2. CASE m \in Range(followUpQueue)
        <3>1. Places(m) = {"followUp"}
            BY <1>1, <2>2 DEF Places
        <3> QED BY <3>1
    <2>3. CASE m \in Range(pending)
        <3>1. Places(m) = {"pending"}
            BY <2>3 DEF Places
        <3> QED BY <3>1
    <2>4. CASE m \in Delivered
        <3>1. Places(m) = {"transcript"}
            BY <2>4 DEF Places
        <3> QED BY <3>1
    <2>5. CASE m \in discarded
        <3>1. Places(m) = {"discarded"}
            BY <2>5 DEF Places
        <3> QED BY <3>1
    <2>6. CASE m \in dropped
        <3>1. Places(m) = {"dropped"}
            BY <2>6 DEF Places
        <3> QED BY <3>1
    <2> QED BY <2>1, <2>2, <2>3, <2>4, <2>5, <2>6
<1> QED BY <1>2, FS_Singleton

\* A message handed to the agent is in exactly one place: agent.ts neither loses
\* nor doubles it, and no message is dropped before a listener has thrown.
THEOREM MessagesHaveOnePlace == Spec => []EveryMessageHasOnePlace
<1>1. Init => IndTypeOK /\ DeliveryInv
    BY InitDelivery
<1>2. (IndTypeOK /\ DeliveryInv) /\ [Next]_vars => (IndTypeOK /\ DeliveryInv)'
    BY NextTypes, DeliveryInductive
<1>3. IndTypeOK /\ DeliveryInv => EveryMessageHasOnePlace
    BY OnePlace DEF DeliveryInv, PlaceInv, EveryMessageHasOnePlace
<1> QED BY <1>1, <1>2, <1>3, PTL DEF Spec

-----------------------------------------------------------------------------
(* The agent implements MessageDelivery *)

PendingOf(source) == {m \in Range(pending) : origin[m] = source}

\* What waits of each source.
WaitingSets ==
    /\ Waiting = [source \in Origin |-> Waiting[source]]
    /\ Waiting["prompt"] = PendingOf("prompt")
    /\ Waiting["steer"] = PendingOf("steer") \cup Range(steeringQueue)
    /\ Waiting["followUp"] = PendingOf("followUp") \cup Range(followUpQueue)

\* What the mapping calls waiting, as sets, before and after a step.
LEMMA WaitingBySource == WaitingSets /\ WaitingSets'
<1>1. WaitingSets
    BY DEF WaitingSets, Waiting, PendingOf, Origin
<1>2. WaitingSets'
    BY DEF WaitingSets, Waiting, PendingOf, Origin
<1> QED BY <1>1, <1>2

\* Nothing that waits, is delivered or is gone has not been handed over.
LEMMA KnownIsHandedOver ==
    ASSUME IndTypeOK, DeliveryInv
    PROVE  Delivery!Known \subseteq Msg
<1>1. \A source \in Origin : Waiting[source] \subseteq Msg
    BY WaitingBySource, KnownMessages DEF WaitingSets, PendingOf, Origin
<1>2. Delivered \subseteq Msg
    BY DEF DeliveryInv, PlaceInv
<1>3. discarded \cup dropped \subseteq Msg
    BY KnownMessages
<1> DEFINE waits == UNION {Waiting[source] : source \in Origin}
<1>4. waits \subseteq Msg
    BY <1>1
<1>5. Delivery!Known = waits \cup {d[2] : d \in DeliveredMessages} \cup (discarded \cup dropped)
    BY DEF Delivery!Known
<1>6. Delivery!Known = waits \cup Delivered \cup (discarded \cup dropped)
    BY <1>5, DeliveredAreMessages, Zenon
<1> HIDE DEF waits
<1> QED BY <1>2, <1>3, <1>4, <1>6

\* A step of a kind that hands nothing over, gives up nothing and emits no user
\* message keeps what waits.
LEMMA StutterMaps ==
    ASSUME IndTypeOK, DeliveryInv, QuietStep \/ DrainStep
    PROVE  UNCHANGED Delivery!vars
<1>1. CASE QuietStep
    <2>1. Waiting' = Waiting /\ UNCHANGED <<discarded, dropped>>
        BY <1>1 DEF QuietStep, Waiting
    <2>2. DeliveredMessages' = DeliveredMessages
        <3>1. CASE messages' = messages
            BY <3>1 DEF DeliveredMessages
        <3>2. CASE \E e \in Entry : e.role # "user" /\ Emit(e)
            BY <3>2, KnownMessages, AppendedEntry
        <3> QED BY <1>1, <3>1, <3>2 DEF QuietStep
    <2> QED BY <2>1, <2>2 DEF Delivery!vars
<1>2. CASE DrainStep
    <2>1. /\ DeliveredMessages' = DeliveredMessages /\ Range(pending) = {}
          /\ UNCHANGED <<discarded, dropped, origin>>
        BY <1>2, NonePending DEF DrainStep, DeliveredMessages
    <2>2. Waiting' = Waiting
        <3>1. CASE PollSteering /\ UNCHANGED followUpQueue
            <4>1. Range(pending') \cup Range(steeringQueue') = Range(steeringQueue)
                BY <3>1, KnownMessages, DrainedQueue DEF PollSteering, DeliveryInv, OrderInv
            <4>2. \A m \in Range(steeringQueue) : origin[m] = "steer"
                BY DEF DeliveryInv, OrderInv
            <4>3. \A source \in Origin : Waiting'[source] = Waiting[source]
                BY <2>1, <3>1, <4>1, <4>2, WaitingBySource DEF WaitingSets, PendingOf, Origin
            <4> QED BY <4>3, WaitingBySource DEF WaitingSets
        <3>2. CASE /\ pending' = Drained(followUpQueue, FollowUpMode)
                   /\ followUpQueue' = Undrained(followUpQueue, FollowUpMode)
                   /\ UNCHANGED steeringQueue
            <4>1. Range(pending') \cup Range(followUpQueue') = Range(followUpQueue)
                BY <3>2, KnownMessages, DrainedQueue DEF DeliveryInv, OrderInv
            <4>2. \A m \in Range(followUpQueue) : origin[m] = "followUp"
                BY DEF DeliveryInv, OrderInv
            <4>3. \A source \in Origin : Waiting'[source] = Waiting[source]
                BY <2>1, <3>2, <4>1, <4>2, WaitingBySource DEF WaitingSets, PendingOf, Origin
            <4> QED BY <4>3, WaitingBySource DEF WaitingSets
        <3> QED BY <1>2, <3>1, <3>2 DEF DrainStep
    <2> QED BY <2>1, <2>2 DEF Delivery!vars
<1> QED BY <1>1, <1>2

\* A caller hands a message over: steer(), followUp() or a prompt.
LEMMA HandOverMaps ==
    ASSUME IndTypeOK, DeliveryInv, HandOverStep
    PROVE  \E source \in Origin : \E m \in Waiting'[source] : Delivery!HandOver(source, m)
<1> DEFINE new == Len(origin) + 1
<1>1. PICK source \in Origin : origin' = Append(origin, source)
    BY DEF HandOverStep, Origin
<1>2. /\ \A m \in Msg : m < new
      /\ \A m \in Msg : origin'[m] = origin[m]
      /\ origin'[new] = source /\ new \in Nat
    BY <1>1, NewMessage, KnownMessages
<1>3. new \notin Msg
    BY <1>2, KnownMessages
<1>4. UNCHANGED <<DeliveredMessages, discarded, dropped>>
    BY DEF HandOverStep, DeliveredMessages
<1>5. \A n \in Delivery!Known : n < new
    BY <1>2, KnownIsHandedOver
<1>6. Waiting'[source] = Waiting[source] \cup {new}
      /\ \A s \in Origin \ {source} : Waiting'[s] = Waiting[s]
    <2>1. CASE source = "prompt"
        <3>1. pending = <<>> /\ pending' = <<new>> /\ UNCHANGED <<steeringQueue, followUpQueue>>
            BY <1>1, <2>1, KnownMessages DEF HandOverStep
        <3> HIDE DEF new
        <3>2. Range(pending) = {} /\ Range(pending') = {new}
            BY <1>2, <3>1, OnePending, NonePending
        <3>3. PendingOf("prompt") = {} /\ PendingOf("steer") = {} /\ PendingOf("followUp") = {}
            BY <3>2 DEF PendingOf
        <3>4. PendingOf("prompt")' = {new} /\ PendingOf("steer")' = {} /\ PendingOf("followUp")' = {}
            BY <1>2, <2>1, <3>2 DEF PendingOf
        <3>5. /\ Waiting["prompt"] = {} /\ Waiting'["prompt"] = {new}
              /\ Waiting'["steer"] = Waiting["steer"] /\ Waiting'["followUp"] = Waiting["followUp"]
            BY <3>1, <3>3, <3>4, WaitingBySource DEF WaitingSets
        <3> QED BY <2>1, <3>5 DEF Origin
    <2>2. CASE source = "steer"
        <3>1. steeringQueue' = Append(steeringQueue, new) /\ UNCHANGED <<pending, followUpQueue>>
            BY <1>1, <2>2, KnownMessages DEF HandOverStep
        <3> HIDE DEF new
        <3>2. Range(steeringQueue') = Range(steeringQueue) \cup {new}
            BY <1>2, <3>1, KnownMessages, AppendedQueue DEF DeliveryInv, OrderInv
        <3>3. \A s \in Origin : PendingOf(s)' = PendingOf(s)
            BY <1>2, <3>1, KnownMessages DEF PendingOf
        <3> QED BY <2>2, <3>1, <3>2, <3>3, WaitingBySource DEF WaitingSets, Origin
    <2>3. CASE source = "followUp"
        <3>1. followUpQueue' = Append(followUpQueue, new) /\ UNCHANGED <<pending, steeringQueue>>
            BY <1>1, <2>3, KnownMessages DEF HandOverStep
        <3> HIDE DEF new
        <3>2. Range(followUpQueue') = Range(followUpQueue) \cup {new}
            BY <1>2, <3>1, KnownMessages, AppendedQueue DEF DeliveryInv, OrderInv
        <3>3. \A s \in Origin : PendingOf(s)' = PendingOf(s)
            BY <1>2, <3>1, KnownMessages DEF PendingOf
        <3> QED BY <2>3, <3>1, <3>2, <3>3, WaitingBySource DEF WaitingSets, Origin
    <2> QED BY <2>1, <2>2, <2>3 DEF Origin
<1> HIDE DEF new
<1>7. Waiting' = [Waiting EXCEPT ![source] = @ \cup {new}]
    BY <1>6, WaitingBySource DEF WaitingSets
<1>8. Delivery!HandOver(source, new)
    BY <1>4, <1>5, <1>7 DEF Delivery!HandOver
<1> QED BY <1>6, <1>8

\* The loop emits the oldest message of a source: it is delivered.
LEMMA EmitMaps ==
    ASSUME IndTypeOK, DeliveryInv, EmitStep
    PROVE  \E source \in Origin : \E d \in DeliveredMessages' : Delivery!Deliver(source, d[1], d[2])
<1> DEFINE m == Head(pending)
           place == Len(messages) + 1
           source == origin[m]
<1>1. /\ m \in Range(pending) /\ \A n \in Range(pending) : m <= n
      /\ Range(pending') = Range(pending) \ {m}
    BY KnownMessages, ShortenedQueue DEF EmitStep, DeliveryInv, OrderInv
<1>2. m \in Nat /\ source \in Origin
    BY <1>1, KnownMessages, ElementOfSeq
<1>3. /\ DeliveredMessages' = DeliveredMessages \cup {<<place, m>>}
      /\ UNCHANGED <<steeringQueue, followUpQueue, discarded, dropped, origin>>
    <2>1. UserEntry(m) \in Entry
        BY <1>2, EntryTypes
    <2>2. UserEntry(m).role = "user" /\ UserEntry(m).msg = m
        BY DEF UserEntry
    <2> QED BY <2>1, <2>2, KnownMessages, AppendedEntry DEF EmitStep
<1>4. \A d \in DeliveredMessages : d[1] < place
    BY KnownMessages DEF DeliveredMessages
<1> HIDE DEF m, place
<1>5. Before(PendingOf("steer"), Range(steeringQueue)) /\ Before(PendingOf("followUp"), Range(followUpQueue))
    BY DEF DeliveryInv, OrderInv, PendingOf
<1>6. /\ m \notin Range(steeringQueue) /\ m \notin Range(followUpQueue)
      /\ Range(steeringQueue) \subseteq Nat /\ Range(followUpQueue) \subseteq Nat
    BY <1>1, KnownMessages DEF DeliveryInv, PlaceInv, InQueues
<1>7. m \in PendingOf(source) /\ \A s \in Origin : PendingOf(s)' = PendingOf(s) \ {m}
    BY <1>1, <1>3 DEF PendingOf
<1>8. m \in Waiting[source] /\ \A n \in Waiting[source] : m <= n
    <2>1. \A n \in PendingOf(source) : m <= n
        BY <1>1 DEF PendingOf
    <2>2. CASE source = "prompt"
        BY <2>1, <2>2, <1>7, WaitingBySource DEF WaitingSets
    <2>3. CASE source = "steer"
        BY <2>1, <2>3, <1>2, <1>5, <1>6, <1>7, WaitingBySource DEF WaitingSets, Before
    <2>4. CASE source = "followUp"
        BY <2>1, <2>4, <1>2, <1>5, <1>6, <1>7, WaitingBySource DEF WaitingSets, Before
    <2> QED BY <1>2, <2>2, <2>3, <2>4 DEF Origin
<1>9. \A s \in Origin : Waiting'[s] = IF s = source THEN Waiting[s] \ {m} ELSE Waiting[s]
    <2>1. \A s \in Origin \ {source} : m \notin PendingOf(s)
        BY DEF PendingOf
    <2> HIDE DEF source
    <2>2. \A s \in Origin : PendingOf(s)' = IF s = source THEN PendingOf(s) \ {m} ELSE PendingOf(s)
        BY <1>7, <2>1
    <2>3. Waiting'["prompt"] = IF "prompt" = source THEN Waiting["prompt"] \ {m} ELSE Waiting["prompt"]
        BY <2>2, WaitingBySource DEF WaitingSets, Origin
    <2>4. Waiting'["steer"] = IF "steer" = source THEN Waiting["steer"] \ {m} ELSE Waiting["steer"]
        BY <1>3, <1>6, <2>2, WaitingBySource DEF WaitingSets, Origin
    <2>5. Waiting'["followUp"] = IF "followUp" = source THEN Waiting["followUp"] \ {m} ELSE Waiting["followUp"]
        BY <1>3, <1>6, <2>2, WaitingBySource DEF WaitingSets, Origin
    <2> QED BY <2>3, <2>4, <2>5 DEF Origin
<1> HIDE DEF source
<1>10. Waiting' = [Waiting EXCEPT ![source] = @ \ {m}]
    BY <1>9, WaitingBySource DEF WaitingSets
<1>11. Delivery!Deliver(source, place, m)
    BY <1>3, <1>4, <1>8, <1>10 DEF Delivery!Deliver
<1>12. <<place, m>> \in DeliveredMessages'
    BY <1>3
<1> QED BY <1>2, <1>11, <1>12

\* Messages of one source are given up: cleared, or lost by a run that failed.
LEMMA GiveUpMaps ==
    ASSUME IndTypeOK, DeliveryInv, ClearStep \/ DropStep
    PROVE  Delivery!GiveUp
<1> USE DEF DeliveryInv, PlaceInv, InQueues, Gone
<1> DEFINE given == (discarded \cup dropped)' \ (discarded \cup dropped)
<1>1. CASE ClearStep
    <2>1. /\ Range(steeringQueue') = {} /\ Range(followUpQueue') = {}
          /\ discarded \cup dropped \subseteq (discarded \cup dropped)'
          /\ given = Range(steeringQueue) \cup Range(followUpQueue)
          /\ UNCHANGED <<pending, origin, messages>>
        BY <1>1, NonePending DEF ClearStep
    <2>2. given \cap Range(pending) = {}
        BY <2>1
    <2>3. \A s \in Origin : PendingOf(s)' = PendingOf(s) /\ PendingOf(s) \cap given = {}
        BY <2>1, <2>2 DEF PendingOf
    <2> HIDE DEF given
    <2>4. given \subseteq UNION {Waiting[s] : s \in Origin}
        BY <2>1, WaitingBySource DEF WaitingSets, Origin
    <2>5. \A s \in Origin : Waiting'[s] = Waiting[s] \ given
        BY <2>1, <2>3, WaitingBySource DEF WaitingSets, Origin
    <2>6. Waiting' = [s \in Origin |-> Waiting[s] \ given]
        BY <2>5, WaitingBySource DEF WaitingSets
    <2>7. DeliveredMessages' = DeliveredMessages
        BY <2>1 DEF DeliveredMessages
    <2> QED BY <2>1, <2>4, <2>6, <2>7 DEF Delivery!GiveUp, given
<1>2. CASE DropStep
    <2>1. /\ Range(pending') = {}
          /\ discarded \cup dropped \subseteq (discarded \cup dropped)'
          /\ given = Range(pending)
          /\ UNCHANGED <<steeringQueue, followUpQueue, origin, messages>>
        BY <1>2, NonePending DEF DropStep
    <2>2. given \cap (Range(steeringQueue) \cup Range(followUpQueue)) = {}
        BY <2>1
    <2>3. \A s \in Origin : PendingOf(s)' = {} /\ PendingOf(s) \subseteq given
        BY <2>1 DEF PendingOf
    <2>o. \A m \in Range(pending) : origin[m] \in Origin
        BY KnownMessages, ElementOfSeq
    <2>4. \A m \in given : m \in PendingOf("prompt") \cup PendingOf("steer") \cup PendingOf("followUp")
        BY <2>1, <2>o DEF PendingOf, Origin
    <2> HIDE DEF given
    <2>5. given \subseteq UNION {Waiting[s] : s \in Origin}
        BY <2>4, WaitingBySource DEF WaitingSets, Origin
    <2>6. \A s \in Origin : Waiting'[s] = Waiting[s] \ given
        BY <2>1, <2>2, <2>3, WaitingBySource DEF WaitingSets, Origin
    <2>7. Waiting' = [s \in Origin |-> Waiting[s] \ given]
        BY <2>6, WaitingBySource DEF WaitingSets
    <2>8. DeliveredMessages' = DeliveredMessages
        BY <2>1 DEF DeliveredMessages
    <2> QED BY <2>1, <2>5, <2>7, <2>8 DEF Delivery!GiveUp, given
<1> QED BY <1>1, <1>2

\* The initial states are those of the abstract specification.
LEMMA InitMaps == Init => Delivery!Init
<1> SUFFICES ASSUME Init PROVE Delivery!Init
    OBVIOUS
<1>1. DeliveredMessages = {} /\ discarded \cup dropped = {}
    BY DEF Init, DeliveredMessages
<1>2. Range(pending) = {} /\ Range(steeringQueue) = {} /\ Range(followUpQueue) = {}
    BY NonePending DEF Init
<1>3. \A s \in Origin : Waiting[s] = {}
    BY <1>2, WaitingBySource DEF WaitingSets, PendingOf, Origin
<1>4. Waiting = [s \in Origin |-> {}]
    BY <1>3, WaitingBySource DEF WaitingSets
<1> QED BY <1>1, <1>4 DEF Delivery!Init

\* The agent neither loses, duplicates nor reorders the messages of a source,
\* but for what a clear or a failing run gives up: whatever it drains, emits and
\* aborts is a step of MessageDelivery or changes nothing that it promises.
THEOREM AgentImplementsDelivery == Spec => ImplementsDelivery
<1>1. Init => IndTypeOK /\ DeliveryInv /\ Delivery!Init
    BY InitDelivery, InitMaps
<1>2. (IndTypeOK /\ DeliveryInv) /\ [Next]_vars => (IndTypeOK /\ DeliveryInv)'
    BY NextTypes, DeliveryInductive
<1>3. (IndTypeOK /\ DeliveryInv) /\ [Next]_vars => [Delivery!Next]_Delivery!vars
    <2> SUFFICES ASSUME IndTypeOK, DeliveryInv, [Next]_vars
                 PROVE  Delivery!Next \/ UNCHANGED Delivery!vars
        OBVIOUS
    <2>1. QuietStep \/ HandOverStep \/ DrainStep \/ EmitStep \/ ClearStep \/ DropStep
        BY StepKinds DEF DeliveryInv
    <2> QED BY <2>1, StutterMaps, HandOverMaps, EmitMaps, GiveUpMaps DEF Delivery!Next
<1> QED BY <1>1, <1>2, <1>3, PTL DEF Spec, ImplementsDelivery, Delivery!Spec

-----------------------------------------------------------------------------
(* One at a time *)

\* No message of the source is in the run since its last assistant message.
NoneSince(source) ==
    \A i \in (runStart + 1)..Len(messages) :
        (messages[i].role = "user" /\ origin[messages[i].msg] = source)
            => \E k \in i..Len(messages) : messages[k].role = "assistant"

AfterResponse == {"tools", "turnEnd", "poll", "prepare", "secondPoll", "followUps"}
BeforeFirstPoll == phase \in {"prompts", "firstPoll"} /\ ~skipPoll

\* At most one message of the source is pending, and only if the turn has none.
SourceInv(source, mode) ==
    mode = "one-at-a-time" =>
        /\ OnePerTurn(source, mode)
        /\ \A m, n \in PendingOf(source) : m = n
        /\ PendingOf(source) # {} => NoneSince(source)
        /\ phase \in AfterResponse => NoneSince(source)

\* The first poll of a run is skipped if its prompts were steered.
FirstPollInv ==
    BeforeFirstPoll => NoneSince("steer") /\ PendingOf("steer") = {}

TurnInv == SourceInv("steer", SteeringMode) /\ SourceInv("followUp", FollowUpMode) /\ FirstPollInv

\* Entry e is a message of the source.
IsFrom(e, source) == e.role = "user" /\ origin[e.msg] = source

\* In one-at-a-time mode drain() returns at most one message.
LEMMA DrainsOne ==
    ASSUME NEW q \in Seq(Nat), Increasing(q), NEW mode, mode = "one-at-a-time"
    PROVE  \A m, n \in Range(Drained(q, mode)) : m = n
<1>1. CASE q = <<>>
    BY <1>1, NonePending DEF Drained
<1>2. CASE q # <<>>
    <2>1. Head(q) \in Nat
        BY <1>2, HeadTailProperties
    <2> QED BY <1>2, <2>1, OnePending DEF Drained
<1> QED BY <1>1, <1>2

\* The source of a message that was handed over does not change.
LEMMA OriginStable ==
    ASSUME IndTypeOK, DeliveryInv, [Next]_vars
    PROVE  \A m \in Msg : origin'[m] = origin[m]
<1>1. origin' = origin \/ \E source \in Origin : origin' = Append(origin, source)
    BY StepKinds DEF DeliveryInv, QuietStep, HandOverStep, DrainStep, EmitStep, ClearStep, DropStep, Origin
<1> QED BY <1>1, NewMessage

\* While the transcript stays, so does what is said of the run.
LEMMA KeepsHistory ==
    ASSUME IndTypeOK, DeliveryInv, [Next]_vars, messages' = messages, runStart' = runStart,
           NEW source, NEW mode
    PROVE  /\ NoneSince(source) => NoneSince(source)'
           /\ OnePerTurn(source, mode) => OnePerTurn(source, mode)'
<1>1. runStart \in Nat /\ Len(messages) \in Nat
    BY DEF IndTypeOK, TypeOK, TranscriptOK
<1>2. \A i \in (runStart + 1)..Len(messages) :
          messages[i].role = "user" => origin'[messages[i].msg] = origin[messages[i].msg]
    <2>1. \A i \in 1..Len(messages) : messages[i].role = "user" => messages[i].msg \in Msg
        BY DEF DeliveryInv, PlaceInv, Delivered
    <2> QED BY <1>1, <2>1, OriginStable
<1>3. NoneSince(source) => NoneSince(source)'
    BY <1>2 DEF NoneSince
<1>4. OnePerTurn(source, mode) => OnePerTurn(source, mode)'
    BY <1>2 DEF OnePerTurn
<1> QED BY <1>3, <1>4

\* What an appended entry does to what is said of the run.
LEMMA AppendsHistory ==
    ASSUME messages \in Seq(Entry), runStart \in 0..Len(messages), NEW e \in Entry, Emit(e),
           UNCHANGED <<runStart, origin>>, NEW source, NEW mode
    PROVE  /\ e.role = "assistant" \/ (NoneSince(source) /\ ~IsFrom(e, source)) => NoneSince(source)'
           /\ OnePerTurn(source, mode) /\ (mode = "one-at-a-time" /\ IsFrom(e, source) => NoneSince(source))
                  => OnePerTurn(source, mode)'
<1> DEFINE n == Len(messages)
<1>1. /\ Len(messages') = n + 1 /\ n \in Nat /\ runStart \in 0..n
      /\ \A i \in 1..n : messages'[i] = messages[i]
      /\ messages'[n + 1] = e
    BY AppendProperties DEF Emit
<1> HIDE DEF n
<1>2. ASSUME e.role = "assistant" \/ (NoneSince(source) /\ ~IsFrom(e, source))
      PROVE  NoneSince(source)'
    <2> SUFFICES ASSUME NEW i \in (runStart + 1)..(n + 1), IsFrom(messages'[i], source)
                 PROVE  \E k \in i..(n + 1) : messages'[k].role = "assistant"
        BY <1>1 DEF NoneSince, IsFrom
    <2>1. CASE e.role = "assistant"
        BY <1>1, <2>1
    <2>2. CASE NoneSince(source) /\ ~IsFrom(e, source)
        <3>1. i \in (runStart + 1)..n /\ messages'[i] = messages[i]
            BY <1>1, <2>2
        <3>2. PICK k \in i..n : messages[k].role = "assistant"
            BY <2>2, <3>1 DEF NoneSince, IsFrom, n
        <3>3. k \in i..(n + 1) /\ messages'[k] = messages[k]
            BY <1>1, <3>1, <3>2
        <3> QED BY <3>2, <3>3
    <2> QED BY <1>2, <2>1, <2>2
<1>3. ASSUME OnePerTurn(source, mode), mode = "one-at-a-time" /\ IsFrom(e, source) => NoneSince(source)
      PROVE  OnePerTurn(source, mode)'
    <2> SUFFICES ASSUME mode = "one-at-a-time",
                        NEW i \in (runStart + 1)..(n + 1), NEW j \in (runStart + 1)..(n + 1), i < j,
                        IsFrom(messages'[i], source), IsFrom(messages'[j], source)
                 PROVE  \E k \in i..j : messages'[k].role = "assistant"
        BY <1>1 DEF OnePerTurn, IsFrom
    <2>1. i \in (runStart + 1)..n /\ messages'[i] = messages[i]
        BY <1>1
    <2>2. CASE j = n + 1
        <3>1. PICK k \in i..n : messages[k].role = "assistant"
            BY <1>1, <1>3, <2>1, <2>2 DEF NoneSince, IsFrom, n
        <3>2. k \in i..j /\ messages'[k] = messages[k]
            BY <1>1, <2>1, <2>2, <3>1
        <3> QED BY <3>1, <3>2
    <2>3. CASE j # n + 1
        <3>1. j \in (runStart + 1)..n /\ messages'[j] = messages[j]
            BY <1>1, <2>3
        <3>2. PICK k \in i..j : messages[k].role = "assistant"
            BY <1>3, <2>1, <3>1 DEF OnePerTurn, IsFrom, n
        <3>3. messages'[k] = messages[k]
            BY <1>1, <2>1, <3>1
        <3> QED BY <3>2, <3>3
    <2> QED BY <2>2, <2>3
<1> QED BY <1>2, <1>3

\* What a step does to the run and its turn.
KeepStep ==
    /\ UNCHANGED <<messages, runStart>> /\ pending' \in {pending, <<>>}
    /\ phase' \in AfterResponse => phase \in AfterResponse
    /\ BeforeFirstPoll' => BeforeFirstPoll
AppendStep ==
    /\ UNCHANGED <<runStart, origin>> /\ pending' \in {pending, <<>>} /\ ~BeforeFirstPoll'
    /\ \E e \in Entry :
          /\ Emit(e) /\ e.role # "user"
          /\ phase' \in AfterResponse => e.role = "assistant" \/ phase \in AfterResponse
MessageStep ==
    /\ EmitStep /\ UNCHANGED <<runStart, phase, skipPoll>>
    /\ phase \notin AfterResponse
BeginStep ==
    /\ messages' = messages /\ runStart' = Len(messages) /\ phase' = "prompts"
    /\ \/ pending' = <<Len(origin) + 1>> /\ origin' = Append(origin, "prompt")
       \/ pending' = Drained(steeringQueue, SteeringMode) /\ skipPoll' /\ origin' = origin
       \/ pending' = Drained(followUpQueue, FollowUpMode) /\ origin' = origin
       \/ pending' = <<>> /\ origin' = origin
PollStep ==
    /\ UNCHANGED <<messages, runStart, origin>> /\ ~BeforeFirstPoll'
    /\ phase' \in AfterResponse => phase \in AfterResponse
    /\ \/ pending' = Drained(steeringQueue, SteeringMode) /\ (phase \in AfterResponse \/ BeforeFirstPoll)
       \/ pending' = Drained(followUpQueue, FollowUpMode) /\ phase \in AfterResponse

\* Every step is of one of these kinds.
LEMMA TurnKinds ==
    ASSUME IndTypeOK, PendingPhase, [Next]_vars
    PROVE  KeepStep \/ AppendStep \/ MessageStep \/ BeginStep \/ PollStep
<1> USE DEF AfterResponse, BeforeFirstPoll
<1>t. phase \in Phase /\ skipPoll \in BOOLEAN
    BY DEF IndTypeOK, TypeOK, ControlOK
<1>e. /\ \A stop \in StopReason : AssistantEntry(stop, <<>>) \in Entry
      /\ \A stop, cs : AssistantEntry(stop, cs).role = "assistant"
    BY EntryTypes, EmptySeq DEF AssistantEntry
<1>1. CASE Prompt
    BY <1>1 DEF Prompt, StartRun, BeginStep
<1>2. CASE ContinueWithSteering \/ ContinueWithFollowUps \/ ContinueTranscript
    BY <1>2 DEF ContinueWithSteering, ContinueWithFollowUps, ContinueTranscript, StartRun, BeginStep
<1>3. CASE Steer \/ FollowUp \/ ClearAllQueues \/ Abort \/ OrphanEnds
    BY <1>3 DEF Steer, FollowUp, ClearAllQueues, Abort, OrphanEnds, KeepStep, loopVars, histVars
<1>4. CASE StartCall \/ AdmitCall \/ RefuseCall \/ StartBatch \/ ToolEnds
    BY <1>4 DEF StartCall, AdmitCall, RefuseCall, StartBatch, ToolEnds, ToolsOnly, KeepStep, loopVars
<1>5. CASE EmitPrompt \/ InjectPending
    BY <1>5 DEF EmitPrompt, InjectPending, LoopOnly, queueVars, EmitStep, MessageStep
<1>6. CASE PromptsEmitted \/ PendingInjected \/ TurnEnd
    BY <1>6 DEF PromptsEmitted, PendingInjected, TurnEnd, LoopOnly, loopVars, KeepStep
<1>7. CASE BreakOnAbort \/ BatchDone
    BY <1>7 DEF BreakOnAbort, AtNextCall, BatchDone, loopVars, histVars, KeepStep
<1>8. CASE FirstPoll \/ PollAfterTurn \/ PrepareNextTurn \/ SecondPoll
    BY <1>8, <1>t DEF FirstPoll, PollAfterTurn, PrepareNextTurn, SecondPoll, PollSteering, histVars, KeepStep, PollStep
<1>9. CASE PollFollowUps
    BY <1>9 DEF PollFollowUps, PollStep
<1>10. CASE CallModel
    BY <1>10, <1>e DEF CallModel, AddResponse, LoopOnly, KeepStep, AppendStep, StopReason
<1>11. CASE ResponseFails \/ ResponseWithoutCalls
    <2>1. \E stop \in StopReason : Emit(AssistantEntry(stop, <<>>))
        BY <1>11 DEF ResponseFails, ResponseWithoutCalls, AddResponse, StopReason
    <2>2. \E e \in Entry : Emit(e) /\ e.role # "user" /\ e.role = "assistant"
        BY <1>e, <2>1
    <2> QED BY <1>11, <2>2 DEF ResponseFails, ResponseWithoutCalls, LoopOnly, AppendStep
<1>12. CASE ResponseWithCalls
    <2>1. PICK n \in 1..MaxCalls :
              LET cs == [i \in 1..n |-> <<responses + 1, i>>]
              IN  AddResponse("toolUse", cs) /\ calls' = cs
        BY <1>12 DEF ResponseWithCalls
    <2>2. calls' \in Seq(CallId)
        BY NextTypes DEF IndTypeOK, TypeOK, BatchOK
    <2>3. AssistantEntry("toolUse", calls') \in Entry /\ Emit(AssistantEntry("toolUse", calls'))
        BY <2>1, <2>2, EntryTypes DEF AddResponse, StopReason
    <2>4. \E e \in Entry : Emit(e) /\ e.role # "user" /\ e.role = "assistant"
        BY <1>e, <2>3
    <2> QED BY <1>12, <2>4 DEF ResponseWithCalls, AppendStep
<1>13. CASE EmitResult
    <2>1. emitted + 1 \in 1..Len(calls) /\ calls \in Seq(CallId)
        BY <1>13 DEF EmitResult, IndTypeOK, TypeOK, BatchOK
    <2>2. ResultEntry(calls[emitted + 1]) \in Entry /\ ResultEntry(calls[emitted + 1]).role # "user"
        BY <2>1, ElementOfSeq, EntryTypes DEF ResultEntry
    <2> QED BY <1>13, <2>2 DEF EmitResult, ToolsOnly, loopVars, AppendStep
<1>14. CASE AgentEnd \/ Throws \/ ToolListenerThrows
    BY <1>14 DEF AgentEnd, FinishRun, Throws, ToolListenerThrows, TearDown, histVars, KeepStep
<1>15. CASE RunFailure
    <2>1. outcome \in StopReason
        BY <1>15 DEF RunFailure, IndTypeOK, FailureOutcome, StopReason
    <2>2. messages' = messages \/ \E e \in Entry : Emit(e) /\ e.role # "user" /\ e.role = "assistant"
        BY <1>15, <1>e, <2>1 DEF RunFailure
    <2> QED BY <1>15, <2>2 DEF RunFailure, FinishRun, KeepStep, AppendStep
<1>16. CASE UNCHANGED vars
    BY <1>16 DEF vars, agentVars, loopVars, histVars, KeepStep
<1> QED BY <1>1, <1>2, <1>3, <1>4, <1>5, <1>6, <1>7, <1>8, <1>9, <1>10, <1>11, <1>12, <1>13, <1>14, <1>15,
        <1>16 DEF Next, Callers, RunStep

\* The pending messages of a source after a step that keeps or empties them.
LEMMA PendingKept ==
    ASSUME IndTypeOK, DeliveryInv, [Next]_vars, pending' \in {pending, <<>>}, NEW source
    PROVE  PendingOf(source)' \subseteq PendingOf(source)
<1>1. CASE pending' = <<>>
    BY <1>1, NonePending DEF PendingOf
<1>2. CASE pending' = pending
    BY <1>2, KnownMessages, OriginStable DEF PendingOf
<1> QED BY <1>1, <1>2

\* The pending messages of a source behind a drain of one of the queues.
LEMMA PendingDrained ==
    ASSUME IndTypeOK, DeliveryInv, origin' = origin
    PROVE  /\ pending' = Drained(steeringQueue, SteeringMode) =>
                  /\ PendingOf("followUp")' = {}
                  /\ SteeringMode = "one-at-a-time" => \A m, n \in PendingOf("steer")' : m = n
           /\ pending' = Drained(followUpQueue, FollowUpMode) =>
                  /\ PendingOf("steer")' = {}
                  /\ FollowUpMode = "one-at-a-time" => \A m, n \in PendingOf("followUp")' : m = n
<1>1. ASSUME pending' = Drained(steeringQueue, SteeringMode)
      PROVE  /\ PendingOf("followUp")' = {}
             /\ SteeringMode = "one-at-a-time" => \A m, n \in PendingOf("steer")' : m = n
    <2>1. Range(pending') \subseteq Range(steeringQueue)
        BY <1>1, KnownMessages, DrainedQueue DEF DeliveryInv, OrderInv
    <2>2. SteeringMode = "one-at-a-time" => \A m, n \in Range(pending') : m = n
        BY <1>1, KnownMessages, DrainsOne DEF DeliveryInv, OrderInv
    <2> QED BY <2>1, <2>2 DEF PendingOf, DeliveryInv, OrderInv
<1>2. ASSUME pending' = Drained(followUpQueue, FollowUpMode)
      PROVE  /\ PendingOf("steer")' = {}
             /\ FollowUpMode = "one-at-a-time" => \A m, n \in PendingOf("followUp")' : m = n
    <2>1. Range(pending') \subseteq Range(followUpQueue)
        BY <1>2, KnownMessages, DrainedQueue DEF DeliveryInv, OrderInv
    <2>2. FollowUpMode = "one-at-a-time" => \A m, n \in Range(pending') : m = n
        BY <1>2, KnownMessages, DrainsOne DEF DeliveryInv, OrderInv
    <2> QED BY <2>1, <2>2 DEF PendingOf, DeliveryInv, OrderInv
<1> QED BY <1>1, <1>2

\* A prompt or a continued transcript starts with nothing of a queue.
LEMMA PendingPrompt ==
    ASSUME IndTypeOK, \/ pending' = <<Len(origin) + 1>> /\ origin' = Append(origin, "prompt")
                      \/ pending' = <<>>
    PROVE  PendingOf("steer")' = {} /\ PendingOf("followUp")' = {}
<1>1. CASE pending' = <<>>
    BY <1>1, NonePending DEF PendingOf
<1>2. CASE pending' = <<Len(origin) + 1>> /\ origin' = Append(origin, "prompt")
    <2>1. Range(pending') = {Len(origin) + 1}
        BY <1>2, KnownMessages, OnePending
    <2>2. origin'[Len(origin) + 1] = "prompt"
        BY <1>2, KnownMessages, NewMessage DEF Origin
    <2> QED BY <2>1, <2>2 DEF PendingOf
<1> QED BY <1>1, <1>2

\* The turn of a queue's source, in that queue's mode, is kept by every step.
LEMMA SourceInductive ==
    ASSUME IndTypeOK, DeliveryInv, TurnInv, [Next]_vars, NEW source, NEW mode,
           \/ source = "steer" /\ mode = SteeringMode
           \/ source = "followUp" /\ mode = FollowUpMode
    PROVE  SourceInv(source, mode)'
<1> SUFFICES ASSUME mode = "one-at-a-time"
             PROVE  /\ OnePerTurn(source, mode)'
                    /\ \A m, n \in PendingOf(source)' : m = n
                    /\ PendingOf(source)' # {} => NoneSince(source)'
                    /\ phase' \in AfterResponse => NoneSince(source)'
    BY DEF SourceInv
<1>i. /\ OnePerTurn(source, mode)
      /\ \A m, n \in PendingOf(source) : m = n
      /\ PendingOf(source) # {} => NoneSince(source)
      /\ phase \in AfterResponse => NoneSince(source)
    BY DEF TurnInv, SourceInv
<1>t. messages \in Seq(Entry) /\ runStart \in 0..Len(messages) /\ Len(messages) \in Nat
    BY DEF IndTypeOK, TypeOK, TranscriptOK
<1>1. CASE KeepStep
    <2>1. /\ NoneSince(source) => NoneSince(source)'
          /\ OnePerTurn(source, mode) => OnePerTurn(source, mode)'
        BY <1>1, KeepsHistory DEF KeepStep
    <2>2. PendingOf(source)' \subseteq PendingOf(source)
        BY <1>1, PendingKept DEF KeepStep
    <2> QED BY <1>1, <1>i, <2>1, <2>2 DEF KeepStep
<1>2. CASE AppendStep
    <2>1. PICK e \in Entry : /\ Emit(e) /\ e.role # "user"
                             /\ phase' \in AfterResponse => e.role = "assistant" \/ phase \in AfterResponse
        BY <1>2 DEF AppendStep
    <2>2. /\ e.role = "assistant" \/ NoneSince(source) => NoneSince(source)'
          /\ OnePerTurn(source, mode) => OnePerTurn(source, mode)'
        BY <1>2, <1>t, <2>1, AppendsHistory DEF AppendStep, IsFrom
    <2>3. PendingOf(source)' \subseteq PendingOf(source)
        BY <1>2, PendingKept DEF AppendStep
    <2> QED BY <1>i, <2>1, <2>2, <2>3
<1>3. CASE MessageStep
    <2> DEFINE e == UserEntry(Head(pending))
    <2>1. /\ Head(pending) \in Range(pending) /\ Range(pending') = Range(pending) \ {Head(pending)}
          /\ Head(pending) \in Nat
        BY <1>3, KnownMessages, ShortenedQueue DEF MessageStep, EmitStep, DeliveryInv, OrderInv
    <2>2. e \in Entry /\ e.role = "user" /\ e.msg = Head(pending)
        BY <2>1, EntryTypes DEF UserEntry
    <2> HIDE DEF e
    <2>3. Emit(e) /\ UNCHANGED <<runStart, origin, phase>> /\ phase \notin AfterResponse
        BY <1>3 DEF MessageStep, EmitStep, e
    <2>4. PendingOf(source)' = PendingOf(source) \ {Head(pending)}
        BY <2>1, <2>3 DEF PendingOf
    <2>5. CASE IsFrom(e, source)
        <3>1. Head(pending) \in PendingOf(source)
            BY <2>1, <2>2, <2>5 DEF PendingOf, IsFrom
        <3>2. NoneSince(source) /\ PendingOf(source)' = {}
            BY <1>i, <2>4, <3>1
        <3>3. OnePerTurn(source, mode)'
            BY <1>i, <1>t, <2>2, <2>3, <3>2, AppendsHistory
        <3> QED BY <2>3, <3>2, <3>3
    <2>6. CASE ~IsFrom(e, source)
        <3>1. /\ NoneSince(source) => NoneSince(source)'
              /\ OnePerTurn(source, mode) => OnePerTurn(source, mode)'
            BY <1>t, <2>2, <2>3, <2>6, AppendsHistory
        <3> QED BY <1>i, <2>3, <2>4, <3>1
    <2> QED BY <2>5, <2>6
<1>4. CASE BeginStep
    <2>1. NoneSince(source)' /\ OnePerTurn(source, mode)'
        BY <1>4, <1>t DEF BeginStep, NoneSince, OnePerTurn
    <2>2. \A m, n \in PendingOf(source)' : m = n
        BY <1>4, PendingDrained, PendingPrompt DEF BeginStep
    <2> QED BY <2>1, <2>2
<1>5. CASE PollStep
    <2>1. /\ NoneSince(source) => NoneSince(source)'
          /\ OnePerTurn(source, mode) => OnePerTurn(source, mode)'
        BY <1>5, KeepsHistory DEF PollStep
    <2>2. \A m, n \in PendingOf(source)' : m = n
        BY <1>5, PendingDrained DEF PollStep
    <2>3. PendingOf(source)' # {} => NoneSince(source)
        BY <1>5, <1>i, PendingDrained DEF PollStep, TurnInv, FirstPollInv
    <2> QED BY <1>5, <1>i, <2>1, <2>2, <2>3 DEF PollStep
<1> QED BY <1>1, <1>2, <1>3, <1>4, <1>5, TurnKinds DEF DeliveryInv

\* No steering message comes before the first poll, unless that poll is skipped.
LEMMA FirstPollInductive ==
    ASSUME IndTypeOK, DeliveryInv, TurnInv, [Next]_vars
    PROVE  FirstPollInv'
<1> SUFFICES ASSUME BeforeFirstPoll'
             PROVE  NoneSince("steer")' /\ PendingOf("steer")' = {}
    BY DEF FirstPollInv
<1>t. messages \in Seq(Entry) /\ runStart \in 0..Len(messages) /\ Len(messages) \in Nat
    BY DEF IndTypeOK, TypeOK, TranscriptOK
<1>1. CASE KeepStep
    BY <1>1, KeepsHistory, PendingKept DEF KeepStep, TurnInv, FirstPollInv
<1>2. CASE MessageStep
    <2>1. NoneSince("steer") /\ PendingOf("steer") = {}
        BY <1>2 DEF MessageStep, BeforeFirstPoll, TurnInv, FirstPollInv
    <2> DEFINE e == UserEntry(Head(pending))
    <2>2. /\ Head(pending) \in Range(pending) /\ Range(pending') = Range(pending) \ {Head(pending)}
          /\ Head(pending) \in Nat
        BY <1>2, KnownMessages, ShortenedQueue DEF MessageStep, EmitStep, DeliveryInv, OrderInv
    <2>3. e \in Entry /\ e.role = "user" /\ e.msg = Head(pending)
        BY <2>2, EntryTypes DEF UserEntry
    <2> HIDE DEF e
    <2>4. Emit(e) /\ UNCHANGED <<runStart, origin>>
        BY <1>2 DEF MessageStep, EmitStep, e
    <2>5. ~IsFrom(e, "steer") /\ PendingOf("steer")' = {}
        BY <2>1, <2>2, <2>3, <2>4 DEF PendingOf, IsFrom
    <2> QED BY <1>t, <2>1, <2>3, <2>4, <2>5, AppendsHistory
<1>3. CASE BeginStep
    <2>1. NoneSince("steer")'
        BY <1>3, <1>t DEF BeginStep, NoneSince
    <2>2. PendingOf("steer")' = {}
        BY <1>3, PendingDrained, PendingPrompt DEF BeginStep, BeforeFirstPoll
    <2> QED BY <2>1, <2>2
<1>4. CASE AppendStep \/ PollStep
    BY <1>4 DEF AppendStep, PollStep
<1> QED BY <1>1, <1>2, <1>3, <1>4, TurnKinds DEF DeliveryInv

\* In one-at-a-time mode a turn of a run takes at most one message of a queue,
\* although three polls may drain it between two responses.
THEOREM MessagesOneAtATime == Spec => []OneAtATime
<1>1. Init => IndTypeOK /\ DeliveryInv /\ TurnInv
    <2>1. Init => TurnInv
        BY NonePending DEF Init, TurnInv, SourceInv, FirstPollInv, BeforeFirstPoll, OnePerTurn, PendingOf,
            AfterResponse
    <2> QED BY <2>1, InitDelivery
<1>2. (IndTypeOK /\ DeliveryInv /\ TurnInv) /\ [Next]_vars => (IndTypeOK /\ DeliveryInv /\ TurnInv)'
    BY NextTypes, DeliveryInductive, SourceInductive, FirstPollInductive DEF TurnInv
<1>3. TurnInv => OneAtATime
    BY DEF TurnInv, SourceInv, OneAtATime, OnePerTurn
<1> QED BY <1>1, <1>2, <1>3, PTL DEF Spec

=============================================================================
