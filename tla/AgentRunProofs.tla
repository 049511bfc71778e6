--------------------------- MODULE AgentRunProofs ---------------------------
(***************************************************************************)
(* Proofs about AgentRun for every number of messages, tool turns, calls,  *)
(* failures and for every queue mode.                                      *)
(***************************************************************************)
EXTENDS AgentRun, SequenceTheorems, TLAPS

-----------------------------------------------------------------------------
(* Queues *)

\* What drain() returns and what it leaves are made of the queue's messages.
LEMMA DrainType ==
    ASSUME NEW S, NEW queue \in Seq(S), NEW mode
    PROVE  Drained(queue, mode) \in Seq(S) /\ Undrained(queue, mode) \in Seq(S)
<1>1. CASE mode = "all" \/ queue = <<>>
    BY <1>1 DEF Drained, Undrained
<1>2. CASE mode # "all" /\ queue # <<>>
    BY <1>2, HeadTailProperties DEF Drained, Undrained
<1> QED BY <1>1, <1>2

\* A message stays known when another one is handed over.
LEMMA HandedOver ==
    ASSUME origin \in Seq(Origin), NEW source \in Origin, origin' = Append(origin, source)
    PROVE  /\ origin' \in Seq(Origin)
           /\ Len(origin') = Len(origin) + 1
           /\ Msg \subseteq Msg'
           /\ Len(origin) + 1 \in Msg'
           /\ \A q \in Seq(Msg) : q \in Seq(Msg')
<1>1. /\ origin' \in Seq(Origin) /\ Len(origin') = Len(origin) + 1
    BY AppendProperties
<1>2. Msg \subseteq Msg' /\ Len(origin) + 1 \in Msg'
    BY <1>1 DEF Msg
<1>3. \A q \in Seq(Msg) : q \in Seq(Msg')
    BY <1>2, SeqMonotonic
<1> QED BY <1>1, <1>2, <1>3

\* The messages stay in their range: origin only grows, and the queues and the
\* loop's pending list exchange messages.
LEMMA QueuesInductive ==
    ASSUME QueuesOK, [Next]_vars
    PROVE  QueuesOK'
<1> USE DEF QueuesOK
<1>1. CASE Prompt
    <2>1. origin' = Append(origin, "prompt") /\ "prompt" \in Origin
        BY <1>1 DEF Prompt, Origin
    <2>2. pending' \in Seq(Msg')
        BY <1>1, <2>1, HandedOver DEF Prompt, StartRun
    <2> QED BY <1>1, <2>1, <2>2, HandedOver DEF Prompt, StartRun, queueVars
<1>2. CASE ContinueWithSteering
    BY <1>2, DrainType DEF ContinueWithSteering, StartRun, Msg
<1>3. CASE ContinueWithFollowUps
    BY <1>3, DrainType DEF ContinueWithFollowUps, StartRun, Msg
<1>4. CASE ContinueTranscript
    BY <1>4 DEF ContinueTranscript, StartRun, queueVars, Msg
<1>5. CASE Steer
    <2>1. origin' = Append(origin, "steer") /\ "steer" \in Origin
        BY <1>5 DEF Steer, Origin
    <2>2. steeringQueue' \in Seq(Msg')
        BY <1>5, <2>1, HandedOver, AppendProperties DEF Steer
    <2> QED BY <1>5, <2>1, <2>2, HandedOver DEF Steer, loopVars
<1>6. CASE FollowUp
    <2>1. origin' = Append(origin, "followUp") /\ "followUp" \in Origin
        BY <1>6 DEF FollowUp, Origin
    <2>2. followUpQueue' \in Seq(Msg')
        BY <1>6, <2>1, HandedOver, AppendProperties DEF FollowUp
    <2> QED BY <1>6, <2>1, <2>2, HandedOver DEF FollowUp, loopVars
<1>7. CASE ClearAllQueues
    <2>1. Range(steeringQueue) \subseteq Msg /\ Range(followUpQueue) \subseteq Msg
        BY RangeOfSeq
    <2>2. origin' = origin /\ pending' = pending /\ dropped' = dropped
        BY <1>7 DEF ClearAllQueues, loopVars
    <2>3. discarded' \subseteq Msg
        BY <1>7, <2>1 DEF ClearAllQueues
    <2>4. steeringQueue' \in Seq(Msg) /\ followUpQueue' \in Seq(Msg)
        BY <1>7, EmptySeq DEF ClearAllQueues
    <2> QED BY <2>2, <2>3, <2>4 DEF Msg
<1>8. CASE EmitPrompt \/ InjectPending
    <2>1. pending' \in Seq(Msg)
        BY <1>8, HeadTailProperties DEF EmitPrompt, InjectPending
    <2> QED BY <1>8, <2>1 DEF EmitPrompt, InjectPending, LoopOnly, queueVars, Msg
<1>9. CASE FirstPoll \/ PollAfterTurn \/ SecondPoll
    <2>1. pending' \in Seq(Msg) /\ steeringQueue' \in Seq(Msg)
        BY <1>9, DrainType DEF FirstPoll, PollAfterTurn, SecondPoll, PollSteering
    <2> QED BY <1>9, <2>1 DEF FirstPoll, PollAfterTurn, SecondPoll, histVars, Msg
<1>10. CASE PollFollowUps
    BY <1>10, DrainType DEF PollFollowUps, Msg
<1>11. CASE Throws \/ ToolListenerThrows
    <2>1. Range(pending) \subseteq Msg
        BY RangeOfSeq
    <2>2. dropped' \subseteq Msg /\ pending' = <<>>
        BY <1>11, <2>1 DEF Throws, ToolListenerThrows, TearDown
    <2>3. UNCHANGED <<origin, steeringQueue, followUpQueue, discarded>>
        BY <1>11 DEF Throws, ToolListenerThrows, TearDown, queueVars
    <2> QED BY <2>2, <2>3, EmptySeq DEF Msg
<1>12. CASE AgentEnd \/ RunFailure
    <2>1. pending' = <<>> /\ UNCHANGED <<origin, steeringQueue, followUpQueue, discarded, dropped>>
        BY <1>12 DEF AgentEnd, RunFailure, FinishRun, queueVars, histVars
    <2> QED BY <2>1, EmptySeq DEF Msg
<1>13. CASE \/ PromptsEmitted \/ PendingInjected \/ CallModel \/ ResponseFails \/ ResponseWithoutCalls
            \/ ResponseWithCalls \/ TurnEnd \/ Abort \/ BreakOnAbort \/ BatchDone \/ OrphanEnds
            \/ PrepareNextTurn
    BY <1>13 DEF PromptsEmitted, PendingInjected, CallModel, ResponseFails, ResponseWithoutCalls,
        ResponseWithCalls, TurnEnd, Abort, BreakOnAbort, BatchDone, OrphanEnds, PrepareNextTurn, LoopOnly, loopVars,
        queueVars, histVars, Msg
<1>14. CASE StartCall \/ AdmitCall \/ RefuseCall \/ StartBatch \/ ToolEnds \/ EmitResult
    BY <1>14 DEF StartCall, AdmitCall, RefuseCall, StartBatch, ToolEnds, EmitResult, ToolsOnly,
        loopVars, queueVars, Msg
<1>15. CASE UNCHANGED vars
    BY <1>15 DEF vars, agentVars, loopVars, histVars, Msg
<1> QED BY <1>1, <1>2, <1>3, <1>4, <1>5, <1>6, <1>7, <1>8, <1>9, <1>10, <1>11, <1>12, <1>13, <1>14, <1>15
        DEF Next, Callers, RunStep

-----------------------------------------------------------------------------
(* Control *)

\* handleRunFailure reports the outcome that the throw left.
FailureOutcome == phase = "failing" => outcome \in {"error", "aborted"}

\* Phases, outcomes and flags stay in their ranges, the budgets within bounds.
LEMMA ControlInductive ==
    ASSUME ControlOK, FailureOutcome, [Next]_vars
    PROVE  ControlOK' /\ FailureOutcome'
<1> USE DEF ControlOK, FailureOutcome, Phase, Outcome
<1>1. CASE Callers
    <2>1. CASE Prompt \/ ContinueWithSteering \/ ContinueWithFollowUps \/ ContinueTranscript
        <3>1. /\ phase' = "prompts" /\ outcome' = "none" /\ aborted' = FALSE /\ hasMore' = TRUE
              /\ skipPoll' \in BOOLEAN
              /\ UNCHANGED <<parallel, responses, failures>>
            BY <2>1 DEF Prompt, ContinueWithSteering, ContinueWithFollowUps, ContinueTranscript, StartRun, batchVars
        <3> QED BY <3>1
    <2>2. CASE Steer \/ FollowUp \/ ClearAllQueues \/ Abort
        BY <2>2 DEF Steer, FollowUp, ClearAllQueues, Abort, loopVars, batchVars, histVars
    <2> QED BY <1>1, <2>1, <2>2 DEF Callers
<1>2. CASE EmitPrompt \/ PromptsEmitted \/ InjectPending \/ PendingInjected \/ CallModel \/ ResponseFails
           \/ ResponseWithoutCalls \/ TurnEnd
    BY <1>2 DEF EmitPrompt, PromptsEmitted, InjectPending, PendingInjected, CallModel, ResponseFails,
        ResponseWithoutCalls, TurnEnd, LoopOnly, loopVars, batchVars
<1>3. CASE ResponseWithCalls
    <2>1. responses' \in 0..MaxToolTurns
        BY <1>3, BoundAssumption DEF ResponseWithCalls
    <2> QED BY <1>3, <2>1 DEF ResponseWithCalls
<1>4. CASE FirstPoll \/ PollAfterTurn \/ PrepareNextTurn \/ SecondPoll \/ PollFollowUps
    BY <1>4 DEF FirstPoll, PollAfterTurn, PrepareNextTurn, SecondPoll, PollFollowUps, batchVars, histVars
<1>5. CASE StartCall \/ AdmitCall \/ RefuseCall \/ StartBatch \/ ToolEnds \/ EmitResult
    <2>1. UNCHANGED <<phase, outcome, aborted, skipPoll, hasMore, parallel, responses, failures>>
        BY <1>5 DEF StartCall, AdmitCall, RefuseCall, StartBatch, ToolEnds, EmitResult, ToolsOnly, loopVars
    <2> QED BY <2>1
<1>6. CASE BreakOnAbort \/ BatchDone \/ OrphanEnds
    <2>1. CASE BreakOnAbort
        BY <2>1 DEF BreakOnAbort, loopVars, histVars
    <2>2. CASE BatchDone
        BY <2>2 DEF BatchDone, NoBatch, histVars
    <2>3. CASE OrphanEnds
        BY <2>3 DEF OrphanEnds, loopVars, batchVars, histVars
    <2> QED BY <1>6, <2>1, <2>2, <2>3
<1>7. CASE AgentEnd
    BY <1>7 DEF AgentEnd, FinishRun, batchVars, histVars
<1>8. CASE Throws \/ ToolListenerThrows
    <2>1. failures' \in 0..MaxFailures
        BY <1>8, BoundAssumption DEF Throws, ToolListenerThrows, TearDown
    <2> QED BY <1>8, <2>1 DEF Throws, ToolListenerThrows, TearDown, NoBatch
<1>9. CASE RunFailure
    <2>1. failures' \in 0..MaxFailures
        BY <1>9, BoundAssumption DEF RunFailure
    <2> QED BY <1>9, <2>1 DEF RunFailure, FinishRun, batchVars
<1>10. CASE UNCHANGED vars
    BY <1>10 DEF vars, agentVars, loopVars, batchVars, histVars
<1> QED BY <1>1, <1>2, <1>3, <1>4, <1>5, <1>6, <1>7, <1>8, <1>9, <1>10 DEF Next, RunStep

-----------------------------------------------------------------------------
(* Batches *)

\* The current call of a batch is one of its calls.
LEMMA CurrentCallType ==
    ASSUME BatchOK, prepared < Len(calls)
    PROVE  CurrentCall \in CallId
BY DEF BatchOK, CurrentCall

\* Outside executeToolCalls there is no batch, so the next one starts from zero.
NoBatchOutsideTools == phase # "tools" => calls = <<>> /\ prepared = 0 /\ emitted = 0

\* The counters of a batch stay within the batch, also when an abort cuts it.
LEMMA BatchInductive ==
    ASSUME BatchOK, ControlOK, NoBatchOutsideTools, [Next]_vars
    PROVE  BatchOK' /\ NoBatchOutsideTools'
<1> USE DEF BatchOK, NoBatchOutsideTools
<1>1. CASE Callers
    BY <1>1 DEF Callers, Prompt, ContinueWithSteering, ContinueWithFollowUps, ContinueTranscript,
        StartRun, Steer, FollowUp, ClearAllQueues, Abort, batchVars
<1>2. CASE EmitPrompt \/ PromptsEmitted \/ InjectPending \/ PendingInjected \/ CallModel \/ ResponseFails
           \/ ResponseWithoutCalls \/ TurnEnd
    BY <1>2 DEF EmitPrompt, PromptsEmitted, InjectPending, PendingInjected, CallModel, ResponseFails,
        ResponseWithoutCalls, TurnEnd, LoopOnly, batchVars
<1>3. CASE ResponseWithCalls
    <2>1. calls' \in Seq(CallId)
        BY <1>3 DEF ResponseWithCalls, CallId, ControlOK
    <2>2. Len(calls') \in Nat /\ prepared' = 0 /\ emitted' = 0 /\ phase' = "tools"
        BY <1>3, <2>1 DEF ResponseWithCalls
    <2> QED BY <1>3, <2>1, <2>2 DEF ResponseWithCalls
<1>4. CASE FirstPoll \/ PollAfterTurn \/ PrepareNextTurn \/ SecondPoll \/ PollFollowUps
    BY <1>4 DEF FirstPoll, PollAfterTurn, PrepareNextTurn, SecondPoll, PollFollowUps, batchVars
<1>5. CASE StartCall \/ AdmitCall \/ RefuseCall
    <2>1. prepared < Len(calls) /\ phase = "tools"
        BY <1>5 DEF StartCall, AdmitCall, RefuseCall, AtNextCall, Preparing
    <2>2. CurrentCall \in CallId
        BY <2>1, CurrentCallType
    <2>3. CASE StartCall
        BY <2>1, <2>2, <2>3 DEF StartCall, ToolsOnly
    <2>4. CASE AdmitCall
        BY <2>1, <2>2, <2>4 DEF AdmitCall, ToolsOnly
    <2>5. CASE RefuseCall
        BY <2>1, <2>2, <2>5 DEF RefuseCall, Finalize, ToolsOnly
    <2> QED BY <1>5, <2>3, <2>4, <2>5
<1>6. CASE StartBatch \/ ToolEnds
    BY <1>6 DEF StartBatch, ToolEnds, Finalize, ToolsOnly
<1>7. CASE EmitResult
    BY <1>7 DEF EmitResult, ResultsDue, ToolsOnly
<1>8. CASE BreakOnAbort
    <2>1. calls' = SubSeq(calls, 1, prepared) /\ prepared <= Len(calls) /\ phase = "tools"
        BY <1>8 DEF BreakOnAbort, AtNextCall
    <2>2. calls' \in Seq(CallId) /\ Len(calls') = prepared
        BY <2>1, SubSeqProperties
    <2> QED BY <1>8, <2>1, <2>2 DEF BreakOnAbort
<1>9. CASE BatchDone
    BY <1>9 DEF BatchDone, NoBatch
<1>10. CASE OrphanEnds
    BY <1>10 DEF OrphanEnds, batchVars
<1>11. CASE AgentEnd \/ RunFailure
    BY <1>11 DEF AgentEnd, RunFailure, FinishRun, batchVars
<1>12. CASE Throws \/ ToolListenerThrows
    <2>1. /\ NoBatch
          /\ orphans' \subseteq CallId
          /\ pendingToolCalls' \subseteq CallId
        BY <1>12 DEF Throws, ToolListenerThrows, TearDown
    <2> QED BY <2>1 DEF NoBatch
<1>13. CASE UNCHANGED vars
    BY <1>13 DEF vars, agentVars, batchVars
<1> QED BY <1>1, <1>2, <1>3, <1>4, <1>5, <1>6, <1>7, <1>8, <1>9, <1>10, <1>11, <1>12, <1>13
        DEF Next, RunStep

-----------------------------------------------------------------------------
(* Transcript *)

\* What a user, a tool result and an assistant message append are entries.
LEMMA EntryTypes ==
    /\ \A m \in Nat : UserEntry(m) \in Entry
    /\ \A c \in CallId : ResultEntry(c) \in Entry
    /\ \A stop \in StopReason : \A cs \in Seq(CallId) : AssistantEntry(stop, cs) \in Entry
BY DEF UserEntry, ResultEntry, AssistantEntry, Entry

\* Entries made of messages and of calls are entries of a transcript.
LEMMA EntriesTypes ==
    /\ \A ms \in Seq(Nat) : UserEntries(ms) \in Seq(Entry) /\ Len(UserEntries(ms)) = Len(ms)
    /\ \A cs \in Seq(CallId) : ResultEntries(cs) \in Seq(Entry) /\ Len(ResultEntries(cs)) = Len(cs)
<1>1. ASSUME NEW ms \in Seq(Nat)
      PROVE  UserEntries(ms) \in Seq(Entry) /\ Len(UserEntries(ms)) = Len(ms)
    <2>1. \A i \in 1..Len(ms) : UserEntry(ms[i]) \in Entry
        BY EntryTypes
    <2> QED BY <2>1 DEF UserEntries
<1>2. ASSUME NEW cs \in Seq(CallId)
      PROVE  ResultEntries(cs) \in Seq(Entry) /\ Len(ResultEntries(cs)) = Len(cs)
    <2>1. \A i \in 1..Len(cs) : ResultEntry(cs[i]) \in Entry
        BY EntryTypes
    <2> QED BY <2>1 DEF ResultEntries
<1> QED BY <1>1, <1>2

\* A sequence of known messages is a sequence of numbers.
LEMMA MessagesAreNumbers ==
    ASSUME QueuesOK
    PROVE  \A ms \in Seq(Msg) : ms \in Seq(Nat)
<1>1. Msg \subseteq Nat
    BY DEF QueuesOK, Msg
<1> QED BY <1>1, SeqMonotonic

\* A summary and what a compaction keeps behind it are a transcript, and a
\* message that is appended to the one is appended to the other.
LEMMA KeptEntries ==
    ASSUME NEW ms \in Seq(Entry), NEW k \in 1..Len(ms)
    PROVE  /\ SubSeq(ms, k, Len(ms)) \in Seq(Entry) /\ <<Summary>> \in Seq(Entry)
           /\ <<Summary>> \o SubSeq(ms, k, Len(ms)) \in Seq(Entry)
<1>1. Summary \in Entry
    BY DEF Entry
<1>2. SubSeq(ms, k, Len(ms)) \in Seq(Entry) /\ <<Summary>> \in Seq(Entry)
    BY <1>1
<1> QED BY <1>2, ConcatProperties

LEMMA KeptAppend ==
    ASSUME NEW ms \in Seq(Entry), NEW k \in 1..Len(ms), NEW e \in Entry
    PROVE  <<Summary>> \o SubSeq(Append(ms, e), k, Len(Append(ms, e)))
             = Append(<<Summary>> \o SubSeq(ms, k, Len(ms)), e)
<1> DEFINE all == Append(ms, e)
           early == SubSeq(ms, k, Len(ms))
<1>1. all \in Seq(Entry) /\ Len(all) = Len(ms) + 1 /\ all[Len(all)] = e
      /\ \A i \in 1..Len(ms) : all[i] = ms[i]
    BY AppendProperties
<1>2. early \in Seq(Entry) /\ Len(early) = Len(ms) - k + 1 /\ \A i \in 1..Len(early) : early[i] = ms[k + i - 1]
    OBVIOUS
<1> HIDE DEF all, early
<1>3. SubSeq(all, k, Len(all)) = Append(early, e)
    <2>1. /\ SubSeq(all, k, Len(all)) \in Seq(Entry) /\ Len(SubSeq(all, k, Len(all))) = Len(ms) - k + 2
          /\ \A i \in 1..(Len(ms) - k + 2) : SubSeq(all, k, Len(all))[i] = all[k + i - 1]
        BY <1>1
    <2>2. /\ Append(early, e) \in Seq(Entry) /\ Len(Append(early, e)) = Len(ms) - k + 2
          /\ \A i \in 1..(Len(ms) - k + 1) : Append(early, e)[i] = early[i]
          /\ Append(early, e)[Len(ms) - k + 2] = e
        <3>1. /\ Append(early, e) \in Seq(Entry) /\ Len(Append(early, e)) = Len(early) + 1
              /\ \A i \in 1..Len(early) : Append(early, e)[i] = early[i]
              /\ Append(early, e)[Len(early) + 1] = e
            BY <1>2, AppendProperties
        <3>2. Len(early) + 1 = Len(ms) - k + 2
            BY <1>2
        <3> QED BY <1>2, <3>1, <3>2
    <2>3. ASSUME NEW i \in 1..(Len(ms) - k + 2)
          PROVE  SubSeq(all, k, Len(all))[i] = Append(early, e)[i]
        <3>1. CASE i = Len(ms) - k + 2
            BY <1>1, <2>1, <2>2, <3>1
        <3>2. CASE i # Len(ms) - k + 2
            <4>1. i \in 1..(Len(ms) - k + 1) /\ k + i - 1 \in 1..Len(ms)
                BY <3>2
            <4> QED BY <1>1, <1>2, <2>1, <2>2, <4>1
        <3> QED BY <3>1, <3>2
    <2> QED BY <2>1, <2>2, <2>3, SeqEqual
<1>4. <<Summary>> \in Seq(Entry) /\ <<e>> \in Seq(Entry) /\ <<Summary>> \o early \in Seq(Entry)
    BY KeptEntries DEF early
<1>5. Append(early, e) = early \o <<e>> /\ Append(<<Summary>> \o early, e) = (<<Summary>> \o early) \o <<e>>
    BY <1>2, <1>4, AppendIsConcat
<1>6. <<Summary>> \o Append(early, e) = Append(<<Summary>> \o early, e)
    BY <1>2, <1>4, <1>5, ConcatAssociative
<1> QED BY <1>3, <1>6 DEF all, early

\* What a compaction that keeps entry k makes of the transcript is one.
LEMMA RebuiltType ==
    ASSUME TranscriptOK
    PROVE  /\ \A k \in 0..Len(messages) : Rebuilt(k) \in Seq(Entry)
           /\ Transcript \in Seq(Entry)
<1>1. ASSUME NEW k \in 0..Len(messages) PROVE Rebuilt(k) \in Seq(Entry)
    BY KeptEntries DEF TranscriptOK, Rebuilt
<1> QED BY <1>1 DEF TranscriptOK, Transcript

\* The loop's context is replaced by what a compaction leaves of the transcript.
LEMMA PrepareType ==
    ASSUME TranscriptOK, PrepareNextTurn
    PROVE  kept' \in 0..Len(messages) /\ context' \in Seq(Entry)
<1>1. CASE UNCHANGED <<kept, context>>
    BY <1>1 DEF TranscriptOK
<1>2. ASSUME NEW k \in {kept} \cup CutPoints, kept' = k /\ context' = Rebuilt(k)
      PROVE  kept' \in 0..Len(messages) /\ context' \in Seq(Entry)
    <2>1. k \in 0..Len(messages)
        BY DEF CutPoints, TranscriptOK
    <2> QED BY <1>2, <2>1, RebuiltType
<1> QED BY <1>1, <1>2 DEF PrepareNextTurn, CompactBeforeNextAssistantResponse

\* The transcript and the loop's context stay sequences of entries, and the
\* transcript never shrinks below the start of the run.
LEMMA TranscriptInductive ==
    ASSUME QueuesOK, TranscriptOK, BatchOK, ControlOK, FailureOutcome, [Next]_vars
    PROVE  TranscriptOK'
<1> USE DEF TranscriptOK
<1>a. ASSUME NEW e \in Entry, Emit(e)
      PROVE  /\ messages' \in Seq(Entry) /\ Len(messages') = Len(messages) + 1
             /\ 0..Len(messages) \subseteq 0..Len(messages')
    <2>1. messages' \in Seq(Entry) /\ Len(messages') = Len(messages) + 1
        BY <1>a, AppendProperties DEF Emit
    <2>2. \A n \in Nat : 0..n \subseteq 0..(n + 1)
        OBVIOUS
    <2> QED BY <2>1, <2>2
<1>b. ASSUME NEW prompts \in Seq(Msg), NEW skip, StartRun(prompts, skip)
      PROVE  TranscriptOK'
    <2>1. UserEntries(prompts) \in Seq(Entry)
        BY MessagesAreNumbers, EntriesTypes
    <2>2. Transcript \o UserEntries(prompts) \in Seq(Entry)
        BY <2>1, RebuiltType, ConcatProperties
    <2> QED BY <1>b, <2>2 DEF StartRun
<1>c. ASSUME NEW stop \in StopReason, NEW cs \in Seq(CallId), AddResponse(stop, cs),
             UNCHANGED <<kept, runStart>>
      PROVE  TranscriptOK'
    <2>1. AssistantEntry(stop, cs) \in Entry
        BY EntryTypes
    <2>2. context' \in Seq(Entry)
        BY <1>c, <2>1, AppendProperties DEF AddResponse
    <2> QED BY <1>a, <1>c, <2>1, <2>2 DEF AddResponse
<1>d. pending # <<>> => UserEntry(Head(pending)) \in Entry
    BY EntryTypes, MessagesAreNumbers, HeadTailProperties DEF QueuesOK
<1>1. CASE Prompt
    <2>1. Len(origin) + 1 \in Nat /\ \A m \in Nat : <<m>> \in Seq(Nat)
        BY DEF QueuesOK
    <2>2. UserEntries(<<Len(origin) + 1>>) \in Seq(Entry)
        BY <2>1, EntriesTypes
    <2>3. Transcript \o UserEntries(<<Len(origin) + 1>>) \in Seq(Entry)
        BY <2>2, RebuiltType, ConcatProperties
    <2> QED BY <1>1, <2>3 DEF Prompt, StartRun
<1>2. CASE ContinueWithSteering
    BY <1>2, <1>b, DrainType DEF ContinueWithSteering, QueuesOK
<1>3. CASE ContinueWithFollowUps
    BY <1>3, <1>b, DrainType DEF ContinueWithFollowUps, QueuesOK
<1>4. CASE ContinueTranscript
    BY <1>4, <1>b, EmptySeq DEF ContinueTranscript
<1>5. CASE Steer \/ FollowUp \/ ClearAllQueues \/ Abort
    BY <1>5 DEF Steer, FollowUp, ClearAllQueues, Abort, loopVars, histVars
<1>6. CASE EmitPrompt
    <2>1. UNCHANGED <<context, kept, runStart>>
        BY <1>6 DEF EmitPrompt, LoopOnly
    <2> QED BY <1>6, <1>a, <1>d, <2>1 DEF EmitPrompt
<1>7. CASE InjectPending
    <2>1. context' \in Seq(Entry) /\ UNCHANGED <<kept, runStart>>
        BY <1>7, <1>d, AppendProperties DEF InjectPending, LoopOnly
    <2> QED BY <1>7, <1>a, <1>d, <2>1 DEF InjectPending
<1>8. CASE CallModel \/ ResponseFails \/ ResponseWithoutCalls
    <2>1. UNCHANGED <<kept, runStart>>
        BY <1>8 DEF CallModel, ResponseFails, ResponseWithoutCalls, LoopOnly
    <2>2. \/ UNCHANGED <<messages, context>>
          \/ \E stop \in StopReason : AddResponse(stop, <<>>)
        BY <1>8 DEF CallModel, ResponseFails, ResponseWithoutCalls, StopReason
    <2> QED BY <1>c, <2>1, <2>2, EmptySeq
<1>9. CASE ResponseWithCalls
    <2>1. PICK n \in 1..MaxCalls :
              AddResponse("toolUse", [i \in 1..n |-> <<responses + 1, i>>])
        BY <1>9 DEF ResponseWithCalls
    <2>2. [i \in 1..n |-> <<responses + 1, i>>] \in Seq(CallId)
        BY BoundAssumption DEF CallId, ControlOK
    <2>3. UNCHANGED <<kept, runStart>> /\ "toolUse" \in StopReason
        BY <1>9 DEF ResponseWithCalls, StopReason
    <2> QED BY <1>c, <2>1, <2>2, <2>3
<1>10. CASE EmitResult
    <2>1. emitted + 1 \in 1..Len(calls) /\ UNCHANGED <<context, kept, runStart>>
        BY <1>10 DEF EmitResult, ToolsOnly, loopVars, BatchOK
    <2>2. ResultEntry(calls[emitted + 1]) \in Entry
        BY <2>1, EntryTypes, ElementOfSeq DEF BatchOK
    <2> QED BY <1>10, <1>a, <2>1, <2>2 DEF EmitResult
<1>11. CASE BatchDone
    <2>1. ResultEntries(calls) \in Seq(Entry)
        BY EntriesTypes DEF BatchOK
    <2>2. context \o ResultEntries(calls) \in Seq(Entry)
        BY <2>1, ConcatProperties
    <2> QED BY <1>11, <2>2 DEF BatchDone, histVars
<1>12. CASE AgentEnd
    BY <1>12, EmptySeq DEF AgentEnd, FinishRun, histVars
<1>13. CASE Throws \/ ToolListenerThrows
    BY <1>13, EmptySeq DEF Throws, ToolListenerThrows, TearDown
<1>14. CASE RunFailure
    <2>1. context' = <<>> /\ UNCHANGED <<kept, runStart>>
        BY <1>14 DEF RunFailure, FinishRun
    <2>2. AssistantEntry(outcome, <<>>) \in Entry
        BY <1>14, EntryTypes, EmptySeq DEF RunFailure, FailureOutcome, StopReason
    <2>3. messages' = messages \/ Emit(AssistantEntry(outcome, <<>>))
        BY <1>14 DEF RunFailure
    <2> QED BY <1>a, <2>1, <2>2, <2>3, EmptySeq
<1>15. CASE PromptsEmitted \/ PendingInjected \/ TurnEnd \/ FirstPoll \/ PollAfterTurn \/ SecondPoll
            \/ PollFollowUps \/ BreakOnAbort \/ OrphanEnds
    BY <1>15 DEF PromptsEmitted, PendingInjected, TurnEnd, FirstPoll, PollAfterTurn, SecondPoll,
        PollFollowUps, BreakOnAbort, OrphanEnds, LoopOnly, loopVars, histVars
<1>18. CASE PrepareNextTurn
    BY <1>18, PrepareType DEF PrepareNextTurn, histVars
<1>16. CASE StartCall \/ AdmitCall \/ RefuseCall \/ StartBatch \/ ToolEnds
    BY <1>16 DEF StartCall, AdmitCall, RefuseCall, StartBatch, ToolEnds, ToolsOnly, loopVars
<1>17. CASE UNCHANGED vars
    BY <1>17 DEF vars, agentVars, loopVars, histVars
<1> QED BY <1>1, <1>2, <1>3, <1>4, <1>5, <1>6, <1>7, <1>8, <1>9, <1>10, <1>11, <1>12, <1>13, <1>14, <1>15,
        <1>16, <1>17, <1>18 DEF Next, Callers, RunStep

-----------------------------------------------------------------------------
(* Type correctness *)

IndTypeOK == TypeOK /\ FailureOutcome /\ NoBatchOutsideTools

\* The agent starts within its types.
LEMMA InitTypes == Init => IndTypeOK
<1> SUFFICES ASSUME Init PROVE IndTypeOK
    OBVIOUS
<1> USE DEF Init
<1>1. QueuesOK
    BY EmptySeq DEF QueuesOK
<1>2. TranscriptOK
    BY EmptySeq DEF TranscriptOK
<1>3. BatchOK /\ NoBatchOutsideTools
    BY EmptySeq DEF BatchOK, NoBatchOutsideTools
<1>4. ControlOK /\ FailureOutcome
    <2>1. responses \in 0..MaxToolTurns /\ failures \in 0..MaxFailures
        BY BoundAssumption
    <2>2. phase \in Phase /\ outcome \in Outcome /\ FailureOutcome
        BY DEF FailureOutcome, Phase, Outcome
    <2>3. aborted \in BOOLEAN /\ skipPoll \in BOOLEAN /\ hasMore \in BOOLEAN /\ parallel \in BOOLEAN
        BY Zenon
    <2> QED BY <2>1, <2>2, <2>3, Zenon DEF ControlOK
<1> QED BY <1>1, <1>2, <1>3, <1>4 DEF IndTypeOK, TypeOK

\* Every step of the agent keeps the types, with what is known of a failing run
\* and of the batch outside the tool phase.
LEMMA NextTypes == IndTypeOK /\ [Next]_vars => IndTypeOK'
BY QueuesInductive, TranscriptInductive, BatchInductive, ControlInductive DEF IndTypeOK, TypeOK

\* Type correctness of the agent (agent.ts, agent-loop.ts) for every bound and mode.
THEOREM TypeCorrect == Spec => []TypeOK
<1>1. Spec => []IndTypeOK
    BY InitTypes, NextTypes, PTL DEF Spec
<1>2. IndTypeOK => TypeOK
    BY DEF IndTypeOK
<1> QED BY <1>1, <1>2, PTL

-----------------------------------------------------------------------------
(* The model sees the transcript *)

\* Emitting a prompt moves its entry from the prompts into the transcript.
LEMMA EmitKeepsConcat ==
    ASSUME NEW ms \in Seq(Entry), NEW ps \in Seq(Nat), ps # <<>>
    PROVE  Append(ms, UserEntry(Head(ps))) \o UserEntries(Tail(ps)) = ms \o UserEntries(ps)
<1>1. /\ Head(ps) \in Nat /\ Head(ps) = ps[1] /\ Tail(ps) \in Seq(Nat)
      /\ Len(ps) \in Nat \ {0} /\ Len(Tail(ps)) = Len(ps) - 1
      /\ \A i \in 1..Len(Tail(ps)) : Tail(ps)[i] = ps[i + 1]
    BY HeadTailProperties, EmptySeq
<1>2. UserEntries(ps) = <<UserEntry(Head(ps))>> \o UserEntries(Tail(ps))
    <2>1. /\ UserEntries(ps) \in Seq(Entry) /\ Len(UserEntries(ps)) = Len(ps)
          /\ UserEntries(Tail(ps)) \in Seq(Entry) /\ Len(UserEntries(Tail(ps))) = Len(ps) - 1
          /\ UserEntry(Head(ps)) \in Entry
        BY <1>1, EntriesTypes, EntryTypes
    <2>2. \A i \in 1..Len(ps) : UserEntries(ps)[i] = (<<UserEntry(Head(ps))>> \o UserEntries(Tail(ps)))[i]
        BY <1>1, <2>1 DEF UserEntries
    <2>3. <<UserEntry(Head(ps))>> \in Seq(Entry) /\ Len(<<UserEntry(Head(ps))>>) = 1
        BY <2>1
    <2>4. /\ <<UserEntry(Head(ps))>> \o UserEntries(Tail(ps)) \in Seq(Entry)
          /\ Len(<<UserEntry(Head(ps))>> \o UserEntries(Tail(ps))) = Len(ps)
        <3> DEFINE h == <<UserEntry(Head(ps))>>
                   t == UserEntries(Tail(ps))
        <3>1. h \in Seq(Entry) /\ t \in Seq(Entry) /\ Len(h) = 1 /\ Len(t) = Len(ps) - 1
            BY <2>1, <2>3
        <3> HIDE DEF h, t
        <3>2. h \o t \in Seq(Entry) /\ Len(h \o t) = Len(h) + Len(t)
            BY <3>1, ConcatProperties
        <3>3. Len(h \o t) = Len(ps)
            BY <1>1, <3>1, <3>2
        <3> QED BY <3>2, <3>3 DEF h, t
    <2> QED BY <2>1, <2>2, <2>4, SeqEqual
<1>3. /\ UserEntry(Head(ps)) \in Entry /\ UserEntries(Tail(ps)) \in Seq(Entry)
    BY <1>1, EntriesTypes, EntryTypes
<1>4. <<UserEntry(Head(ps))>> \in Seq(Entry) /\ Append(ms, UserEntry(Head(ps))) = ms \o <<UserEntry(Head(ps))>>
    BY <1>3, AppendIsConcat
<1> QED BY <1>2, <1>3, <1>4, ConcatAssociative

\* Emitting the next result of a batch completes the emitted results by it.
LEMMA EmitResultKeepsConcat ==
    ASSUME NEW ctx \in Seq(Entry), NEW cs \in Seq(CallId), NEW n \in Nat, n < Len(cs)
    PROVE  Append(ctx \o ResultEntries(SubSeq(cs, 1, n)), ResultEntry(cs[n + 1]))
             = ctx \o ResultEntries(SubSeq(cs, 1, n + 1))
<1> DEFINE early == SubSeq(cs, 1, n)
           late  == SubSeq(cs, 1, n + 1)
<1>1. /\ early \in Seq(CallId) /\ Len(early) = n /\ \A i \in 1..n : early[i] = cs[i]
      /\ late \in Seq(CallId) /\ Len(late) = n + 1 /\ \A i \in 1..(n + 1) : late[i] = cs[i]
    OBVIOUS
<1>2. /\ ResultEntries(early) \in Seq(Entry) /\ Len(ResultEntries(early)) = n
      /\ ResultEntries(late) \in Seq(Entry) /\ Len(ResultEntries(late)) = n + 1
    BY <1>1, EntriesTypes
<1>e. ResultEntry(cs[n + 1]) \in Entry
    BY ElementOfSeq, EntryTypes
<1>3. ResultEntries(late) = Append(ResultEntries(early), ResultEntry(cs[n + 1]))
    <2>1. \A i \in 1..(n + 1) : ResultEntries(late)[i] = Append(ResultEntries(early), ResultEntry(cs[n + 1]))[i]
        BY <1>1, <1>2, <1>e DEF ResultEntries
    <2>2. /\ Append(ResultEntries(early), ResultEntry(cs[n + 1])) \in Seq(Entry)
          /\ Len(Append(ResultEntries(early), ResultEntry(cs[n + 1]))) = n + 1
        BY <1>2, <1>e, AppendProperties
    <2> QED BY <1>2, <2>1, <2>2, SeqEqual
<1> HIDE DEF early, late
<1>4. Append(ctx \o ResultEntries(early), ResultEntry(cs[n + 1]))
        = ctx \o Append(ResultEntries(early), ResultEntry(cs[n + 1]))
    <2> DEFINE e == ResultEntry(cs[n + 1])
               r == ResultEntries(early)
    <2>1. e \in Entry /\ r \in Seq(Entry) /\ ctx \o r \in Seq(Entry)
        BY <1>2, <1>e, ConcatProperties
    <2> HIDE DEF e, r
    <2>2. Append(ctx \o r, e) = (ctx \o r) \o <<e>> /\ Append(r, e) = r \o <<e>> /\ <<e>> \in Seq(Entry)
        BY <2>1, AppendIsConcat
    <2>3. Append(ctx \o r, e) = ctx \o Append(r, e)
        BY <2>1, <2>2, ConcatAssociative
    <2> QED BY <2>3 DEF e, r
<1> QED BY <1>3, <1>4 DEF early, late

\* What relates the loop's context to the transcript: while prompts are emitted
\* the context is ahead of it, while a batch's results are emitted it is behind.
InStep == {"firstPoll", "inject", "respond", "streaming", "turnEnd", "poll", "followUps", "prepare", "secondPoll",
           "agentEnd"}
ContextFollows ==
    /\ phase = "prompts" => context = Transcript \o UserEntries(pending)
    /\ phase \in InStep => context = Transcript
    /\ phase = "tools" => Transcript = context \o ResultEntries(SubSeq(calls, 1, emitted))

\* Nothing to append appends nothing.
LEMMA NoEntries ==
    ASSUME NEW ms \in Seq(Entry)
    PROVE  ms \o UserEntries(<<>>) = ms /\ ms \o ResultEntries(<<>>) = ms
<1>1. UserEntries(<<>>) = <<>> /\ ResultEntries(<<>>) = <<>>
    BY EntriesTypes, EmptySeq DEF UserEntries, ResultEntries
<1> QED BY <1>1, ConcatEmptySeq

\* The transcript grows by what is emitted, whatever it was compacted to.
LEMMA TranscriptGrows ==
    ASSUME TranscriptOK, NEW e \in Entry, Emit(e), kept' = kept
    PROVE  Transcript' = Append(Transcript, e)
<1>1. messages' = Append(messages, e) /\ messages \in Seq(Entry) /\ kept \in 0..Len(messages)
    BY DEF Emit, TranscriptOK
<1>2. CASE kept = 0
    BY <1>1, <1>2 DEF Transcript, Rebuilt
<1>3. CASE kept # 0
    <2>1. kept \in 1..Len(messages)
        BY <1>1, <1>3
    <2> QED BY <1>1, <1>3, <2>1, KeptAppend DEF Transcript, Rebuilt
<1> QED BY <1>2, <1>3

\* Step by step, the loop's context is the transcript, up to the prompts not
\* emitted yet and the results not taken over yet.
LEMMA ContextInductive ==
    ASSUME IndTypeOK, ContextFollows, [Next]_vars
    PROVE  ContextFollows'
<1> USE DEF ContextFollows, InStep
<1>t. /\ TranscriptOK /\ Transcript \in Seq(Entry) /\ context \in Seq(Entry) /\ pending \in Seq(Nat)
      /\ calls \in Seq(CallId) /\ prepared \in 0..Len(calls) /\ emitted \in 0..prepared
    BY MessagesAreNumbers, RebuiltType DEF IndTypeOK, TypeOK, QueuesOK, TranscriptOK, BatchOK
<1>s. UNCHANGED <<messages, kept>> => Transcript' = Transcript
    BY DEF Transcript, Rebuilt
<1>e. \A e \in Entry : Emit(e) /\ kept' = kept => Transcript' = Append(Transcript, e)
    BY <1>t, TranscriptGrows
<1>u. pending # <<>> => UserEntry(Head(pending)) \in Entry
    BY <1>t, HeadTailProperties, EntryTypes
<1>a. \A stop \in StopReason : AssistantEntry(stop, <<>>) \in Entry
    BY EntryTypes, EmptySeq
<1>1. CASE Prompt \/ ContinueWithSteering \/ ContinueWithFollowUps \/ ContinueTranscript
    BY <1>1, <1>s DEF Prompt, ContinueWithSteering, ContinueWithFollowUps, ContinueTranscript, StartRun
<1>2. CASE Steer \/ FollowUp \/ ClearAllQueues \/ Abort
    BY <1>2, <1>s DEF Steer, FollowUp, ClearAllQueues, Abort, loopVars, batchVars, histVars
<1>3. CASE EmitPrompt
    <2>1. phase = "prompts" /\ phase' = phase /\ context' = context
        BY <1>3 DEF EmitPrompt
    <2>2. Transcript' = Append(Transcript, UserEntry(Head(pending))) /\ pending # <<>> /\ pending' = Tail(pending)
        BY <1>3, <1>e, <1>u DEF EmitPrompt, LoopOnly
    <2>3. Transcript' \o UserEntries(pending') = Transcript \o UserEntries(pending)
        BY <1>t, <2>2, EmitKeepsConcat
    <2> QED BY <2>1, <2>3
<1>4. CASE PromptsEmitted
    BY <1>4, <1>s, <1>t, NoEntries DEF PromptsEmitted, LoopOnly, loopVars
<1>5. CASE FirstPoll \/ PollAfterTurn \/ SecondPoll \/ PollFollowUps
    BY <1>5, <1>s DEF FirstPoll, PollAfterTurn, SecondPoll, PollFollowUps
<1>p. CASE PrepareNextTurn
    <2>1. phase = "prepare" /\ phase' = "secondPoll" /\ messages' = messages
        BY <1>p DEF PrepareNextTurn
    <2>2. \/ UNCHANGED <<kept, context>>
          \/ context' = IF kept' = 0 THEN messages ELSE <<Summary>> \o SubSeq(messages, kept', Len(messages))
        BY <1>p DEF PrepareNextTurn, CompactBeforeNextAssistantResponse, Rebuilt
    <2>3. context' = Transcript'
        BY <1>s, <2>1, <2>2 DEF Transcript, Rebuilt
    <2> QED BY <2>1, <2>3
<1>6. CASE InjectPending
    BY <1>6, <1>e, <1>u DEF InjectPending, LoopOnly
<1>7. CASE PendingInjected \/ TurnEnd
    BY <1>7, <1>s DEF PendingInjected, TurnEnd, LoopOnly, loopVars
<1>8. CASE CallModel \/ ResponseFails \/ ResponseWithoutCalls
    BY <1>8, <1>a, <1>e, <1>s DEF CallModel, ResponseFails, ResponseWithoutCalls, AddResponse, LoopOnly, StopReason
<1>9. CASE ResponseWithCalls
    <2>0. PICK n \in 1..MaxCalls :
              LET cs == [i \in 1..n |-> <<responses + 1, i>>]
              IN  AddResponse("toolUse", cs) /\ calls' = cs
        BY <1>9 DEF ResponseWithCalls
    <2>c. calls' \in Seq(CallId)
        BY NextTypes DEF IndTypeOK, TypeOK, BatchOK
    <2>d. /\ AssistantEntry("toolUse", calls') \in Entry /\ Emit(AssistantEntry("toolUse", calls'))
          /\ context' = Append(context, AssistantEntry("toolUse", calls'))
        BY <2>0, <2>c, EntryTypes DEF AddResponse, StopReason
    <2>1. phase' = "tools" /\ emitted' = 0 /\ context' = Transcript'
        BY <1>9, <1>e, <2>d DEF ResponseWithCalls, IndTypeOK, NoBatchOutsideTools
    <2>2. context' \in Seq(Entry)
        BY NextTypes DEF IndTypeOK, TypeOK, TranscriptOK
    <2>3. SubSeq(calls', 1, 0) = <<>>
        BY SubSeqEmpty
    <2> QED BY <2>1, <2>2, <2>3, NoEntries
<1>10. CASE StartCall \/ AdmitCall \/ RefuseCall \/ StartBatch \/ ToolEnds
    BY <1>10, <1>s DEF StartCall, AdmitCall, RefuseCall, StartBatch, ToolEnds, ToolsOnly, loopVars
<1>11. CASE EmitResult
    <2>1. phase = "tools" /\ emitted < Len(calls) /\ UNCHANGED <<phase, context, calls>> /\ emitted' = emitted + 1
        BY <1>11 DEF EmitResult, ToolsOnly, loopVars
    <2>r. emitted + 1 \in 1..Len(calls)
        BY <1>t, <2>1
    <2>2. Transcript' = Append(Transcript, ResultEntry(calls[emitted + 1]))
        BY <1>11, <1>e, <1>t, <2>r, ElementOfSeq, EntryTypes DEF EmitResult, ToolsOnly
    <2>3. Append(context \o ResultEntries(SubSeq(calls, 1, emitted)), ResultEntry(calls[emitted + 1]))
            = context \o ResultEntries(SubSeq(calls, 1, emitted + 1))
        <3>1. emitted \in Nat
            BY <1>t
        <3> QED BY <1>t, <2>1, <3>1, EmitResultKeepsConcat
    <2> QED BY <2>1, <2>2, <2>3
<1>12. CASE BreakOnAbort
    <2>1. phase = "tools" /\ UNCHANGED <<phase, context, emitted>> /\ calls' = SubSeq(calls, 1, prepared)
          /\ Transcript' = Transcript
        BY <1>12, <1>s DEF BreakOnAbort, AtNextCall, loopVars
    <2>2. SubSeq(calls', 1, emitted) = SubSeq(calls, 1, emitted)
        BY <1>t, <2>1
    <2> QED BY <2>1, <2>2
<1>13. CASE BatchDone
    <2>1. phase' = "turnEnd" /\ Transcript' = Transcript /\ context' = context \o ResultEntries(calls)
        BY <1>13, <1>s DEF BatchDone
    <2>2. phase = "tools" /\ SubSeq(calls, 1, emitted) = calls
        BY <1>13, <1>t, SubSeqFull DEF BatchDone
    <2> QED BY <2>1, <2>2
<1>14. CASE OrphanEnds
    BY <1>14, <1>s DEF OrphanEnds, loopVars, batchVars
<1>15. CASE AgentEnd \/ RunFailure \/ Throws \/ ToolListenerThrows
    BY <1>15 DEF AgentEnd, RunFailure, FinishRun, Throws, ToolListenerThrows, TearDown
<1>16. CASE UNCHANGED vars
    BY <1>16, <1>s DEF vars, agentVars, loopVars, batchVars
<1> QED BY <1>1, <1>2, <1>3, <1>4, <1>5, <1>p, <1>6, <1>7, <1>8, <1>9, <1>10, <1>11, <1>12, <1>13, <1>14, <1>15,
        <1>16 DEF Next, Callers, RunStep

\* The context sent to the model is the transcript (agent-loop.ts keeps the one,
\* agent.ts the other), whatever is queued, aborted, thrown or compacted between
\* two turns.
THEOREM ModelSeesTranscriptAlways == Spec => []ModelSeesTranscript
<1>1. Init => IndTypeOK /\ ContextFollows
    BY InitTypes DEF Init, ContextFollows, InStep
<1>2. (IndTypeOK /\ ContextFollows) /\ [Next]_vars => (IndTypeOK /\ ContextFollows)'
    BY NextTypes, ContextInductive
<1>3. IndTypeOK /\ ContextFollows => ModelSeesTranscript
    BY DEF ContextFollows, InStep, ModelSeesTranscript
<1> QED BY <1>1, <1>2, <1>3, PTL DEF Spec

-----------------------------------------------------------------------------
(* Tool results *)

\* The assistant message whose calls are being executed.
BatchStart == Len(messages) - emitted

\* Message i asked for tool calls and all of their results follow it.
Answered(i) ==
    LET n == Len(messages[i].calls)
    IN  i + n <= Len(messages) /\ \A k \in 1..n : messages[i + k] = ResultEntry(messages[i].calls[k])

\* Tool result j follows its message and the results of that message's earlier calls.
Placed(j) ==
    \E i \in 1..(j - 1) :
        /\ messages[i].role = "assistant"
        /\ j - i <= Len(messages[i].calls)
        /\ messages[j].call = messages[i].calls[j - i]
        /\ \A k \in (i + 1)..j : messages[k].role = "toolResult"

\* The batch is the calls of its message, cut only by an abort, and the emitted
\* results are all that follows the message.
BatchInTranscript ==
    phase = "tools" =>
        /\ BatchStart \in (runStart + 1)..Len(messages)
        /\ messages[BatchStart].role = "assistant"
        /\ Len(calls) <= Len(messages[BatchStart].calls)
        /\ \A k \in 1..Len(calls) : messages[BatchStart].calls[k] = calls[k]
        /\ ~aborted => Len(calls) = Len(messages[BatchStart].calls)
        /\ \A k \in 1..emitted : messages[BatchStart + k] = ResultEntry(calls[k])

\* Every call of the run is answered, or its batch is the current one.
RunAnswered ==
    (phase \notin {"idle", "failing"} /\ ~aborted) =>
        \A i \in (runStart + 1)..Len(messages) :
            messages[i].role = "assistant" => Answered(i) \/ (phase = "tools" /\ i = BatchStart)

ToolsInv == ResultsFollowCalls /\ BatchInTranscript /\ RunAnswered

\* What a step does to the transcript and the batch.
SameStep ==
    /\ UNCHANGED <<messages, phase, calls, emitted, runStart>>
    /\ aborted => aborted'
StartStep ==
    /\ phase' = "prompts" /\ runStart' = Len(messages) /\ messages' = messages
LoopStep ==
    /\ phase \notin {"idle", "failing", "tools"} /\ phase' # "tools"
    /\ UNCHANGED <<runStart, aborted>>
    /\ \/ messages' = messages
       \/ \E m \in Nat : Emit(UserEntry(m))
       \/ \E stop \in StopReason : Emit(AssistantEntry(stop, <<>>))
EndStep ==
    /\ phase' \in {"idle", "failing"}
    /\ messages' = messages \/ \E stop \in StopReason : Emit(AssistantEntry(stop, <<>>))

\* Every step is of one of these kinds, begins, cuts or ends a batch, or emits
\* a result.
LEMMA BatchKinds ==
    ASSUME IndTypeOK, [Next]_vars
    PROVE  \/ SameStep \/ StartStep \/ LoopStep \/ EndStep
           \/ ResponseWithCalls \/ BreakOnAbort \/ EmitResult \/ BatchDone
<1>t. phase \in Phase /\ aborted \in BOOLEAN /\ (pending # <<>> => Head(pending) \in Nat)
    <2>1. pending \in Seq(Nat)
        BY MessagesAreNumbers DEF IndTypeOK, TypeOK, QueuesOK
    <2> QED BY <2>1, HeadTailProperties DEF IndTypeOK, TypeOK, ControlOK
<1>1. CASE Prompt \/ ContinueWithSteering \/ ContinueWithFollowUps \/ ContinueTranscript
    BY <1>1 DEF Prompt, ContinueWithSteering, ContinueWithFollowUps, ContinueTranscript, StartRun, StartStep
<1>2. CASE Steer \/ FollowUp \/ ClearAllQueues \/ Abort \/ OrphanEnds
    BY <1>2 DEF Steer, FollowUp, ClearAllQueues, Abort, OrphanEnds, SameStep, loopVars, batchVars, histVars
<1>3. CASE StartCall \/ AdmitCall \/ RefuseCall \/ StartBatch \/ ToolEnds
    BY <1>3 DEF StartCall, AdmitCall, RefuseCall, StartBatch, ToolEnds, ToolsOnly, SameStep, loopVars
<1>4. CASE EmitPrompt \/ InjectPending
    BY <1>4, <1>t DEF EmitPrompt, InjectPending, LoopOnly, LoopStep
<1>5. CASE PromptsEmitted \/ PendingInjected \/ TurnEnd
    BY <1>5 DEF PromptsEmitted, PendingInjected, TurnEnd, LoopOnly, LoopStep
<1>6. CASE FirstPoll \/ PollAfterTurn \/ PrepareNextTurn \/ SecondPoll \/ PollFollowUps
    BY <1>6 DEF FirstPoll, PollAfterTurn, PrepareNextTurn, SecondPoll, PollFollowUps, LoopStep, histVars
<1>7. CASE CallModel \/ ResponseFails \/ ResponseWithoutCalls
    BY <1>7 DEF CallModel, ResponseFails, ResponseWithoutCalls, AddResponse, LoopOnly, LoopStep, StopReason
<1>8. CASE AgentEnd \/ Throws \/ ToolListenerThrows
    BY <1>8 DEF AgentEnd, Throws, ToolListenerThrows, TearDown, FinishRun, EndStep
<1>9. CASE RunFailure
    BY <1>9 DEF RunFailure, FinishRun, EndStep, IndTypeOK, FailureOutcome, StopReason
<1>10. CASE UNCHANGED vars
    BY <1>10 DEF vars, agentVars, batchVars, histVars, SameStep
<1> QED BY <1>1, <1>2, <1>3, <1>4, <1>5, <1>6, <1>7, <1>8, <1>9, <1>10 DEF Next, Callers, RunStep

\* An appended entry leaves the answered messages answered and the results where
\* they are.
LEMMA AppendKeepsResults ==
    ASSUME messages \in Seq(Entry), NEW e \in Entry, Emit(e)
    PROVE  /\ Len(messages') = Len(messages) + 1 /\ Len(messages) \in Nat
           /\ \A i \in 1..Len(messages) : messages'[i] = messages[i]
           /\ messages'[Len(messages) + 1] = e
           /\ \A i \in 1..Len(messages) :
                  messages[i].role = "assistant" /\ Answered(i) => Answered(i)'
           /\ \A j \in 1..Len(messages) : Placed(j) => Placed(j)'
           /\ ResultsFollowCalls /\ e.role # "toolResult" => ResultsFollowCalls'
<1>1. /\ Len(messages') = Len(messages) + 1 /\ Len(messages) \in Nat
      /\ \A i \in 1..Len(messages) : messages'[i] = messages[i]
      /\ messages'[Len(messages) + 1] = e
    BY AppendProperties DEF Emit
<1>2. ASSUME NEW i \in 1..Len(messages), messages[i].role = "assistant", Answered(i)
      PROVE  Answered(i)'
    <2>1. messages[i] \in Entry
        BY ElementOfSeq
    <2>2. messages[i].calls \in Seq(CallId)
        BY <1>2, <2>1 DEF Entry, Summary
    <2>3. Len(messages[i].calls) \in Nat
        BY <2>2
    <2> DEFINE n == Len(messages[i].calls)
    <2>4. i + n <= Len(messages) /\ \A k \in 1..n : messages[i + k] = ResultEntry(messages[i].calls[k])
        BY <1>2 DEF Answered
    <2>5. ASSUME NEW k \in 1..n PROVE messages'[i + k] = messages[i + k]
        <3> HIDE DEF n
        <3>1. n \in Nat /\ i + n <= Len(messages)
            BY <2>3, <2>4 DEF n
        <3>2. i + k \in 1..Len(messages)
            BY <1>1, <3>1
        <3> QED BY <1>1, <3>2
    <2>6. messages'[i] = messages[i]
        BY <1>1
    <2> QED BY <1>1, <2>3, <2>4, <2>5, <2>6 DEF Answered
<1>3. ASSUME NEW j \in 1..Len(messages), Placed(j)
      PROVE  Placed(j)'
    <2>1. PICK i \in 1..(j - 1) :
            /\ messages[i].role = "assistant"
            /\ j - i <= Len(messages[i].calls)
            /\ messages[j].call = messages[i].calls[j - i]
            /\ \A k \in (i + 1)..j : messages[k].role = "toolResult"
        BY <1>3 DEF Placed
    <2>2. \A k \in 1..j : messages'[k] = messages[k]
        BY <1>1
    <2>3. messages'[i] = messages[i] /\ messages'[j] = messages[j]
        BY <1>1
    <2>4. \A k \in (i + 1)..j : messages'[k].role = "toolResult"
        BY <2>1, <2>2
    <2> QED BY <2>1, <2>3, <2>4 DEF Placed
<1>4. ASSUME ResultsFollowCalls, e.role # "toolResult"
      PROVE  ResultsFollowCalls'
    <2>1. ASSUME NEW j \in 1..Len(messages'), messages'[j].role = "toolResult"
          PROVE  Placed(j)'
        <3>1. j \in 1..Len(messages) /\ messages[j].role = "toolResult"
            BY <1>1, <1>4, <2>1
        <3> QED BY <1>3, <1>4, <3>1 DEF ResultsFollowCalls, Placed
    <2> QED BY <2>1 DEF ResultsFollowCalls, Placed
<1> QED BY <1>1, <1>2, <1>3, <1>4

\* The invariant over the tool results is inductive: results are emitted in
\* source order right behind their message, and all of them unless an abort cut
\* the batch.
LEMMA ToolsInductive ==
    ASSUME IndTypeOK, ToolsInv, [Next]_vars
    PROVE  ToolsInv'
<1> USE DEF ToolsInv
<1>t. /\ messages \in Seq(Entry) /\ Len(messages) \in Nat /\ runStart \in 0..Len(messages)
      /\ calls \in Seq(CallId) /\ Len(calls) \in Nat
      /\ prepared \in 0..Len(calls) /\ emitted \in 0..prepared /\ aborted \in BOOLEAN
    BY DEF IndTypeOK, TypeOK, TranscriptOK, BatchOK, ControlOK
<1>u. messages' = messages =>
          /\ ResultsFollowCalls'
          /\ \A i : messages'[i] = messages[i] /\ (Answered(i) => Answered(i)')
    <2> SUFFICES ASSUME messages' = messages
                 PROVE  ResultsFollowCalls' /\ \A i : Answered(i) => Answered(i)'
        OBVIOUS
    <2>1. ResultsFollowCalls'
        <3>1. \A j : Placed(j) => Placed(j)'
            BY DEF Placed
        <3>2. \A j \in 1..Len(messages) : messages[j].role = "toolResult" => Placed(j)
            BY DEF ResultsFollowCalls, Placed
        <3>3. \A j \in 1..Len(messages') : messages'[j].role = "toolResult" => Placed(j)'
            BY <3>1, <3>2
        <3> QED BY <3>3 DEF ResultsFollowCalls, Placed
    <2>2. ASSUME NEW i PROVE Answered(i) => Answered(i)'
        BY DEF Answered
    <2> QED BY <2>1, <2>2
<1>1. CASE SameStep
    <2>1. BatchInTranscript'
        BY <1>1 DEF SameStep, BatchInTranscript, BatchStart
    <2>2. RunAnswered'
        BY <1>1, <1>u DEF SameStep, RunAnswered, BatchStart
    <2> QED BY <1>1, <1>u, <2>1, <2>2 DEF SameStep
<1>2. CASE StartStep
    BY <1>2, <1>t, <1>u DEF StartStep, BatchInTranscript, RunAnswered
<1>3. CASE LoopStep
    <2>1. BatchInTranscript'
        BY <1>3 DEF LoopStep, BatchInTranscript
    <2>2. CASE messages' = messages
        BY <1>3, <1>u, <2>1, <2>2 DEF LoopStep, RunAnswered
    <2>3. ASSUME NEW e \in Entry, Emit(e), e.role # "toolResult", e.role = "assistant" => Len(e.calls) = 0
          PROVE  ResultsFollowCalls' /\ RunAnswered'
        <3>1. ASSUME NEW i, i = Len(messages) + 1, messages'[i].role = "assistant" PROVE Answered(i)'
            <4>1. messages'[i] = e /\ Len(messages') = i /\ i \in Nat
                BY <1>t, <2>3, <3>1, AppendKeepsResults
            <4>2. Len(messages'[i].calls) = 0
                BY <2>3, <3>1, <4>1
            <4> QED BY <4>1, <4>2 DEF Answered
        <3>2. ASSUME NEW i \in (runStart + 1)..Len(messages'), messages'[i].role = "assistant",
                     phase' \notin {"idle", "failing"}, ~aborted'
              PROVE  Answered(i)'
            <4>1. CASE i = Len(messages) + 1
                BY <3>1, <3>2, <4>1
            <4>2. CASE i # Len(messages) + 1
                <5>1. i \in (runStart + 1)..Len(messages) /\ messages[i].role = "assistant"
                    BY <1>t, <2>3, <3>2, <4>2, AppendKeepsResults
                <5>2. Answered(i)
                    BY <1>3, <3>2, <5>1 DEF LoopStep, RunAnswered
                <5>3. i \in 1..Len(messages)
                    BY <1>t, <5>1
                <5> QED BY <1>t, <2>3, <5>1, <5>2, <5>3, AppendKeepsResults
            <4> QED BY <4>1, <4>2
        <3> QED BY <1>3, <1>t, <2>3, <3>2, AppendKeepsResults DEF LoopStep, RunAnswered
    <2>4. \A m \in Nat : UserEntry(m) \in Entry /\ UserEntry(m).role = "user"
        BY EntryTypes DEF UserEntry
    <2>5. \A stop \in StopReason : /\ AssistantEntry(stop, <<>>) \in Entry
                                   /\ AssistantEntry(stop, <<>>).role = "assistant"
                                   /\ Len(AssistantEntry(stop, <<>>).calls) = 0
        BY EntryTypes, EmptySeq DEF AssistantEntry
    <2> QED BY <1>3, <2>1, <2>2, <2>3, <2>4, <2>5 DEF LoopStep
<1>4. CASE EndStep
    <2>1. BatchInTranscript' /\ RunAnswered'
        BY <1>4 DEF EndStep, BatchInTranscript, RunAnswered
    <2>2. \A stop \in StopReason : /\ AssistantEntry(stop, <<>>) \in Entry
                                   /\ AssistantEntry(stop, <<>>).role # "toolResult"
        BY EntryTypes, EmptySeq DEF AssistantEntry
    <2> QED BY <1>4, <1>t, <1>u, <2>1, <2>2, AppendKeepsResults DEF EndStep
<1>5. CASE ResponseWithCalls
    <2>1. PICK n \in 1..MaxCalls :
              LET cs == [i \in 1..n |-> <<responses + 1, i>>]
              IN  AddResponse("toolUse", cs) /\ calls' = cs
        BY <1>5 DEF ResponseWithCalls
    <2> DEFINE e == AssistantEntry("toolUse", calls')
    <2>2. calls' \in Seq(CallId)
        BY NextTypes DEF IndTypeOK, TypeOK, BatchOK
    <2>3. e \in Entry /\ e.role = "assistant" /\ e.calls = calls' /\ Emit(e)
        BY <2>1, <2>2, EntryTypes DEF AddResponse, AssistantEntry, StopReason
    <2> HIDE DEF e
    <2>4. phase = "streaming" /\ phase' = "tools" /\ emitted' = 0 /\ UNCHANGED <<runStart, aborted>>
        BY <1>5 DEF ResponseWithCalls, IndTypeOK, NoBatchOutsideTools
    <2>5. BatchStart' = Len(messages) + 1 /\ messages'[Len(messages) + 1] = e
        BY <1>t, <2>3, <2>4, AppendKeepsResults DEF BatchStart
    <2>6. BatchInTranscript'
        BY <1>t, <2>2, <2>3, <2>4, <2>5, AppendKeepsResults DEF BatchInTranscript
    <2>7. ASSUME NEW i \in (runStart + 1)..Len(messages), messages'[i].role = "assistant", ~aborted'
          PROVE  Answered(i)'
        <3>1. i \in 1..Len(messages) /\ messages[i].role = "assistant"
            BY <1>t, <2>3, <2>7, AppendKeepsResults
        <3>2. Answered(i)
            BY <2>4, <2>7, <3>1 DEF RunAnswered
        <3> QED BY <1>t, <2>3, <3>1, <3>2, AppendKeepsResults
    <2>8. \A i \in (runStart + 1)..Len(messages') : i = BatchStart' \/ i \in (runStart + 1)..Len(messages)
        BY <1>t, <2>3, <2>5, AppendKeepsResults
    <2>9. RunAnswered'
        BY <2>4, <2>7, <2>8 DEF RunAnswered
    <2> QED BY <1>t, <2>3, <2>6, <2>9, AppendKeepsResults
<1>6. CASE BreakOnAbort
    <2>1. phase = "tools" /\ aborted' /\ UNCHANGED <<phase, messages, emitted, runStart>>
          /\ calls' = SubSeq(calls, 1, prepared)
        BY <1>6 DEF BreakOnAbort, AtNextCall, loopVars, histVars
    <2>2. Len(calls') = prepared /\ \A k \in 1..prepared : calls'[k] = calls[k]
        BY <1>t, <2>1
    <2>3. BatchInTranscript'
        BY <1>t, <2>1, <2>2 DEF BatchInTranscript, BatchStart
    <2> QED BY <1>u, <2>1, <2>3 DEF RunAnswered
<1>7. CASE EmitResult
    <2> DEFINE e == ResultEntry(calls[emitted + 1])
    <2>1. phase = "tools" /\ emitted < Len(calls) /\ emitted' = emitted + 1
          /\ UNCHANGED <<phase, calls, runStart, aborted>> /\ Emit(e)
        BY <1>7 DEF EmitResult, ToolsOnly, loopVars
    <2>2. e \in Entry /\ e.role = "toolResult" /\ e.call = calls[emitted + 1]
        BY <1>t, <2>1, EntryTypes, ElementOfSeq DEF ResultEntry
    <2>a. /\ Len(messages') = Len(messages) + 1 /\ messages'[Len(messages) + 1] = e
          /\ \A i \in 1..Len(messages) : messages'[i] = messages[i]
        BY <2>1, <2>2, <1>t, AppendKeepsResults
    <2> HIDE DEF e
    <2>3. BatchStart' = BatchStart /\ BatchStart \in 1..Len(messages) /\ BatchStart + emitted = Len(messages)
        <3>1. Len(messages') - emitted' = Len(messages) - emitted
            BY <1>t, <2>1, <2>a
        <3>2. BatchStart' = BatchStart
            BY <3>1 DEF BatchStart
        <3>3. BatchStart \in (runStart + 1)..Len(messages)
            BY <2>1 DEF BatchInTranscript
        <3>4. BatchStart \in 1..Len(messages)
            BY <1>t, <3>3
        <3>5. BatchStart + emitted = Len(messages)
            BY <1>t DEF BatchStart
        <3> QED BY <3>2, <3>4, <3>5
    <2>b. /\ messages'[BatchStart] = messages[BatchStart] /\ messages[BatchStart].role = "assistant"
          /\ Len(calls) <= Len(messages[BatchStart].calls)
          /\ \A k \in 1..Len(calls) : messages[BatchStart].calls[k] = calls[k]
        BY <2>1, <2>3, <2>a DEF BatchInTranscript
    <2>c. \A k \in 1..(emitted + 1) : messages'[BatchStart + k] = ResultEntry(calls[k])
        <3>1. ASSUME NEW k \in 1..emitted PROVE messages'[BatchStart + k] = ResultEntry(calls[k])
            <4>1. BatchStart + k \in 1..Len(messages)
                BY <1>t, <2>3
            <4> QED BY <2>1, <2>a, <4>1 DEF BatchInTranscript
        <3>2. messages'[BatchStart + (emitted + 1)] = ResultEntry(calls[emitted + 1])
            <4>1. BatchStart + (emitted + 1) = Len(messages) + 1
                BY <1>t, <2>3
            <4> QED BY <2>a, <4>1 DEF e
        <3> QED BY <1>t, <3>1, <3>2
    <2>4. BatchInTranscript'
        <3>1. BatchStart \in (runStart + 1)..Len(messages')
            BY <1>t, <2>1, <2>a DEF BatchInTranscript
        <3>2. ~aborted => Len(calls) = Len(messages[BatchStart].calls)
            BY <2>1 DEF BatchInTranscript
        <3> QED BY <2>1, <2>3, <2>b, <2>c, <3>1, <3>2 DEF BatchInTranscript
    <2>5. RunAnswered'
        BY <1>t, <2>1, <2>2, <2>3, AppendKeepsResults DEF RunAnswered
    <2>6. ResultsFollowCalls'
        <3>1. ASSUME NEW j \in 1..Len(messages), messages'[j].role = "toolResult" PROVE Placed(j)'
            <4>1. messages[j].role = "toolResult"
                BY <2>a, <3>1
            <4>2. Placed(j)
                BY <4>1 DEF ResultsFollowCalls, Placed
            <4> QED BY <1>t, <2>1, <2>2, <4>2, AppendKeepsResults
        <3>2. ASSUME NEW j, j = Len(messages) + 1 PROVE Placed(j)'
            <4>1. BatchStart \in 1..(j - 1) /\ j - BatchStart = emitted + 1 /\ emitted + 1 \in 1..Len(calls)
                BY <1>t, <2>1, <2>3, <3>2
            <4>2. messages'[j] = e /\ messages'[j].call = messages'[BatchStart].calls[j - BatchStart]
                BY <2>2, <2>a, <2>b, <3>2, <4>1
            <4>3. ASSUME NEW k \in (BatchStart + 1)..j PROVE messages'[k].role = "toolResult"
                <5>1. k - BatchStart \in 1..(emitted + 1) /\ BatchStart + (k - BatchStart) = k
                    <6>1. BatchStart \in Nat /\ j \in Nat /\ emitted \in Nat /\ j - BatchStart = emitted + 1
                        BY <1>t, <2>3, <3>2, <4>1
                    <6> HIDE DEF BatchStart
                    <6> QED BY <6>1
                <5>2. messages'[k] = ResultEntry(calls[k - BatchStart])
                    BY <2>c, <5>1
                <5> QED BY <5>2 DEF ResultEntry
            <4>4. messages'[BatchStart].role = "assistant" /\ j - BatchStart <= Len(messages'[BatchStart].calls)
                BY <2>1, <2>b, <4>1, <1>t
            <4> QED BY <4>1, <4>2, <4>3, <4>4 DEF Placed
        <3>3. \A j \in 1..Len(messages') : messages'[j].role = "toolResult" => Placed(j)'
            BY <1>t, <2>a, <3>1, <3>2
        <3> QED BY <3>3 DEF ResultsFollowCalls, Placed
    <2> QED BY <2>4, <2>5, <2>6
<1>8. CASE BatchDone
    <2>1. phase = "tools" /\ phase' = "turnEnd" /\ emitted = Len(calls) /\ UNCHANGED <<messages, runStart, aborted>>
        BY <1>8 DEF BatchDone, histVars
    <2>2. ~aborted => Answered(BatchStart)
        BY <1>t, <2>1 DEF BatchInTranscript, BatchStart, Answered
    <2>3. RunAnswered'
        BY <1>u, <2>1, <2>2 DEF RunAnswered
    <2> QED BY <1>u, <2>1, <2>3 DEF BatchInTranscript
<1> QED BY <1>1, <1>2, <1>3, <1>4, <1>5, <1>6, <1>7, <1>8, BatchKinds

\* No batch is under way at first.
LEMMA InitTools == Init => ToolsInv
BY DEF Init, ToolsInv, ResultsFollowCalls, BatchInTranscript, RunAnswered

\* Whatever is aborted, thrown or executed in parallel, each tool result follows
\* its assistant message in the order of the calls (agent-loop.ts).
THEOREM ResultsAlwaysFollowCalls == Spec => []ResultsFollowCalls
<1>1. Init => IndTypeOK /\ ToolsInv
    BY InitTypes, InitTools
<1>2. (IndTypeOK /\ ToolsInv) /\ [Next]_vars => (IndTypeOK /\ ToolsInv)'
    BY NextTypes, ToolsInductive
<1>3. IndTypeOK /\ ToolsInv => ResultsFollowCalls
    BY DEF ToolsInv
<1> QED BY <1>1, <1>2, <1>3, PTL DEF Spec

\* A run that is not aborted never calls the model with an unanswered tool call.
THEOREM CallsAlwaysAnswered == Spec => []CallsAnswered
<1>1. Init => IndTypeOK /\ ToolsInv
    BY InitTypes, InitTools
<1>2. (IndTypeOK /\ ToolsInv) /\ [Next]_vars => (IndTypeOK /\ ToolsInv)'
    BY NextTypes, ToolsInductive
<1>3. IndTypeOK /\ ToolsInv => CallsAnswered
    <2> SUFFICES ASSUME ToolsInv,
                        phase \in {"turnEnd", "poll", "prepare", "secondPoll", "followUps", "inject",
                                   "respond", "streaming"},
                        ~aborted, NEW i \in (runStart + 1)..Len(messages), messages[i].role = "assistant"
                 PROVE  Answered(i)
        BY DEF CallsAnswered, Answered
    <2> QED BY DEF ToolsInv, RunAnswered
<1> QED BY <1>1, <1>2, <1>3, PTL DEF Spec

=============================================================================
