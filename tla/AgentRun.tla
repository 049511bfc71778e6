------------------------------ MODULE AgentRun ------------------------------
(***************************************************************************)
(* The Agent class (packages/agent/src/agent.ts) together with the loop it *)
(* drives (packages/agent/src/agent-loop.ts): the two message queues, the  *)
(* lifecycle of a run, the turns of the loop, the sequential and parallel  *)
(* execution of the tool calls of an assistant message, aborts, and        *)
(* listeners or callbacks that throw.                                      *)
(*                                                                         *)
(* One action is the code between two awaits whose interleaving with the   *)
(* callers of steer(), followUp(), abort() and clearAllQueues() can be     *)
(* told apart.  A user message is its position in the order in which the   *)
(* callers handed messages over; a tool call is <<response, index>>.       *)
(***************************************************************************)
EXTENDS Naturals, Sequences, FiniteSets, Functions

CONSTANTS
    SteeringMode, FollowUpMode, \* "all" or "one-at-a-time" (QueueMode)
    MaxMessages,     \* bound: user messages the callers hand over
    MaxToolTurns,    \* bound: assistant responses that carry tool calls
    MaxCalls,        \* bound: tool calls in one assistant response
    MaxKept,         \* bound: entries a compaction may keep first
    MaxFailures      \* bound: throws out of listeners, hooks and streams

QueueMode == {"all", "one-at-a-time"}

ASSUME ModeAssumption == SteeringMode \in QueueMode /\ FollowUpMode \in QueueMode
ASSUME BoundAssumption ==
    /\ MaxMessages \in Nat /\ MaxToolTurns \in Nat
    /\ MaxCalls \in Nat /\ MaxFailures \in Nat /\ MaxKept \in Nat

VARIABLES
    \* Agent
    steeringQueue, followUpQueue, \* PendingMessageQueue contents
    messages,        \* the messages reduced into _state.messages, none forgotten
    kept,            \* which of them the last compaction kept first, 0 before one
    pendingToolCalls,\* _state.pendingToolCalls
    aborted,         \* activeRun.abortController.signal.aborted
    phase,           \* where the active run is; "idle" when there is none
    \* runLoop
    context,         \* currentContext.messages
    pending,         \* prompts still to emit, then pendingMessages
    skipPoll,        \* skipInitialSteeringPoll of the loop configuration
    hasMore,         \* hasMoreToolCalls
    \* executeToolCalls
    calls,           \* entries of the batch, cut at an abort
    parallel,        \* executeToolCallsParallel or ...Sequential
    prepared,        \* number of calls that prepareToolCall answered
    waiting,         \* prepared calls whose closure Promise.all has not started
    running,         \* calls inside executePreparedToolCall
    finished,        \* finalized calls
    terminating,     \* finalized calls whose result says terminate
    emitted,         \* number of tool result messages emitted
    orphans,         \* calls still running when their run was torn down
    \* budgets and history
    origin,          \* origin[m]: the call that handed over message m
    discarded,       \* messages removed by clearAllQueues
    dropped,         \* messages a failing run held in pendingMessages
    responses,       \* assistant responses with tool calls so far
    failures,        \* throws so far
    runStart,        \* Len(messages) when the active or last run started
    outcome          \* how the last run ended, "none" while it runs

agentVars == <<steeringQueue, followUpQueue, messages, kept, pendingToolCalls, aborted, phase>>
queueVars == <<steeringQueue, followUpQueue>>
loopVars  == <<context, pending, skipPoll, hasMore>>
batchVars == <<calls, parallel, prepared, waiting, running, finished, terminating, emitted>>
histVars  == <<origin, discarded, dropped, responses, failures, runStart, outcome>>
vars == <<agentVars, loopVars, batchVars, orphans, histVars>>

-----------------------------------------------------------------------------
(* Data *)

Origin == {"prompt", "steer", "followUp"}
Msg    == 1..Len(origin)
CallId == Nat \X Nat

UserEntry(m)       == [role |-> "user", msg |-> m]
AssistantEntry(s, cs) == [role |-> "assistant", stop |-> s, calls |-> cs]
ResultEntry(c)     == [role |-> "toolResult", call |-> c]
Summary            == [role |-> "compactionSummary"]

StopReason == {"stop", "toolUse", "error", "aborted"}
Entry == [role : {"user"}, msg : Nat]
           \cup [role : {"assistant"}, stop : StopReason, calls : Seq(CallId)]
           \cup [role : {"toolResult"}, call : CallId] \cup {Summary}

UserEntries(ms)  == [i \in 1..Len(ms) |-> UserEntry(ms[i])]
ResultEntries(cs) == [i \in 1..Len(cs) |-> ResultEntry(cs[i])]
LastEntry(s) == s[Len(s)]

\* _state.messages: after a compaction, its summary and what it kept.
Rebuilt(k)  == IF k = 0 THEN messages ELSE <<Summary>> \o SubSeq(messages, k, Len(messages))
Transcript == Rebuilt(kept)

\* User messages that reached the transcript.
Delivered == {messages[i].msg : i \in {j \in 1..Len(messages) : messages[j].role = "user"}}

Phase == {"idle", "prompts", "firstPoll", "inject", "respond", "streaming", "tools",
          "turnEnd", "poll", "followUps", "prepare", "secondPoll", "agentEnd", "failing"}
Outcome == {"none", "drained", "stopped", "error", "aborted"}

Active == phase # "idle"

-----------------------------------------------------------------------------
(* PendingMessageQueue.drain *)

\* Mutant: drain() forgets the wrong message.
UndrainedNewest(queue, mode) ==
    IF mode = "all" \/ queue = <<>> THEN <<>> ELSE SubSeq(queue, 1, Len(queue) - 1)

\* What drain() returns, and what it leaves in the queue.
Drained(queue, mode) ==
    IF mode = "all" \/ queue = <<>> THEN queue ELSE <<Head(queue)>>
Undrained(queue, mode) ==
    IF mode = "all" \/ queue = <<>> THEN <<>> ELSE Tail(queue)

-----------------------------------------------------------------------------
(* Starting a run: prompt(), continue(), runWithLifecycle *)

StartRun(prompts, skip) ==
    /\ phase' = "prompts"
    /\ pending' = prompts
    /\ context' = Transcript \o UserEntries(prompts)
    /\ aborted' = FALSE
    /\ skipPoll' = skip
    /\ hasMore' = TRUE
    /\ runStart' = Len(messages)
    /\ outcome' = "none"
    /\ UNCHANGED <<messages, kept, pendingToolCalls, batchVars, orphans,
                   discarded, dropped, responses, failures>>

Prompt ==
    /\ phase = "idle"
    /\ Len(origin) < MaxMessages
    /\ origin' = Append(origin, "prompt")
    /\ StartRun(<<Len(origin) + 1>>, FALSE)
    /\ UNCHANGED queueVars

\* continue() from an assistant tail starts a run on a drained queue;
\* from any other tail it continues the transcript as it is.
ContinueWithSteering ==
    /\ phase = "idle"
    /\ messages # <<>> /\ LastEntry(messages).role = "assistant"
    /\ steeringQueue # <<>>
    /\ steeringQueue' = Undrained(steeringQueue, SteeringMode)
    /\ StartRun(Drained(steeringQueue, SteeringMode), TRUE)
    /\ UNCHANGED <<followUpQueue, origin>>

ContinueWithFollowUps ==
    /\ phase = "idle"
    /\ messages # <<>> /\ LastEntry(messages).role = "assistant"
    /\ steeringQueue = <<>> /\ followUpQueue # <<>>
    /\ followUpQueue' = Undrained(followUpQueue, FollowUpMode)
    /\ StartRun(Drained(followUpQueue, FollowUpMode), FALSE)
    /\ UNCHANGED <<steeringQueue, origin>>

ContinueTranscript ==
    /\ phase = "idle"
    /\ messages # <<>> /\ LastEntry(messages).role # "assistant"
    /\ StartRun(<<>>, FALSE)
    /\ UNCHANGED <<queueVars, origin>>

-----------------------------------------------------------------------------
(* The other callers *)

Steer ==
    /\ Len(origin) < MaxMessages
    /\ origin' = Append(origin, "steer")
    /\ steeringQueue' = Append(steeringQueue, Len(origin) + 1)
    /\ UNCHANGED <<followUpQueue, messages, kept, pendingToolCalls, aborted, phase, loopVars,
                   batchVars, orphans, discarded, dropped, responses, failures, runStart, outcome>>

FollowUp ==
    /\ Len(origin) < MaxMessages
    /\ origin' = Append(origin, "followUp")
    /\ followUpQueue' = Append(followUpQueue, Len(origin) + 1)
    /\ UNCHANGED <<steeringQueue, messages, kept, pendingToolCalls, aborted, phase, loopVars,
                   batchVars, orphans, discarded, dropped, responses, failures, runStart, outcome>>

ClearAllQueues ==
    /\ steeringQueue # <<>> \/ followUpQueue # <<>>
    /\ steeringQueue' = <<>>
    /\ followUpQueue' = <<>>
    /\ discarded' = discarded \cup Range(steeringQueue) \cup Range(followUpQueue)
    /\ UNCHANGED <<messages, kept, pendingToolCalls, aborted, phase, loopVars, batchVars, orphans,
                   origin, dropped, responses, failures, runStart, outcome>>

Abort ==
    /\ Active /\ ~aborted
    /\ aborted' = TRUE
    /\ UNCHANGED <<queueVars, messages, kept, pendingToolCalls, phase, loopVars, batchVars, orphans, histVars>>


-----------------------------------------------------------------------------
(* Shapes shared by the steps of the loop *)

LoopOnly == UNCHANGED <<queueVars, kept, aborted, pendingToolCalls, batchVars, orphans, origin,
                        discarded, dropped, responses, failures, runStart>>

NoBatch ==
    /\ calls' = <<>> /\ parallel' = FALSE /\ prepared' = 0 /\ emitted' = 0
    /\ waiting' = {} /\ running' = {} /\ finished' = {} /\ terminating' = {}

\* message_start, message_end of one message: the transcript grows by it.
Emit(entry) == messages' = Append(messages, entry)

\* finishRun: the run's state is cleared and activeRun becomes undefined.
FinishRun ==
    /\ phase' = "idle"
    /\ pendingToolCalls' = {}
    /\ aborted' = FALSE
    /\ context' = <<>> /\ pending' = <<>> /\ skipPoll' = FALSE /\ hasMore' = FALSE

-----------------------------------------------------------------------------
(* runAgentLoop, runLoop *)

EmitPrompt ==
    /\ phase = "prompts" /\ pending # <<>>
    /\ Emit(UserEntry(Head(pending)))
    /\ pending' = Tail(pending)
    /\ LoopOnly /\ UNCHANGED <<phase, context, skipPoll, hasMore, outcome>>

PromptsEmitted ==
    /\ phase = "prompts" /\ pending = <<>>
    /\ phase' = "firstPoll"
    /\ LoopOnly /\ UNCHANGED <<messages, loopVars, outcome>>

\* getSteeringMessages of createLoopConfig.
PollSteering ==
    /\ pending' = Drained(steeringQueue, SteeringMode)
    /\ steeringQueue' = Undrained(steeringQueue, SteeringMode)

\* Mutant: the poll that continue() wants skipped is made.
FirstPollNeverSkipped ==
    /\ phase = "firstPoll"
    /\ PollSteering
    /\ skipPoll' = FALSE
    /\ phase' = "inject"
    /\ UNCHANGED <<followUpQueue, messages, kept, pendingToolCalls, aborted, context, hasMore,
                   batchVars, orphans, histVars>>

FirstPoll ==
    /\ phase = "firstPoll"
    /\ IF skipPoll THEN UNCHANGED <<pending, steeringQueue>> ELSE PollSteering
    /\ skipPoll' = FALSE
    /\ phase' = "inject"
    /\ UNCHANGED <<followUpQueue, messages, kept, pendingToolCalls, aborted, context, hasMore,
                   batchVars, orphans, histVars>>

InjectPending ==
    /\ phase = "inject" /\ pending # <<>>
    /\ Emit(UserEntry(Head(pending)))
    /\ context' = Append(context, UserEntry(Head(pending)))
    /\ pending' = Tail(pending)
    /\ LoopOnly /\ UNCHANGED <<phase, skipPoll, hasMore, outcome>>

PendingInjected ==
    /\ phase = "inject" /\ pending = <<>>
    /\ phase' = "respond"
    /\ LoopOnly /\ UNCHANGED <<messages, loopVars, outcome>>

\* The assistant's final message is emitted and becomes part of the context.
AddResponse(stop, cs) ==
    /\ Emit(AssistantEntry(stop, cs))
    /\ context' = Append(context, AssistantEntry(stop, cs))

\* A provider that is called with an aborted signal answers "aborted".
CallModel ==
    /\ phase = "respond"
    /\ IF aborted
       THEN AddResponse("aborted", <<>>) /\ phase' = "agentEnd" /\ outcome' = "aborted"
       ELSE phase' = "streaming" /\ UNCHANGED <<messages, context, outcome>>
    /\ LoopOnly /\ UNCHANGED <<pending, skipPoll, hasMore>>

ResponseFails ==
    /\ phase = "streaming"
    /\ \E stop \in {"error"} \cup (IF aborted THEN {"aborted"} ELSE {}) :
          AddResponse(stop, <<>>) /\ outcome' = stop
    /\ phase' = "agentEnd"
    /\ LoopOnly /\ UNCHANGED <<pending, skipPoll, hasMore>>

ResponseWithoutCalls ==
    /\ phase = "streaming"
    /\ AddResponse("stop", <<>>)
    /\ hasMore' = FALSE
    /\ phase' = "turnEnd"
    /\ LoopOnly /\ UNCHANGED <<pending, skipPoll, outcome>>

ResponseWithCalls ==
    /\ phase = "streaming"
    /\ responses < MaxToolTurns
    /\ \E n \in 1..MaxCalls :
          LET cs == [i \in 1..n |-> <<responses + 1, i>>]
          IN  AddResponse("toolUse", cs) /\ calls' = cs
    /\ parallel' \in BOOLEAN
    /\ responses' = responses + 1
    /\ hasMore' = FALSE
    /\ phase' = "tools"
    /\ UNCHANGED <<queueVars, kept, pendingToolCalls, aborted, pending, skipPoll, prepared, waiting,
                   running, finished, terminating, emitted, orphans, origin, discarded, dropped,
                   failures, runStart, outcome>>

-----------------------------------------------------------------------------
(* executeToolCallsSequential, executeToolCallsParallel *)

ToolsOnly == UNCHANGED <<queueVars, kept, aborted, phase, loopVars, calls, parallel, orphans, origin,
                         discarded, dropped, responses, failures, runStart, outcome>>

CurrentCall == calls[prepared + 1]
\* tool_execution_start of the current call is out, prepareToolCall is under way.
Preparing == prepared < Len(calls) /\ CurrentCall \in pendingToolCalls
\* The for loop over the calls is at its head.
AtNextCall ==
    /\ phase = "tools" /\ prepared < Len(calls) /\ ~Preparing
    /\ parallel \/ emitted = prepared

StartCall ==
    /\ AtNextCall
    /\ prepared = 0 \/ ~aborted
    /\ pendingToolCalls' = pendingToolCalls \cup {CurrentCall}
    /\ UNCHANGED <<messages, prepared, waiting, running, finished, terminating, emitted>>
    /\ ToolsOnly

\* Mutant: only a sequential batch breaks, a parallel one waits for the rest.
BreakOnAbortIfSequential ==
    /\ AtNextCall
    /\ prepared > 0 /\ aborted /\ ~parallel
    /\ calls' = SubSeq(calls, 1, prepared)
    /\ UNCHANGED <<queueVars, messages, kept, pendingToolCalls, aborted, phase, loopVars, parallel, prepared,
                   waiting, running, finished, terminating, emitted, orphans, histVars>>

\* if (signal?.aborted) break: the calls behind this one get no result.
BreakOnAbort ==
    /\ AtNextCall
    /\ prepared > 0 /\ aborted
    /\ calls' = SubSeq(calls, 1, prepared)
    /\ UNCHANGED <<queueVars, messages, kept, pendingToolCalls, aborted, phase, loopVars, parallel, prepared,
                   waiting, running, finished, terminating, emitted, orphans, histVars>>

\* prepareToolCall answers "prepared".
AdmitCall ==
    /\ phase = "tools" /\ Preparing
    /\ ~aborted
    /\ prepared' = prepared + 1
    /\ IF parallel
       THEN waiting' = waiting \cup {CurrentCall} /\ UNCHANGED running
       ELSE running' = running \cup {CurrentCall} /\ UNCHANGED waiting
    /\ UNCHANGED <<messages, pendingToolCalls, finished, terminating, emitted>>
    /\ ToolsOnly

\* A finalized outcome: tool_execution_end, and whether the result says terminate.
Finalize(c, terminate) ==
    /\ finished' = finished \cup {c}
    /\ terminating' = IF terminate THEN terminating \cup {c} ELSE terminating
    /\ pendingToolCalls' = pendingToolCalls \ {c}

\* prepareToolCall answers "immediate": the tool is unknown, its arguments are
\* invalid, beforeToolCall blocks it (only then may it say terminate), or the
\* run was aborted.
RefuseCall ==
    /\ phase = "tools" /\ Preparing
    /\ prepared' = prepared + 1
    /\ \E terminate \in IF aborted THEN {FALSE} ELSE BOOLEAN : Finalize(CurrentCall, terminate)
    /\ UNCHANGED <<messages, waiting, running, emitted>>
    /\ ToolsOnly

\* Promise.all calls every entry of the batch.
StartBatch ==
    /\ phase = "tools" /\ parallel
    /\ prepared = Len(calls) /\ waiting # {}
    /\ running' = waiting
    /\ waiting' = {}
    /\ UNCHANGED <<messages, pendingToolCalls, prepared, finished, terminating, emitted>>
    /\ ToolsOnly

\* executePreparedToolCall and finalizeExecutedToolCall return; both turn an
\* error of the tool or of afterToolCall into a result.
ToolEnds ==
    /\ phase = "tools"
    /\ \E c \in running :
          /\ running' = running \ {c}
          /\ \E terminate \in BOOLEAN : Finalize(c, terminate)
    /\ UNCHANGED <<messages, prepared, waiting, emitted>>
    /\ ToolsOnly

\* Mutant: a parallel batch does not wait for the preparation of its calls.
ResultsDueEarly ==
    IF parallel
    THEN waiting = {} /\ running = {}
    ELSE emitted < prepared /\ calls[prepared] \in finished

\* A sequential batch emits a result as soon as its call is finalized, a
\* parallel batch emits the results in source order once all are.
ResultsDue ==
    IF parallel
    THEN prepared = Len(calls) /\ waiting = {} /\ running = {}
    ELSE emitted < prepared /\ calls[prepared] \in finished

\* Mutant: the results are emitted from the last call to the first.
EmitResultReversed ==
    /\ phase = "tools" /\ ResultsDue
    /\ emitted < Len(calls)
    /\ Emit(ResultEntry(calls[Len(calls) - emitted]))
    /\ emitted' = emitted + 1
    /\ UNCHANGED <<pendingToolCalls, prepared, waiting, running, finished, terminating>>
    /\ ToolsOnly

EmitResult ==
    /\ phase = "tools" /\ ResultsDue
    /\ emitted < Len(calls)
    /\ Emit(ResultEntry(calls[emitted + 1]))
    /\ emitted' = emitted + 1
    /\ UNCHANGED <<pendingToolCalls, prepared, waiting, running, finished, terminating>>
    /\ ToolsOnly

\* shouldTerminateToolBatch over the finalized calls of the batch.
BatchTerminates == calls # <<>> /\ Range(calls) \subseteq terminating

\* Mutant: the batch is over once every call that was started has its result.
BatchDoneEarly ==
    /\ phase = "tools"
    /\ emitted = prepared /\ prepared > 0
    /\ hasMore' = ~BatchTerminates
    /\ context' = context \o ResultEntries(SubSeq(calls, 1, emitted))
    /\ phase' = "turnEnd"
    /\ NoBatch
    /\ UNCHANGED <<queueVars, messages, kept, pendingToolCalls, aborted, pending, skipPoll, orphans, histVars>>

BatchDone ==
    /\ phase = "tools"
    /\ emitted = Len(calls)
    /\ hasMore' = ~BatchTerminates
    /\ context' = context \o ResultEntries(calls)
    /\ phase' = "turnEnd"
    /\ NoBatch
    /\ UNCHANGED <<queueVars, messages, kept, pendingToolCalls, aborted, pending, skipPoll, orphans, histVars>>

\* A call whose run was torn down while it executed: its tool_execution_end is
\* reduced into whatever state the agent has by then.
OrphanEnds ==
    /\ \E c \in orphans :
          /\ orphans' = orphans \ {c}
          /\ pendingToolCalls' = pendingToolCalls \ {c}
    /\ UNCHANGED <<queueVars, messages, kept, aborted, phase, loopVars, batchVars, histVars>>

-----------------------------------------------------------------------------
(* The end of a turn and of the run *)

\* turn_end, then shouldStopAfterTurn.
TurnEnd ==
    /\ phase = "turnEnd"
    /\ \/ phase' = "poll" /\ UNCHANGED outcome
       \/ phase' = "agentEnd" /\ outcome' = "stopped"
    /\ LoopOnly /\ UNCHANGED <<messages, loopVars>>

\* Mutant: steering is not polled when a turn is over.
PollAfterTurnSkipped ==
    /\ phase = "poll"
    /\ pending' = <<>> /\ UNCHANGED steeringQueue
    /\ phase' = IF hasMore THEN "prepare" ELSE "followUps"
    /\ UNCHANGED <<followUpQueue, messages, kept, pendingToolCalls, aborted, context, skipPoll, hasMore,
                   batchVars, orphans, histVars>>

PollAfterTurn ==
    /\ phase = "poll"
    /\ PollSteering
    /\ phase' = IF hasMore \/ pending' # <<>> THEN "prepare" ELSE "followUps"
    /\ UNCHANGED <<followUpQueue, messages, kept, pendingToolCalls, aborted, context, skipPoll, hasMore,
                   batchVars, orphans, histVars>>

\* findCutPoint: a compaction keeps the transcript from an entry that is no tool result.
CutPoints ==
    {k \in 1..Len(messages) : kept <= k /\ k <= MaxKept /\ messages[k].role # "toolResult"}

\* Mutant: the loop ignores the context that the hook returns.
PrepareNextTurnKeepsContext ==
    /\ phase = "prepare"
    /\ kept' \in {kept} \cup CutPoints /\ UNCHANGED context
    /\ phase' = "secondPoll"
    /\ UNCHANGED <<queueVars, messages, pendingToolCalls, aborted, pending, skipPoll, hasMore,
                   batchVars, orphans, histVars>>

\* The hook of the session compacts; whether that succeeds or not, it returns a copy
\* of _state.messages.
CompactBeforeNextAssistantResponse ==
    \E k \in {kept} \cup CutPoints : kept' = k /\ context' = Rebuilt(k)

\* config.prepareNextTurn: without a hook, or when there is nothing to compact, the
\* loop goes on with its context; otherwise with the one the hook returns.
PrepareNextTurn ==
    /\ phase = "prepare"
    /\ UNCHANGED <<kept, context>> \/ CompactBeforeNextAssistantResponse
    /\ phase' = "secondPoll"
    /\ UNCHANGED <<queueVars, messages, pendingToolCalls, aborted, pending, skipPoll, hasMore,
                   batchVars, orphans, histVars>>

\* Mutant: the poll behind prepareNextTurn replaces what was polled before it.
SecondPollRepolls ==
    /\ phase = "secondPoll"
    /\ PollSteering
    /\ phase' = "inject"
    /\ UNCHANGED <<followUpQueue, messages, kept, pendingToolCalls, aborted, context, skipPoll, hasMore,
                   batchVars, orphans, histVars>>

\* Steering is polled again if the first poll returned nothing, then turn_start.
SecondPoll ==
    /\ phase = "secondPoll"
    /\ IF pending = <<>> THEN PollSteering ELSE UNCHANGED <<pending, steeringQueue>>
    /\ phase' = "inject"
    /\ UNCHANGED <<followUpQueue, messages, kept, pendingToolCalls, aborted, context, skipPoll, hasMore,
                   batchVars, orphans, histVars>>

\* getFollowUpMessages once the agent would stop.
PollFollowUps ==
    /\ phase = "followUps"
    /\ pending' = Drained(followUpQueue, FollowUpMode)
    /\ followUpQueue' = Undrained(followUpQueue, FollowUpMode)
    /\ IF pending' # <<>>
       THEN phase' = "prepare" /\ hasMore' = TRUE /\ UNCHANGED outcome
       ELSE phase' = "agentEnd" /\ outcome' = "drained" /\ UNCHANGED hasMore
    /\ UNCHANGED <<steeringQueue, messages, kept, pendingToolCalls, aborted, context, skipPoll, batchVars,
                   orphans, origin, discarded, dropped, responses, failures, runStart>>

\* agent_end and its listeners, then finishRun.
AgentEnd ==
    /\ phase = "agentEnd"
    /\ FinishRun
    /\ UNCHANGED <<queueVars, messages, kept, batchVars, orphans, histVars>>

-----------------------------------------------------------------------------
(* Throws: a listener, prepareNextTurn, shouldStopAfterTurn, transformContext, *)
(* getApiKey or the stream.  A listener runs after the event was reduced, so a *)
(* listener that throws is Throws taken right behind the step that emits.      *)

\* The executor rejects: what the loop holds in local variables is gone, calls
\* of a parallel batch that still execute are not waited for.
TearDown(stillRunning) ==
    /\ failures < MaxFailures
    /\ failures' = failures + 1
    /\ phase' = "failing"
    /\ outcome' = IF aborted THEN "aborted" ELSE "error"
    /\ dropped' = dropped \cup Range(pending)
    /\ orphans' = orphans \cup stillRunning
    /\ pending' = <<>> /\ context' = <<>> /\ skipPoll' = FALSE /\ hasMore' = FALSE
    /\ NoBatch
    /\ UNCHANGED <<queueVars, messages, kept, aborted, origin, discarded, responses, runStart>>

Throws ==
    /\ phase \in Phase \ {"idle", "poll", "followUps", "failing"}
    /\ running = {}
    /\ TearDown({})
    /\ UNCHANGED pendingToolCalls

\* A tool_execution_update or tool_execution_end listener of call c throws; the
\* former leaves the call in pendingToolCalls.
ToolListenerThrows ==
    /\ phase = "tools"
    /\ \E c \in running :
          /\ TearDown(running \ {c})
          /\ pendingToolCalls' \in {pendingToolCalls, pendingToolCalls \ {c}}

\* handleRunFailure: a failure message is appended, unless a listener throws on
\* its message_start; either way the finally block finishes the run.
RunFailure ==
    /\ phase = "failing"
    /\ \/ Emit(AssistantEntry(outcome, <<>>)) /\ UNCHANGED failures
       \/ failures < MaxFailures /\ failures' = failures + 1 /\ UNCHANGED messages
    /\ FinishRun
    /\ UNCHANGED <<queueVars, kept, batchVars, orphans, origin, discarded, dropped, responses,
                   runStart, outcome>>

-----------------------------------------------------------------------------

Init ==
    /\ steeringQueue = <<>> /\ followUpQueue = <<>>
    /\ messages = <<>> /\ kept = 0 /\ pendingToolCalls = {} /\ aborted = FALSE /\ phase = "idle"
    /\ context = <<>> /\ pending = <<>> /\ skipPoll = FALSE /\ hasMore = FALSE
    /\ calls = <<>> /\ parallel = FALSE /\ prepared = 0 /\ emitted = 0
    /\ waiting = {} /\ running = {} /\ finished = {} /\ terminating = {}
    /\ orphans = {}
    /\ origin = <<>> /\ discarded = {} /\ dropped = {}
    /\ responses = 0 /\ failures = 0 /\ runStart = 0 /\ outcome = "none"

\* What the callers of the agent may do at any time.
Callers ==
    \/ Prompt \/ ContinueWithSteering \/ ContinueWithFollowUps \/ ContinueTranscript
    \/ Steer \/ FollowUp \/ ClearAllQueues \/ Abort

\* What the event loop runs once it is ready.
RunStep ==
    \/ EmitPrompt \/ PromptsEmitted \/ FirstPoll \/ InjectPending \/ PendingInjected
    \/ CallModel \/ ResponseFails \/ ResponseWithoutCalls \/ ResponseWithCalls
    \/ StartCall \/ BreakOnAbort \/ AdmitCall \/ RefuseCall \/ StartBatch \/ ToolEnds
    \/ EmitResult \/ BatchDone
    \/ TurnEnd \/ PollAfterTurn \/ PrepareNextTurn \/ SecondPoll \/ PollFollowUps
    \/ AgentEnd \/ RunFailure

Next == Callers \/ RunStep \/ OrphanEnds \/ Throws \/ ToolListenerThrows

Spec == Init /\ [][Next]_vars

\* Streams and tools settle and the event loop runs every ready continuation;
\* nothing obliges a caller to act or a listener to throw.
FairSpec == Spec /\ WF_vars(RunStep) /\ WF_vars(OrphanEnds)

-----------------------------------------------------------------------------
(* Properties *)

QueuesOK ==
    /\ origin \in Seq(Origin)
    /\ steeringQueue \in Seq(Msg) /\ followUpQueue \in Seq(Msg) /\ pending \in Seq(Msg)
    /\ discarded \subseteq Msg /\ dropped \subseteq Msg
TranscriptOK ==
    /\ messages \in Seq(Entry) /\ context \in Seq(Entry)
    /\ kept \in 0..Len(messages)
    /\ runStart \in 0..Len(messages)
BatchOK ==
    /\ calls \in Seq(CallId)
    /\ prepared \in 0..Len(calls) /\ emitted \in 0..prepared
    /\ pendingToolCalls \subseteq CallId /\ waiting \subseteq CallId /\ running \subseteq CallId
    /\ orphans \subseteq CallId /\ finished \subseteq CallId /\ terminating \subseteq finished
ControlOK ==
    /\ phase \in Phase /\ outcome \in Outcome
    /\ aborted \in BOOLEAN /\ skipPoll \in BOOLEAN /\ hasMore \in BOOLEAN /\ parallel \in BOOLEAN
    /\ responses \in 0..MaxToolTurns /\ failures \in 0..MaxFailures

\* Every variable stays within its range: the counters of a batch (prepared,
\* emitted) within the batch, every message known, every call well-formed.
TypeOK == QueuesOK /\ TranscriptOK /\ BatchOK /\ ControlOK

\* Where a message is: a message handed to steer(), followUp() or prompt() is in
\* exactly one place, and it is lost without a clear only to a run that threw.
Places(m) ==
    {p \in {"steering", "followUp", "pending", "transcript", "discarded", "dropped"} :
        \/ p = "steering"   /\ m \in Range(steeringQueue)
        \/ p = "followUp"   /\ m \in Range(followUpQueue)
        \/ p = "pending"    /\ m \in Range(pending)
        \/ p = "transcript" /\ m \in Delivered
        \/ p = "discarded"  /\ m \in discarded
        \/ p = "dropped"    /\ m \in dropped}
EveryMessageHasOnePlace ==
    /\ \A m \in Msg : Cardinality(Places(m)) = 1
    /\ failures = 0 => dropped = {}

\* In one-at-a-time mode a turn of a run takes at most one message of a queue:
\* two of them in one run have an assistant response between them.
OnePerTurn(source, mode) ==
    mode = "one-at-a-time" =>
        \A i, j \in (runStart + 1)..Len(messages) :
            (/\ i < j /\ messages[i].role = "user" /\ messages[j].role = "user"
             /\ origin[messages[i].msg] = source /\ origin[messages[j].msg] = source)
            => \E k \in i..j : messages[k].role = "assistant"
OneAtATime == OnePerTurn("steer", SteeringMode) /\ OnePerTurn("followUp", FollowUpMode)

\* The context sent to the model, which runLoop maintains by itself and
\* prepareNextTurn replaces, is the transcript that processEvents builds from the
\* events and that compactions rebuild.
ModelSeesTranscript == phase \in {"respond", "streaming"} => context = Transcript

\* Every tool result directly follows its assistant message and the results of
\* that message's earlier calls, in source order.
ResultsFollowCalls ==
    \A j \in 1..Len(messages) : messages[j].role = "toolResult" =>
        \E i \in 1..(j - 1) :
            /\ messages[i].role = "assistant"
            /\ j - i <= Len(messages[i].calls)
            /\ messages[j].call = messages[i].calls[j - i]
            /\ \A k \in (i + 1)..j : messages[k].role = "toolResult"

\* Unless the run was aborted, the model is never called, and no message is
\* injected, behind an assistant message of the run with an unanswered call.
CallsAnswered ==
    (phase \in {"turnEnd", "poll", "prepare", "secondPoll", "followUps", "inject", "respond", "streaming"}
        /\ ~aborted) =>
        \A i \in (runStart + 1)..Len(messages) : messages[i].role = "assistant" =>
            LET n == Len(messages[i].calls)
            IN  /\ i + n <= Len(messages)
                /\ \A k \in 1..n : messages[i + k] = ResultEntry(messages[i].calls[k])

\* A run that starts settles, whatever the callers do and whichever listener throws.
RunSettles == Active ~> ~Active

\* A message queued while the run still has a poll of its queue ahead is taken,
\* unless the run ends early.
EndsEarly == outcome \in {"stopped", "error", "aborted"}
QueuedIsTaken ==
    \A m \in 1..MaxMessages :
        /\ (m \in Range(steeringQueue) /\ phase \notin {"idle", "followUps", "agentEnd", "failing"})
               ~> (m \notin Range(steeringQueue) \/ EndsEarly)
        /\ (m \in Range(followUpQueue) /\ phase \notin {"idle", "agentEnd", "failing"})
               ~> (m \notin Range(followUpQueue) \/ EndsEarly)

\* agent.ts says of waitForIdle(): "Resolve when the current run and all awaited
\* event listeners have finished"; a call of a run that threw may still execute, so
\* this does not hold (README).
IdleMeansNoToolRuns == ~Active => orphans = {}

=============================================================================
