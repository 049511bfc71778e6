---------------------------- MODULE AgentSession ----------------------------
(***************************************************************************)
(* AgentSession (packages/coding-agent/src/core/agent-session.ts): what    *)
(* happens around the runs of the agent.  Concurrent prompt() calls, the   *)
(* post-run loop (automatic retry, overflow recovery, threshold compaction,*)
(* delivery of queued messages), manual compaction, abort, deferred bash   *)
(* results, and the persistence of every message in the session log.       *)
(*                                                                         *)
(* A run of the agent is modelled at the grain of its turns: the loop in   *)
(* full detail is module AgentRun.  One action is the code between two     *)
(* awaits that let another caller in.  A message is its caller's identity, *)
(* an assistant message its position in the order of the responses.        *)
(***************************************************************************)
EXTENDS Naturals, Sequences, FiniteSets, SequencesExt, Subsequences

CONSTANTS
    Prompts,         \* calls of prompt(), each also the message it sends
    Steers,          \* messages handed to steer()
    Bashes,          \* bash commands that end while the session lives
    Stops,           \* the ways a model response may end, see Stop
    Interrupts,      \* what callers use to interrupt, see Interrupt
    Concurrent,      \* callers call prompt() while another call is between its runs
    NoPrompt,        \* no prompt() call
    MaxResponses,    \* bound: assistant messages
    MaxRetries,      \* settings.retry.maxRetries
    MaxCompactions,  \* bound: compactions that succeed
    MaxManual        \* bound: calls of compact()

\* "silent" is a stop whose usage exceeds the context window, "length" a length
\* stop with no output that fills it; three kinds of error are told apart.
Stop    == {"stop", "toolUse", "silent", "length", "retryable", "overflow", "fatal", "aborted"}
IsError(stop)    == stop \in {"retryable", "overflow", "fatal"}
IsOverflow(stop) == stop \in {"overflow", "silent", "length"}

\* clearQueue(), abort(), and the rpc command abort with clearQueue.
Interrupt == {"clear", "abort", "clear and abort"}

ASSUME StopsAssumption == Stops \subseteq Stop /\ Interrupts \subseteq Interrupt
ASSUME SessionBounds ==
    /\ MaxResponses \in Nat \ {0} /\ MaxRetries \in Nat
    /\ MaxCompactions \in Nat /\ MaxManual \in Nat
ASSUME CallersAssumption ==
    /\ Concurrent \in BOOLEAN
    /\ NoPrompt \notin Prompts
    /\ Prompts \cap Steers = {}

VARIABLES
    \* Agent
    phase,           \* where the active run is, "idle" when there is none
    owner,           \* the prompt() call that awaits the active run
    aborted,         \* the run's abort signal
    queue,           \* steering messages waiting in the agent
    inflight,        \* messages the loop has polled and not yet injected
    messages,        \* agent.state.messages
    \* AgentSession
    connected,       \* _handleAgentEvent is subscribed
    log,             \* the entries of the session's current branch
    lastAssistant,   \* _lastAssistantMessage
    retryAttempt,    \* _retryAttempt
    recoveryTried,   \* _overflowRecoveryAttempted
    pendingBash,     \* _pendingBashMessages
    pc,              \* where each prompt() call is
    stage,           \* "check" before its prompt, "settle" in the runs that the
                     \* check continues, "main" from its own run on
    handled,         \* the assistant message its _handlePostAgentRun looks at
    compacting,      \* the auto-compaction it awaits
    retrySlot, autoSlot, \* whose _retryAbortController, _autoCompactionAbortController it is
    cancelled,       \* calls whose sleep or auto-compaction was aborted
    manual,          \* compact(): "idle", "waiting" for the run, "ready", "summarizing"
    manualCut, manualCancelled,
    \* budgets and history
    responses, compactions, manuals, sent, bashed,
    newest,          \* the newest assistant message of the active or last run
    compactedAt,     \* responses when the latest compaction was appended
    willRetry,       \* what the latest agent_end said
    quiet            \* queue cleared and session aborted, nothing called since

agentVars   == <<phase, owner, aborted, queue, inflight, messages>>
sessionVars == <<connected, log, lastAssistant, retryAttempt, recoveryTried, pendingBash>>
callVars    == <<pc, stage, handled, compacting, retrySlot, autoSlot, cancelled>>
manualVars  == <<manual, manualCut, manualCancelled, manuals>>
budgetVars  == <<responses, newest, compactions, sent, bashed, compactedAt>>
histVars    == <<willRetry, quiet>>
vars == <<agentVars, sessionVars, callVars, manualVars, budgetVars, histVars>>

-----------------------------------------------------------------------------
(* Entries and the context built from them *)

User(m)        == [role |-> "user", id |-> m]
Assistant(n, s) == [role |-> "assistant", id |-> n, stop |-> s]
ToolResult(n)  == [role |-> "toolResult", id |-> n]
Bash(b)        == [role |-> "bash", id |-> b]
Compaction(k)  == [role |-> "compaction", kept |-> k]
None           == [role |-> "none"]

UserIds == Prompts \cup Steers
Message == {User(m) : m \in UserIds} \cup {Bash(b) : b \in Bashes}
           \cup [role : {"assistant"}, id : Nat, stop : Stop] \cup [role : {"toolResult"}, id : Nat]
Entry == Message \cup [role : {"compaction"}, kept : Nat \ {0}]

EndsWith(s, role) == s # <<>> /\ Last(s).role = role

\* Index of the latest compaction entry, 0 if there is none.
LatestCompaction(entries) == SelectLastInSeq(entries, LAMBDA e : e.role = "compaction")

\* buildSessionContext: the summary, the entries kept from firstKeptEntryId up to
\* the compaction, and everything after it.
BuildSessionContext(entries) ==
    LET c == LatestCompaction(entries)
    IN  IF c = 0 THEN entries
        ELSE <<entries[c]>> \o Kept(SubSeq(entries, entries[c].kept, c - 1), Message)
                            \o SubSeq(entries, c + 1, Len(entries))

\* prepareCompaction, findCutPoint: a compaction may keep the branch from any entry
\* behind the previous cut that is not a tool result; which one depends on sizes.
CutPoints(entries) ==
    LET c == LatestCompaction(entries)
        start == IF c = 0 THEN 1 ELSE entries[c].kept
    IN  IF EndsWith(entries, "compaction") THEN {}
        ELSE {i \in start..Len(entries) : entries[i].role \in {"user", "assistant", "bash"}}

-----------------------------------------------------------------------------
(* _handleAgentEvent *)

Persist(entries) == IF connected THEN log \o entries ELSE log

\* message_start and message_end of user messages.
EmitUsers(ms) ==
    /\ messages' = messages \o [i \in 1..Len(ms) |-> User(ms[i])]
    /\ log' = Persist([i \in 1..Len(ms) |-> User(ms[i])])
    /\ recoveryTried' = IF connected /\ ms # <<>> THEN FALSE ELSE recoveryTried

EmitAssistant(a) ==
    /\ messages' = Append(messages, a)
    /\ log' = Persist(<<a>>)
    /\ IF connected
       THEN /\ lastAssistant' = a
            /\ recoveryTried' = (recoveryTried /\ IsError(a.stop))
            /\ retryAttempt' = IF IsError(a.stop) THEN retryAttempt ELSE 0
       ELSE UNCHANGED <<lastAssistant, recoveryTried, retryAttempt>>

\* _isRetryableError and the check against settings.maxRetries that agent_end's
\* willRetry flag makes in _willRetryAfterAgentEnd.
IsRetryableError(a) == a.stop = "retryable"
\* Mutant: the attempts made so far are not looked at.
WillRetryRegardless(a) == IsRetryableError(a)
WillRetryAfterAgentEnd(a) == retryAttempt < MaxRetries /\ IsRetryableError(a)

-----------------------------------------------------------------------------
(* The run, turn by turn (agent-loop.ts) *)

RunOnly == UNCHANGED <<owner, aborted, connected, pendingBash, callVars, manualVars, quiet>>

Polled   == IF queue = <<>> THEN <<>> ELSE <<Head(queue)>>
Unpolled == IF queue = <<>> THEN <<>> ELSE Tail(queue)
Poll     == inflight' = Polled /\ queue' = Unpolled

EmitPrompt ==
    /\ phase = "prompt"
    /\ EmitUsers(inflight)
    /\ inflight' = <<>> /\ phase' = "start"
    /\ RunOnly /\ UNCHANGED <<queue, lastAssistant, retryAttempt, budgetVars, willRetry>>

InitialPoll ==
    /\ phase = "start"
    /\ Poll /\ phase' = "inject"
    /\ RunOnly /\ UNCHANGED <<messages, log, lastAssistant, retryAttempt, recoveryTried, budgetVars,
                             willRetry>>

Inject ==
    /\ phase = "inject"
    /\ EmitUsers(inflight)
    /\ inflight' = <<>> /\ phase' = "turn"
    /\ RunOnly /\ UNCHANGED <<queue, lastAssistant, retryAttempt, budgetVars, willRetry>>

\* The model answers; past the bound on responses it answers "stop".
Respond ==
    /\ phase = "turn"
    /\ \E stop \in (IF responses < MaxResponses THEN Stops \ {"aborted"} ELSE {"stop"})
                    \cup (IF aborted THEN {"aborted"} ELSE {}) :
          /\ newest' = Assistant(responses + 1, stop)
          /\ EmitAssistant(newest')
          /\ phase' = IF stop = "toolUse" THEN "tool"
                      ELSE IF IsError(stop) \/ stop = "aborted" THEN "ending" ELSE "turnEnd"
    /\ responses' = responses + 1
    /\ RunOnly /\ UNCHANGED <<queue, inflight, compactions, sent, bashed, compactedAt, willRetry>>

ToolEnds ==
    /\ phase = "tool"
    /\ messages' = Append(messages, ToolResult(responses))
    /\ log' = Persist(<<ToolResult(responses)>>)
    /\ phase' = "toolsEnd"
    /\ RunOnly /\ UNCHANGED <<queue, inflight, lastAssistant, retryAttempt, recoveryTried, budgetVars,
                             willRetry>>

\* shouldStopAfterTurn: the tool loop guard ends the run before the queue is polled.
GuardStops ==
    /\ phase = "toolsEnd"
    /\ phase' = "ending"
    /\ RunOnly /\ UNCHANGED <<queue, inflight, messages, log, lastAssistant, retryAttempt, recoveryTried,
                             budgetVars, willRetry>>

\* Nothing polled: a tool batch may still say terminate, which ends the run.
PollAfterTurn ==
    /\ phase \in {"turnEnd", "toolsEnd"}
    /\ Poll
    /\ phase' \in (IF phase = "toolsEnd" \/ queue # <<>> THEN {"prepare"} ELSE {})
                   \cup (IF queue = <<>> THEN {"ending"} ELSE {})
    /\ RunOnly /\ UNCHANGED <<messages, log, lastAssistant, retryAttempt, recoveryTried, budgetVars,
                             willRetry>>

\* The poll behind prepareNextTurn, for what was queued while it ran.
PollIfNothingPolled == IF inflight = <<>> THEN Poll ELSE UNCHANGED <<inflight, queue>>

\* _compactBeforeNextAssistantResponse finds nothing to do.
PrepareTurn ==
    /\ phase = "prepare"
    /\ PollIfNothingPolled /\ phase' = "inject"
    /\ RunOnly /\ UNCHANGED <<messages, log, lastAssistant, retryAttempt, recoveryTried, budgetVars,
                             willRetry>>

CompactBeforeTurn ==
    /\ phase = "prepare" /\ ~aborted
    /\ \E cut \in CutPoints(log) : compacting' = [compacting EXCEPT !["run"] = [retry |-> FALSE, cut |-> cut]]
    /\ autoSlot' = "run"
    /\ phase' = "compacting"
    /\ UNCHANGED <<owner, aborted, queue, inflight, messages, sessionVars, pc, stage, handled, retrySlot,
                   cancelled, manualVars, budgetVars, histVars>>

\* appendCompaction with this cut, then agent.state.messages is rebuilt.
AppendCompaction(cut) == Append(log, Compaction(cut))
Compacts(actor) ==
    /\ actor \notin cancelled /\ compacting[actor].cut # 0
    /\ compactions < MaxCompactions
    /\ compactions' = compactions + 1
    /\ compactedAt' = responses
\* Cancelled, failed, nothing to compact, or no model or credentials.
DoesNotCompact == UNCHANGED <<compactions, compactedAt>>
CompactionOver(actor) ==
    /\ autoSlot' = NoPrompt
    /\ cancelled' = cancelled \ {actor}
    /\ compacting' = [compacting EXCEPT ![actor] = [retry |-> FALSE, cut |-> 0]]

TurnCompactionEnds ==
    /\ phase = "compacting"
    /\ \/ /\ Compacts("run")
          /\ log' = AppendCompaction(compacting["run"].cut)
          /\ messages' = BuildSessionContext(log')
       \/ DoesNotCompact /\ UNCHANGED <<log, messages>>
    /\ CompactionOver("run")
    /\ PollIfNothingPolled /\ phase' = "inject"
    /\ UNCHANGED <<owner, aborted, connected, lastAssistant, retryAttempt, recoveryTried, pendingBash, pc,
                   stage, handled, retrySlot, manualVars, responses, newest, sent, bashed, histVars>>

\* Mutant: the end of the run does not wake compact().
RunEndsUnheard ==
    /\ phase = "ending"
    /\ phase' = "idle" /\ owner' = NoPrompt /\ aborted' = FALSE
    /\ pc' = [pc EXCEPT ![owner] = "post"]
    /\ willRetry' = (connected /\ WillRetryAfterAgentEnd(newest))
    /\ UNCHANGED <<queue, inflight, messages, sessionVars, stage, handled, compacting, retrySlot, autoSlot,
                   cancelled, manual, manualCut, manualCancelled, manuals, budgetVars, quiet>>

\* agent_end and its listeners, then finishRun; who awaits the run goes on.
RunEnds ==
    /\ phase = "ending"
    /\ phase' = "idle" /\ owner' = NoPrompt /\ aborted' = FALSE
    /\ pc' = [pc EXCEPT ![owner] = "post"]
    /\ manual' = IF manual = "waiting" THEN "ready" ELSE manual
    /\ willRetry' = (connected /\ WillRetryAfterAgentEnd(newest))
    /\ UNCHANGED <<queue, inflight, messages, sessionVars, stage, handled, compacting, retrySlot, autoSlot,
                   cancelled, manualCut, manualCancelled, manuals, budgetVars, quiet>>

-----------------------------------------------------------------------------
(* prompt(), _runAgentPrompt, _handlePostAgentRun.  Operators that end a step *)
(* take the transcript ms and the log lg as the step has made them so far.    *)

\* A call that has not begun or has returned.
Settled == {"idle", "done", "rejected"}

NoRunChange == UNCHANGED <<phase, owner, aborted, queue, inflight>>

\* Mutant: no flush at the end of a call.
LeaveUnflushed(p, to, ms, lg) ==
    /\ pc' = [pc EXCEPT ![p] = to]
    /\ messages' = ms /\ log' = lg
    /\ NoRunChange /\ UNCHANGED <<stage, pendingBash>>

\* A call leaves a loop of runs: the finally block flushes the deferred bash messages.
Leave(p, to, ms, lg) ==
    /\ pc' = [pc EXCEPT ![p] = to]
    /\ messages' = ms \o pendingBash
    /\ log' = lg \o pendingBash
    /\ pendingBash' = <<>>
    /\ NoRunChange /\ UNCHANGED stage

\* No further run follows: on to before_agent_start, or prompt() returns.
GoOn(p, ms, lg) ==
    CASE stage[p] = "check"  -> /\ pc' = [pc EXCEPT ![p] = "build"]
                                /\ messages' = ms /\ log' = lg
                                /\ NoRunChange /\ UNCHANGED <<stage, pendingBash>>
      [] stage[p] = "settle" -> Leave(p, "build", ms, lg)
      [] stage[p] = "main"   -> Leave(p, "done", ms, lg)

StartRun(p, firstPhase, drained) ==
    /\ phase' = firstPhase /\ owner' = p /\ aborted' = FALSE
    /\ inflight' = drained
    /\ pc' = [pc EXCEPT ![p] = "running"]

\* await this.agent.continue(): it rejects during a run, and for an assistant
\* tail with empty queues; the rejection leaves prompt().
Continue(p, ms, lg) ==
    IF phase # "idle" \/ ms = <<>> \/ (EndsWith(ms, "assistant") /\ queue = <<>>)
    THEN Leave(p, "rejected", ms, lg)
    ELSE /\ messages' = ms /\ log' = lg /\ UNCHANGED pendingBash
         /\ stage' = [stage EXCEPT ![p] = IF stage[p] = "check" THEN "settle" ELSE stage[p]]
         /\ IF EndsWith(ms, "assistant")
            THEN StartRun(p, "inject", Polled) /\ queue' = Unpolled
            ELSE StartRun(p, "start", <<>>) /\ UNCHANGED queue

\* _checkCompaction: nothing, compact, or recover from an overflow by compacting
\* and retrying.  Whether a threshold is reached is left open.
Verdicts(a, skipAborted) ==
    IF (skipAborted /\ a.stop = "aborted") \/ a.id <= compactedAt THEN {"none"}
    ELSE IF a.stop = "silent" THEN {"compact"}
    ELSE IF IsOverflow(a.stop) THEN (IF recoveryTried THEN {"none"} ELSE {"recover"})
    ELSE {"none", "compact"}

\* The trailing assistant message leaves the transcript and stays in the log.
WithoutTrailingAssistant(ms) == IF EndsWith(ms, "assistant") THEN Front(ms) ELSE ms

\* Mutant: the overflow recovery is not remembered.
BeginCompactionAnew(p, verdict, ms, lg) ==
    /\ \E cut \in (IF CutPoints(lg) = {} THEN {0} ELSE CutPoints(lg)) :
          compacting' = [compacting EXCEPT ![p] = [retry |-> verdict = "recover", cut |-> cut]]
    /\ autoSlot' = p
    /\ pc' = [pc EXCEPT ![p] = "compact"]
    /\ messages' = IF verdict = "recover" THEN WithoutTrailingAssistant(ms) ELSE ms
    /\ log' = lg
    /\ NoRunChange /\ UNCHANGED <<stage, recoveryTried>>

\* _runAutoCompaction up to the summary request.
BeginCompaction(p, verdict, ms, lg) ==
    /\ \E cut \in (IF CutPoints(lg) = {} THEN {0} ELSE CutPoints(lg)) :
          compacting' = [compacting EXCEPT ![p] = [retry |-> verdict = "recover", cut |-> cut]]
    /\ autoSlot' = p
    /\ pc' = [pc EXCEPT ![p] = "compact"]
    /\ recoveryTried' = (recoveryTried \/ verdict = "recover")
    /\ messages' = IF verdict = "recover" THEN WithoutTrailingAssistant(ms) ELSE ms
    /\ log' = lg
    /\ NoRunChange /\ UNCHANGED stage

\* The prompt arrives while a run is active: it is queued as steering.
QueuePrompt(p) ==
    /\ pc[p] = "idle" /\ phase # "idle"
    /\ queue' = Append(queue, p)
    /\ pc' = [pc EXCEPT ![p] = "done"]
    /\ quiet' = FALSE
    /\ UNCHANGED <<phase, owner, aborted, inflight, messages, sessionVars, stage, handled, compacting,
                   retrySlot, autoSlot, cancelled, manualVars, budgetVars, willRetry>>

LastAssistantIn(ms) ==
    LET i == SelectLastInSeq(ms, LAMBDA e : e.role = "assistant") IN IF i = 0 THEN None ELSE ms[i]

\* Flush deferred bash messages, look whether the last response calls for a
\* compaction before this prompt, otherwise go on to before_agent_start.
BeginPrompt(p) ==
    LET ms == messages \o pendingBash
        lg == log \o pendingBash
        a  == LastAssistantIn(ms)
    IN  /\ pc[p] = "idle" /\ phase = "idle"
        /\ Concurrent \/ \A q \in Prompts : pc[q] \in Settled
        /\ pendingBash' = <<>>
        /\ \E verdict \in (IF a = None THEN {"none"} ELSE Verdicts(a, FALSE)) :
              IF verdict = "none"
              THEN /\ pc' = [pc EXCEPT ![p] = "build"]
                   /\ messages' = ms /\ log' = lg
                   /\ NoRunChange /\ UNCHANGED <<stage, recoveryTried, compacting, autoSlot>>
              ELSE BeginCompaction(p, verdict, ms, lg)
        /\ quiet' = FALSE
        /\ UNCHANGED <<connected, lastAssistant, retryAttempt, handled, retrySlot, cancelled,
                       manualVars, budgetVars, willRetry>>

\* this.agent.prompt(messages), which throws if a run became active meanwhile.
SubmitPrompt(p) ==
    /\ pc[p] = "build"
    /\ IF phase # "idle"
       THEN Leave(p, "rejected", messages, log)
       ELSE /\ StartRun(p, "prompt", <<p>>)
            /\ stage' = [stage EXCEPT ![p] = "main"]
            /\ UNCHANGED <<queue, messages, log, pendingBash>>
    /\ UNCHANGED <<connected, lastAssistant, retryAttempt, recoveryTried, handled, compacting, retrySlot,
                   autoSlot, cancelled, manualVars, budgetVars, histVars>>

\* Mutant: what is queued when the run is over stays queued.
ContinueNever(p, ms, lg) == GoOn(p, ms, lg)
\* _handlePostAgentRun returns hasQueuedMessages().
ContinueIfQueued(p, ms, lg) == IF queue # <<>> THEN Continue(p, ms, lg) ELSE GoOn(p, ms, lg)

\* The rest of _handlePostAgentRun once no retry follows.
CheckCompaction(p, a) ==
    \E verdict \in Verdicts(a, TRUE) :
        IF verdict # "none"
        THEN BeginCompaction(p, verdict, messages, log) /\ UNCHANGED pendingBash
        ELSE ContinueIfQueued(p, messages, log) /\ UNCHANGED <<recoveryTried, compacting, autoSlot>>

NothingToHandle(p) ==
    /\ pc[p] = "post" /\ lastAssistant = None
    /\ GoOn(p, messages, log)
    /\ UNCHANGED <<connected, lastAssistant, retryAttempt, recoveryTried, handled, compacting,
                   retrySlot, autoSlot, cancelled, manualVars, budgetVars, histVars>>

\* Mutants: one attempt too many; the error stays in the transcript.
MayRetryOnceMore(a) == IsRetryableError(a) /\ retryAttempt <= MaxRetries
\* _prepareRetry up to its sleep: the error leaves the transcript, not the log.
MayRetry(a) == IsRetryableError(a) /\ retryAttempt + 1 <= MaxRetries
PrepareRetryKeepsError(p) ==
    /\ pc[p] = "post" /\ lastAssistant # None /\ MayRetry(lastAssistant)
    /\ retryAttempt' = retryAttempt + 1
    /\ handled' = [handled EXCEPT ![p] = lastAssistant]
    /\ lastAssistant' = None
    /\ retrySlot' = p
    /\ pc' = [pc EXCEPT ![p] = "sleep"]
    /\ NoRunChange /\ UNCHANGED <<connected, messages, log, recoveryTried, pendingBash, stage, compacting,
                                  autoSlot, cancelled, manualVars, budgetVars, histVars>>
PrepareRetry(p) ==
    /\ pc[p] = "post" /\ lastAssistant # None /\ MayRetry(lastAssistant)
    /\ retryAttempt' = retryAttempt + 1
    /\ messages' = WithoutTrailingAssistant(messages)
    /\ handled' = [handled EXCEPT ![p] = lastAssistant]
    /\ lastAssistant' = None
    /\ retrySlot' = p
    /\ pc' = [pc EXCEPT ![p] = "sleep"]
    /\ NoRunChange /\ UNCHANGED <<connected, log, recoveryTried, pendingBash, stage, compacting, autoSlot,
                                  cancelled, manualVars, budgetVars, histVars>>

HandleRun(p) ==
    /\ pc[p] = "post" /\ lastAssistant # None /\ ~MayRetry(lastAssistant)
    /\ retryAttempt' = IF IsError(lastAssistant.stop) THEN 0 ELSE retryAttempt
    /\ lastAssistant' = None
    /\ CheckCompaction(p, lastAssistant)
    /\ UNCHANGED <<connected, handled, retrySlot, cancelled, manualVars, budgetVars, willRetry, quiet>>

\* The sleep of _prepareRetry ends by itself, or abortRetry ends it.
SleepOver(p) ==
    /\ pc[p] = "sleep"
    /\ retrySlot' = NoPrompt
    /\ handled' = [handled EXCEPT ![p] = None]
RetryNow(p) ==
    /\ SleepOver(p) /\ p \notin cancelled
    /\ Continue(p, messages, log)
    /\ UNCHANGED <<connected, lastAssistant, retryAttempt, recoveryTried, compacting, autoSlot,
                   cancelled, manualVars, budgetVars, histVars>>
RetryCancelled(p) ==
    /\ SleepOver(p) /\ p \in cancelled
    /\ cancelled' = cancelled \ {p}
    /\ retryAttempt' = 0
    /\ CheckCompaction(p, handled[p])
    /\ UNCHANGED <<connected, lastAssistant, manualVars, budgetVars, willRetry, quiet>>

\* Mutant: the transcript is not rebuilt.
CompactionSucceedsStale(p) ==
    LET lg == AppendCompaction(compacting[p].cut)
    IN  /\ pc[p] = "compact" /\ Compacts(p)
        /\ IF compacting[p].retry THEN Continue(p, messages, lg) ELSE ContinueIfQueued(p, messages, lg)
\* _runAutoCompaction returns.  With a retry to come, a trailing error is taken
\* out of the rebuilt transcript.
CompactionSucceeds(p) ==
    LET lg == AppendCompaction(compacting[p].cut)
        rebuilt == BuildSessionContext(lg)
        ms == IF compacting[p].retry /\ EndsWith(rebuilt, "assistant") /\ IsError(Last(rebuilt).stop)
              THEN Front(rebuilt) ELSE rebuilt
    IN  /\ pc[p] = "compact" /\ Compacts(p)
        /\ IF compacting[p].retry THEN Continue(p, ms, lg) ELSE ContinueIfQueued(p, ms, lg)
\* A compaction before the prompt that fails continues nothing.
CompactionFails(p) ==
    /\ pc[p] = "compact" /\ DoesNotCompact
    /\ IF stage[p] = "check" THEN GoOn(p, messages, log) ELSE ContinueIfQueued(p, messages, log)
CompactionReturns(p) ==
    /\ CompactionSucceeds(p) \/ CompactionFails(p)
    /\ CompactionOver(p)
    /\ UNCHANGED <<connected, lastAssistant, retryAttempt, recoveryTried, handled, retrySlot,
                   manualVars, responses, newest, sent, bashed, histVars>>

-----------------------------------------------------------------------------
(* steer(), executeBash(), clearQueue(), abort() *)

Steer ==
    /\ \E m \in Steers \ sent : queue' = Append(queue, m) /\ sent' = sent \cup {m}
    /\ quiet' = FALSE
    /\ UNCHANGED <<phase, owner, aborted, inflight, messages, sessionVars, callVars, manualVars,
                   responses, newest, compactions, bashed, compactedAt, willRetry>>

\* Mutant: the bash result is appended although the agent runs.
BashEndsAtOnce ==
    /\ \E b \in Bashes \ bashed :
          /\ bashed' = bashed \cup {b}
          /\ messages' = Append(messages, Bash(b)) /\ log' = Append(log, Bash(b))
    /\ NoRunChange
    /\ UNCHANGED <<connected, lastAssistant, retryAttempt, recoveryTried, pendingBash, callVars, manualVars,
                   responses, newest, compactions, sent, compactedAt, histVars>>

\* recordBashResult: deferred during a run, otherwise appended at once.
BashEnds ==
    /\ \E b \in Bashes \ bashed :
          /\ bashed' = bashed \cup {b}
          /\ IF phase # "idle"
             THEN pendingBash' = Append(pendingBash, Bash(b)) /\ UNCHANGED <<messages, log>>
             ELSE messages' = Append(messages, Bash(b)) /\ log' = Append(log, Bash(b)) /\ UNCHANGED pendingBash
    /\ NoRunChange
    /\ UNCHANGED <<connected, lastAssistant, retryAttempt, recoveryTried, callVars, manualVars,
                   responses, newest, compactions, sent, compactedAt, histVars>>

\* abortRetry, abortCompaction, agent.abort.  An abort listener of the run's
\* signal aborts the same auto-compaction.
AbortAll ==
    /\ aborted' = (phase # "idle")
    /\ cancelled' = cancelled \cup ({retrySlot, autoSlot} \ {NoPrompt})

Interrupted(how) ==
    /\ how \in Interrupts
    /\ queue' = IF how = "abort" THEN queue ELSE <<>>
    /\ IF how = "clear"
       THEN UNCHANGED <<aborted, cancelled, manualCancelled>>
       ELSE AbortAll /\ manualCancelled' = (manual \in {"ready", "summarizing"})
    /\ quiet' = (quiet \/ how = "clear and abort")
    /\ UNCHANGED <<phase, owner, inflight, messages, sessionVars, pc, stage, handled, compacting, retrySlot,
                   autoSlot, manual, manualCut, manuals, budgetVars, willRetry>>

-----------------------------------------------------------------------------
(* compact() *)

\* The session stops listening to the agent, then aborts what is under way.
CompactCalled ==
    /\ manual = "idle" /\ manuals < MaxManual
    /\ manuals' = manuals + 1
    /\ connected' = FALSE
    /\ AbortAll
    /\ manual' = IF phase = "idle" THEN "ready" ELSE "waiting"
    /\ quiet' = FALSE
    /\ UNCHANGED <<phase, owner, queue, inflight, messages, log, lastAssistant, retryAttempt, recoveryTried,
                   pendingBash, pc, stage, handled, compacting, retrySlot, autoSlot, manualCut,
                   manualCancelled, budgetVars, willRetry>>

\* prepareCompaction on the branch as it is now.
ManualBegins ==
    /\ manual = "ready" /\ ~manualCancelled
    /\ manualCut' \in CutPoints(log)
    /\ manual' = "summarizing"
    /\ UNCHANGED <<agentVars, sessionVars, callVars, manualCancelled, manuals, budgetVars, histVars>>

\* The finally block subscribes the session to the agent again.
ManualOver ==
    /\ manual' = "idle" /\ manualCut' = 0 /\ manualCancelled' = FALSE
    /\ connected' = TRUE
    /\ NoRunChange
    /\ UNCHANGED <<lastAssistant, retryAttempt, recoveryTried, pendingBash, callVars, manuals,
                   responses, newest, sent, bashed, histVars>>
ManualSucceeds ==
    /\ manual = "summarizing" /\ ~manualCancelled
    /\ log' = AppendCompaction(manualCut)
    /\ messages' = BuildSessionContext(log')
    /\ compactions' = compactions + 1 /\ compactedAt' = responses
    /\ ManualOver
ManualFails ==
    /\ manual \in {"ready", "summarizing"}
    /\ UNCHANGED <<log, messages, compactions, compactedAt>>
    /\ ManualOver

-----------------------------------------------------------------------------

Calls == Prompts \cup {"run"}

Init ==
    /\ phase = "idle" /\ owner = NoPrompt /\ aborted = FALSE
    /\ queue = <<>> /\ inflight = <<>> /\ messages = <<>>
    /\ connected = TRUE /\ log = <<>> /\ lastAssistant = None
    /\ retryAttempt = 0 /\ recoveryTried = FALSE /\ pendingBash = <<>>
    /\ pc = [p \in Prompts |-> "idle"] /\ stage = [p \in Prompts |-> "check"]
    /\ handled = [p \in Prompts |-> None]
    /\ compacting = [c \in Calls |-> [retry |-> FALSE, cut |-> 0]]
    /\ retrySlot = NoPrompt /\ autoSlot = NoPrompt /\ cancelled = {}
    /\ manual = "idle" /\ manualCut = 0 /\ manualCancelled = FALSE
    /\ responses = 0 /\ newest = None /\ compactions = 0 /\ manuals = 0
    /\ sent = {} /\ bashed = {} /\ compactedAt = 0
    /\ willRetry = FALSE /\ quiet = FALSE

RunStep ==
    \/ EmitPrompt \/ InitialPoll \/ Inject \/ Respond \/ ToolEnds \/ GuardStops
    \/ PollAfterTurn \/ PrepareTurn \/ CompactBeforeTurn \/ TurnCompactionEnds \/ RunEnds

\* What prompt() does once it is called.
PromptStep(p) ==
    \/ SubmitPrompt(p) \/ NothingToHandle(p) \/ PrepareRetry(p) \/ HandleRun(p)
    \/ RetryNow(p) \/ RetryCancelled(p) \/ CompactionReturns(p)

ManualStep == ManualBegins \/ ManualSucceeds \/ ManualFails

Next ==
    \/ RunStep \/ ManualStep
    \/ \E p \in Prompts : QueuePrompt(p) \/ BeginPrompt(p) \/ PromptStep(p)
    \/ Steer \/ BashEnds \/ CompactCalled
    \/ \E how \in Interrupt : Interrupted(how)

Spec == Init /\ [][Next]_vars

\* Streams, tools, summaries and sleeps settle, and the event loop runs every
\* continuation that is ready; nothing obliges a caller to call.
FairSpec ==
    /\ Spec
    /\ WF_vars(RunStep) /\ WF_vars(ManualStep)
    /\ \A p \in Prompts : WF_vars(PromptStep(p))

-----------------------------------------------------------------------------
(* Properties *)

Phase == {"idle", "prompt", "start", "inject", "turn", "tool", "turnEnd", "toolsEnd",
          "prepare", "compacting", "ending"}

TypeOK ==
    /\ phase \in Phase /\ owner \in Prompts \cup {NoPrompt}
    /\ {aborted, connected, recoveryTried, manualCancelled, willRetry, quiet} \subseteq BOOLEAN
    /\ queue \in Seq(UserIds) /\ inflight \in Seq(UserIds)
    /\ messages \in Seq(Entry) /\ log \in Seq(Entry) /\ pendingBash \in Seq(Message)
    /\ {lastAssistant, newest} \cup {handled[p] : p \in Prompts} \subseteq Message \cup {None}
    /\ retryAttempt \in 0..MaxRetries
    /\ \A p \in Prompts : pc[p] \in {"idle", "build", "running", "post", "sleep", "compact", "done", "rejected"}
    /\ \A p \in Prompts : stage[p] \in {"check", "settle", "main"}
    /\ \A c \in Calls : compacting[c].retry \in BOOLEAN /\ compacting[c].cut \in 0..Len(log)
    /\ {retrySlot, autoSlot} \cup cancelled \subseteq Calls \cup {NoPrompt}
    /\ manual \in {"idle", "waiting", "ready", "summarizing"} /\ manualCut \in 0..Len(log)
    /\ manuals \in 0..MaxManual /\ compactions \in 0..(MaxCompactions + MaxManual)
    /\ responses \in Nat /\ compactedAt \in 0..responses
    /\ sent \subseteq Steers /\ bashed \subseteq Bashes

IsErrorEntry(e) == e.role = "assistant" /\ IsError(e.stop)
WithoutErrors(s) == Kept(s, {e \in Entry : ~IsErrorEntry(e)})

\* The transcript the agent holds is the context a restart would rebuild from the
\* session file, but for the errors that are taken out before a retry.
ContextMatchesLog == WithoutErrors(messages) = WithoutErrors(BuildSessionContext(log))

\* Retries and overflow recoveries together end, though each restarts the other:
\* error responses with no other response and no user message between them are at
\* most 2 * maxRetries + 2, and never hold a third overflow.
Turns == {e \in Entry : e.role \in {"user", "assistant"}}
Responses == Kept(log, Turns)
ErrorRow(row, i, j) == \A k \in i..j : IsErrorEntry(row[k])
Overflows(row, i, j) == {k \in i..j : row[k].stop = "overflow"}
RowsEnd(row) ==
    \A i, j \in 1..Len(row) : i <= j /\ ErrorRow(row, i, j) =>
        /\ j - i < 2 * MaxRetries + 2
        /\ Cardinality(Overflows(row, i, j)) <= 2
RecoveryEnds == RowsEnd(Responses)

\* agent_end announces a retry exactly when _handlePostAgentRun then prepares one.
WillRetryTellsTruth ==
    \A p \in Prompts : pc[p] = "post" =>
        (willRetry <=> lastAssistant # None /\ MayRetry(lastAssistant))

\* Tool results directly follow the assistant message with their call, in the
\* transcript and in the log, whatever ends meanwhile.
FollowsItsCall(s) ==
    \A i \in 1..Len(s) : s[i].role = "toolResult" =>
        i > 1 /\ s[i - 1].role = "assistant" /\ s[i - 1].id = s[i].id
ToolResultsStayAttached == FollowsItsCall(messages) /\ FollowsItsCall(log)

\* prompt() does not fail because its own retry or compaction left a transcript
\* that cannot be continued.
NothingRejected == \A p \in Prompts : pc[p] # "rejected"

\* A bash result reaches the transcript once the session is quiescent.
Quiescent == phase = "idle" /\ \A p \in Prompts : pc[p] \in Settled
NoBashForgotten == Quiescent => pendingBash = <<>>

\* A message steered while a prompt() call is under way is delivered or cleared,
\* also when the run ends in an error, an abort or the tool loop guard.  A run that
\* compact() aborts is over for the session, which does not hear of its end.
UnderWay == \E p \in Prompts : pc[p] \in {"running", "post", "sleep", "compact"}
NoMessageLeftBehind ==
    \A m \in Steers : (m \in Range(queue) /\ UnderWay) ~> (m \notin Range(queue) \/ manuals > 0)

\* prompt() returns, however many retries and compactions it goes through, and so
\* does compact(): the run it waits for ends and wakes it up.
CallsReturn ==
    /\ \A p \in Prompts : (pc[p] # "idle") ~> (pc[p] \in {"done", "rejected"})
    /\ (manual # "idle") ~> (manual = "idle")

\* What the documentation says and the code does not keep; the README says with
\* which constants that is seen.

\* rpc.md: an abort that clears the queue "should leave the agent fully idle",
\* until somebody calls again.
ClearingAbortLeavesIdle == [][quiet /\ phase = "idle" => phase' = "idle"]_vars

\* sessions.md: "Sessions auto-save": at rest, every response has its entry.
ResponsesAreSaved ==
    Quiescent /\ manual = "idle" =>
        \A n \in 1..responses : \E i \in 1..Len(log) : log[i].role = "assistant" /\ log[i].id = n

=============================================================================
