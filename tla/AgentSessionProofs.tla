------------------------- MODULE AgentSessionProofs -------------------------
(***************************************************************************)
(* Proofs about AgentSession: the bash results that a run defers; what     *)
(* agent_end says of a retry; the types of the state; tool results beside  *)
(* the calls they answer; the transcript against the session's log;        *)
(* transcripts that agent.continue() refuses; and rows of errors.          *)
(***************************************************************************)
EXTENDS AgentSession, RecursionFacts, SequenceTheorems, FiniteSetTheorems

\* Where a call is while its loop of runs goes on.
Working == {"running", "post", "sleep", "compact"}
PC == {"idle", "build", "running", "post", "sleep", "compact", "done", "rejected"}
Stage == {"check", "settle", "main"}

\* A run is awaited by the call that has started it, and that call is in a loop of
\* runs whose end flushes what was deferred.
RunsAreAwaited ==
    /\ pc \in [Prompts -> PC] /\ stage \in [Prompts -> Stage]
    /\ phase # "idle" => owner \in Prompts /\ pc[owner] = "running" /\ stage[owner] # "check"

\* What is deferred is deferred for a call that will flush it.
BashInv ==
    /\ RunsAreAwaited
    /\ pendingBash # <<>> => \E p \in Prompts : pc[p] \in Working /\ stage[p] # "check"

-----------------------------------------------------------------------------
(* Operators that end a step.                                              *)

\* Where a run begins.
FirstPhase == {"prompt", "start", "inject"}

\* What a step of call p leaves of what was deferred: nothing; or all of it, for p
\* or for another call.
Flushed(p) ==
    /\ pc' \in [Prompts -> PC] /\ stage' \in [Prompts -> Stage]
    /\ \A q \in Prompts : q # p => pc'[q] = pc[q] /\ stage'[q] = stage[q]
    /\ pc'[p] # "post"
    /\ \/ pendingBash' = <<>>
       \/ pendingBash' = pendingBash /\ (stage[p] = "check" \/ pc[p] \notin Working)
       \/ pendingBash' = pendingBash /\ pc'[p] \in Working /\ stage'[p] # "check"

\* ... and the run: it goes on as it was, or is the one that p has started.
RunOf(p) ==
    \/ phase' = phase /\ owner' = owner /\ (phase = "idle" \/ pc[p] # "running")
    \/ phase = "idle" /\ phase' \in FirstPhase /\ owner' = p /\ pc'[p] = "running" /\ stage'[p] # "check"

\* A step of a call that flushes what was deferred, or stays in a loop that will, keeps
\* the invariant.
LEMMA CallKeepsBash ==
    ASSUME BashInv, NEW p \in Prompts, Flushed(p), RunOf(p)
    PROVE  BashInv'
<1>1. RunsAreAwaited'
  BY DEF BashInv, RunsAreAwaited, Flushed, RunOf
<1>2. ASSUME pendingBash' # <<>>
      PROVE  \E q \in Prompts : pc'[q] \in Working /\ stage'[q] # "check"
  <2>1. PICK q \in Prompts : pendingBash' = pendingBash => pc[q] \in Working /\ stage[q] # "check"
    BY <1>2 DEF BashInv
  <2>2. CASE q = p
    BY <1>2, <2>1, <2>2 DEF Flushed
  <2>3. CASE q # p
    BY <1>2, <2>1, <2>3 DEF Flushed
  <2> QED BY <2>2, <2>3
<1> QED BY <1>1, <1>2 DEF BashInv

\* The finally block of _runAgentPrompt leaves nothing deferred.
LEMMA LeaveFlushes ==
    ASSUME RunsAreAwaited, NEW p \in Prompts, NEW to \in PC \ {"post"}, NEW ms, NEW lg, Leave(p, to, ms, lg),
           pc[p] # "running"
    PROVE  Flushed(p) /\ RunOf(p)
BY DEF RunsAreAwaited, Leave, NoRunChange, Flushed, RunOf

\* Without a further run a call leaves through that block, unless it has started no run.
LEMMA GoOnFlushes ==
    ASSUME RunsAreAwaited, NEW p \in Prompts, NEW ms, NEW lg, GoOn(p, ms, lg), pc[p] # "running"
    PROVE  Flushed(p) /\ RunOf(p)
<1>1. CASE stage[p] = "check"
  BY <1>1 DEF RunsAreAwaited, GoOn, NoRunChange, Flushed, RunOf, PC
<1>2. CASE stage[p] = "settle"
  BY <1>2, LeaveFlushes DEF GoOn, PC
<1>3. CASE stage[p] = "main"
  BY <1>3, LeaveFlushes DEF GoOn, PC
<1> QED BY <1>1, <1>2, <1>3 DEF RunsAreAwaited, Stage

\* agent.continue() starts a run that the call awaits, or its rejection leaves through the
\* block.
LEMMA ContinueFlushes ==
    ASSUME RunsAreAwaited, NEW p \in Prompts, NEW ms, NEW lg, Continue(p, ms, lg), pc[p] # "running"
    PROVE  Flushed(p) /\ RunOf(p)
<1>1. CASE phase # "idle" \/ ms = <<>> \/ (EndsWith(ms, "assistant") /\ queue = <<>>)
  BY <1>1, LeaveFlushes DEF Continue, PC
<1>2. CASE ~(phase # "idle" \/ ms = <<>> \/ (EndsWith(ms, "assistant") /\ queue = <<>>))
  <2>1. /\ phase = "idle" /\ phase' \in FirstPhase /\ owner' = p
        /\ pc' = [pc EXCEPT ![p] = "running"]
        /\ stage' = [stage EXCEPT ![p] = IF stage[p] = "check" THEN "settle" ELSE stage[p]]
        /\ pendingBash' = pendingBash
    BY <1>2 DEF Continue, StartRun, FirstPhase
  <2> QED BY <2>1 DEF RunsAreAwaited, Flushed, RunOf, FirstPhase, PC, Stage, Working
<1> QED BY <1>1, <1>2

\* So does the end of _handlePostAgentRun, whatever is queued.
LEMMA ContinueIfQueuedFlushes ==
    ASSUME RunsAreAwaited, NEW p \in Prompts, NEW ms, NEW lg, ContinueIfQueued(p, ms, lg),
           pc[p] # "running"
    PROVE  Flushed(p) /\ RunOf(p)
BY GoOnFlushes, ContinueFlushes DEF ContinueIfQueued

\* An auto-compaction keeps its call in the loop it was in.
LEMMA BeginCompactionFlushes ==
    ASSUME RunsAreAwaited, NEW p \in Prompts, NEW verdict, NEW ms, NEW lg,
           BeginCompaction(p, verdict, ms, lg), pc[p] # "running",
           pendingBash' = <<>> \/ (pendingBash' = pendingBash /\ (stage[p] = "check" \/ pc[p] \in Working))
    PROVE  Flushed(p) /\ RunOf(p)
<1>1. /\ pc' = [pc EXCEPT ![p] = "compact"] /\ stage' = stage /\ phase' = phase /\ owner' = owner
  BY DEF BeginCompaction, NoRunChange
<1> QED BY <1>1 DEF RunsAreAwaited, Flushed, RunOf, PC, Working

\* _checkCompaction ends in a compaction or in what follows without one.
LEMMA CheckCompactionFlushes ==
    ASSUME RunsAreAwaited, NEW p \in Prompts, NEW a, CheckCompaction(p, a), pc[p] \in {"post", "sleep"}
    PROVE  Flushed(p) /\ RunOf(p)
<1>1. PICK verdict \in Verdicts(a, TRUE) :
         IF verdict # "none"
         THEN BeginCompaction(p, verdict, messages, log) /\ UNCHANGED pendingBash
         ELSE ContinueIfQueued(p, messages, log)
  BY DEF CheckCompaction
<1>2. CASE verdict # "none"
  BY <1>1, <1>2, BeginCompactionFlushes DEF Working
<1>3. CASE verdict = "none"
  BY <1>1, <1>3, ContinueIfQueuedFlushes
<1> QED BY <1>2, <1>3

-----------------------------------------------------------------------------

\* Every step of prompt(), from its call to its return, is one of those.
LEMMA CallFlushes ==
    ASSUME RunsAreAwaited, NEW p \in Prompts, QueuePrompt(p) \/ BeginPrompt(p) \/ PromptStep(p)
    PROVE  Flushed(p) /\ RunOf(p)
<1>1. CASE QueuePrompt(p)
  <2>1. /\ pc[p] = "idle" /\ phase # "idle" /\ pc' = [pc EXCEPT ![p] = "done"]
        /\ UNCHANGED <<phase, owner, stage, pendingBash>>
    BY <1>1 DEF QueuePrompt, sessionVars
  <2> QED BY <2>1 DEF RunsAreAwaited, Flushed, RunOf, PC, Working
<1>2. CASE BeginPrompt(p)
  <2>1. pc[p] = "idle" /\ phase = "idle" /\ pendingBash' = <<>>
    BY <1>2 DEF BeginPrompt
  <2>2. \/ /\ pc' = [pc EXCEPT ![p] = "build"] /\ stage' = stage /\ phase' = phase /\ owner' = owner
        \/ \E verdict : BeginCompaction(p, verdict, messages \o pendingBash, log \o pendingBash)
    BY <1>2 DEF BeginPrompt, NoRunChange
  <2> QED BY <2>1, <2>2, BeginCompactionFlushes DEF RunsAreAwaited, Flushed, RunOf, PC
<1>3. CASE SubmitPrompt(p)
  <2>1. pc[p] = "build"
    BY <1>3 DEF SubmitPrompt
  <2>2. CASE phase # "idle"
    <3>1. Leave(p, "rejected", messages, log)
      BY <1>3, <2>2 DEF SubmitPrompt
    <3> QED BY <2>1, <3>1, LeaveFlushes DEF PC
  <2>3. CASE phase = "idle"
    <3>1. /\ phase' \in FirstPhase /\ owner' = p /\ pc' = [pc EXCEPT ![p] = "running"]
          /\ stage' = [stage EXCEPT ![p] = "main"] /\ pendingBash' = pendingBash
      BY <1>3, <2>3 DEF SubmitPrompt, StartRun, FirstPhase
    <3> QED BY <2>1, <2>3, <3>1 DEF RunsAreAwaited, Flushed, RunOf, FirstPhase, PC, Stage, Working
  <2> QED BY <2>2, <2>3
<1>4. CASE NothingToHandle(p)
  <2>1. GoOn(p, messages, log) /\ pc[p] # "running"
    BY <1>4 DEF NothingToHandle
  <2> QED BY <2>1, GoOnFlushes
<1>5. CASE PrepareRetry(p)
  <2>1. /\ pc[p] = "post" /\ pc' = [pc EXCEPT ![p] = "sleep"]
        /\ UNCHANGED <<phase, owner, stage, pendingBash>>
    BY <1>5 DEF PrepareRetry, NoRunChange
  <2> QED BY <2>1 DEF RunsAreAwaited, Flushed, RunOf, FirstPhase, PC, Stage, Working
<1>6. CASE HandleRun(p)
  <2>1. pc[p] \in {"post", "sleep"} /\ \E a : CheckCompaction(p, a)
    BY <1>6 DEF HandleRun
  <2> QED BY <2>1, CheckCompactionFlushes
<1>7. CASE RetryNow(p)
  <2>1. Continue(p, messages, log) /\ pc[p] # "running"
    BY <1>7 DEF RetryNow, SleepOver
  <2> QED BY <2>1, ContinueFlushes
<1>8. CASE RetryCancelled(p)
  <2>1. pc[p] \in {"post", "sleep"} /\ \E a : CheckCompaction(p, a)
    BY <1>8 DEF RetryCancelled, SleepOver
  <2> QED BY <2>1, CheckCompactionFlushes
<1>9. CASE CompactionReturns(p)
  <2>1. /\ pc[p] # "running"
        /\ \E ms, lg : Continue(p, ms, lg) \/ ContinueIfQueued(p, ms, lg) \/ GoOn(p, ms, lg)
    BY <1>9 DEF CompactionReturns, CompactionSucceeds, CompactionFails
  <2> QED BY <2>1, ContinueFlushes, ContinueIfQueuedFlushes, GoOnFlushes
<1> QED BY <1>1, <1>2, <1>3, <1>4, <1>5, <1>6, <1>7, <1>8, <1>9 DEF PromptStep

\* Every step of the session keeps the invariant: bash results are deferred during a run
\* only, and a run has a call that awaits it in a loop that flushes.
LEMMA BashStep ==
    ASSUME BashInv, [Next]_vars
    PROVE  BashInv'
<1>1. ASSUME NEW p \in Prompts, QueuePrompt(p) \/ BeginPrompt(p) \/ PromptStep(p)
      PROVE  BashInv'
  <2>1. Flushed(p) /\ RunOf(p)
    BY <1>1, CallFlushes DEF BashInv
  <2> QED BY <2>1, CallKeepsBash
\* The run: it is awaited, and defers nothing by itself.
<1>2. CASE EmitPrompt \/ InitialPoll \/ Inject \/ Respond \/ ToolEnds \/ GuardStops
            \/ PollAfterTurn \/ PrepareTurn \/ CompactBeforeTurn \/ TurnCompactionEnds
  <2>1. phase # "idle" /\ UNCHANGED <<owner, pc, stage, pendingBash>>
    BY <1>2 DEF EmitPrompt, InitialPoll, Inject, Respond, ToolEnds, GuardStops, PollAfterTurn,
                 PrepareTurn, CompactBeforeTurn, TurnCompactionEnds, RunOnly, callVars, sessionVars
  <2> QED BY <2>1 DEF BashInv, RunsAreAwaited
<1>3. CASE RunEnds
  <2>1. /\ phase = "ending" /\ phase' = "idle" /\ pc' = [pc EXCEPT ![owner] = "post"]
        /\ UNCHANGED <<stage, pendingBash>>
    BY <1>3 DEF RunEnds, sessionVars
  <2> QED BY <2>1 DEF BashInv, RunsAreAwaited, PC, Working
<1>4. CASE BashEnds
  <2>1. /\ UNCHANGED <<phase, owner, pc, stage>>
        /\ phase = "idle" => pendingBash' = pendingBash
    BY <1>4 DEF BashEnds, NoRunChange, callVars
  <2> QED BY <2>1 DEF BashInv, RunsAreAwaited, Working
<1>5. CASE ManualStep \/ Steer \/ CompactCalled \/ (\E how \in Interrupt : Interrupted(how))
            \/ UNCHANGED vars
  <2>1. UNCHANGED <<phase, owner, pc, stage, pendingBash>>
    BY <1>5 DEF ManualStep, ManualBegins, ManualSucceeds, ManualFails, ManualOver, NoRunChange, Steer,
                 CompactCalled, Interrupted, agentVars, sessionVars, callVars, vars
  <2> QED BY <2>1 DEF BashInv, RunsAreAwaited
<1> QED BY <1>1, <1>2, <1>3, <1>4, <1>5 DEF Next, RunStep

\* recordBashResult defers a result while the agent runs and leaves it to _runAgentPrompt to
\* append it: once no run is active and no prompt() call is under way nothing is deferred,
\* however many calls overlap, are rejected, retried, compacted or interrupted by compact().
THEOREM BashResultsAreFlushed == Spec => []NoBashForgotten
<1>1. Init => BashInv
  BY DEF Init, BashInv, RunsAreAwaited, PC, Stage
<1>2. BashInv /\ [Next]_vars => BashInv'
  BY BashStep
<1>3. BashInv => NoBashForgotten
  BY DEF BashInv, NoBashForgotten, Quiescent, Settled, Working
<1> QED BY <1>1, <1>2, <1>3, PTL DEF Spec

-----------------------------------------------------------------------------
(* What agent_end says of a retry, when callers leave each other alone.    *)

\* Who has begun and not returned is the only one.
Alone == \A p, q \in Prompts : pc[p] \notin Settled /\ pc[q] \notin Settled => p = q

\* From its response to its end a run has the session's last response.
Answered == {"tool", "turnEnd", "toolsEnd", "prepare", "compacting", "ending"}
ResponseIsLast == phase \in Answered => lastAssistant = newest /\ newest.role = "assistant"

\* The session listens, and compact() is not called.
Listening == connected = TRUE /\ manual = "idle" /\ manuals = 0

RetryInv ==
    /\ BashInv
    /\ Listening /\ Alone /\ ResponseIsLast
    /\ retryAttempt \in Nat
    /\ WillRetryTellsTruth

\* While a run is active no call looks at the end of one.
LEMMA NobodyIsBehind ==
    ASSUME RunsAreAwaited, Alone, phase # "idle"
    PROVE  \A p \in Prompts : p # owner => pc[p] \in Settled
BY DEF RunsAreAwaited, Alone, Settled

\* A step of prompt() leaves no other call behind a run, and no run behind its response.
LEMMA CallKeepsRetry ==
    ASSUME RetryInv, NEW p \in Prompts, PromptStep(p)
    PROVE  Alone' /\ ResponseIsLast' /\ WillRetryTellsTruth'
<1>1. Flushed(p) /\ RunOf(p)
  BY CallFlushes DEF RetryInv, BashInv
<1>2. pc[p] \notin Settled /\ pc[p] # "running"
  BY DEF PromptStep, SubmitPrompt, NothingToHandle, PrepareRetry, HandleRun, RetryNow, RetryCancelled,
         SleepOver, CompactionReturns, CompactionSucceeds, CompactionFails, Settled
<1>3. phase = "idle"
  BY <1>2, NobodyIsBehind DEF RetryInv, BashInv, RunsAreAwaited
<1>4. \A q \in Prompts : q # p => pc'[q] = pc[q] /\ pc[q] \in Settled
  BY <1>1, <1>2 DEF RetryInv, Alone, Flushed
<1>5. Alone'
  BY <1>4 DEF Alone
<1>6. phase' \notin Answered
  BY <1>1, <1>3 DEF RunOf, FirstPhase, Answered
<1>7. \A q \in Prompts : pc'[q] # "post"
  BY <1>1, <1>4 DEF Flushed, Settled
<1> QED BY <1>5, <1>6, <1>7 DEF ResponseIsLast, WillRetryTellsTruth

\* Every step keeps the invariant, when callers wait for a call that is between its runs and
\* compact() is not called.
LEMMA RetryStep ==
    ASSUME Concurrent = FALSE, MaxManual = 0, RetryInv, [Next]_vars
    PROVE  RetryInv'
<1>0. BashInv' /\ RunsAreAwaited
  BY BashStep DEF RetryInv, BashInv
<1>1. ASSUME NEW p \in Prompts, PromptStep(p)
      PROVE  RetryInv'
  <2>1. Listening'
    BY <1>1 DEF RetryInv, Listening, PromptStep, SubmitPrompt, NothingToHandle, PrepareRetry, HandleRun,
                RetryNow, RetryCancelled, CompactionReturns, manualVars
  <2>2. retryAttempt' \in Nat
    BY <1>1 DEF RetryInv, PromptStep, SubmitPrompt, NothingToHandle, PrepareRetry, HandleRun,
                RetryNow, RetryCancelled, CompactionReturns
  <2> QED BY <1>0, <1>1, <2>1, <2>2, CallKeepsRetry DEF RetryInv
<1>2. ASSUME NEW p \in Prompts, QueuePrompt(p)
      PROVE  RetryInv'
  <2>1. /\ pc' = [pc EXCEPT ![p] = "done"]
        /\ UNCHANGED <<phase, connected, lastAssistant, retryAttempt, newest, manual, manuals, willRetry>>
    BY <1>2 DEF QueuePrompt, sessionVars, manualVars, budgetVars
  <2> QED BY <1>0, <2>1 DEF RetryInv, RunsAreAwaited, Listening, Alone, ResponseIsLast,
                            WillRetryTellsTruth, MayRetry, IsRetryableError, Settled
<1>3. ASSUME NEW p \in Prompts, BeginPrompt(p)
      PROVE  RetryInv'
  <2>1. /\ \A q \in Prompts : pc[q] \in Settled
        /\ phase = "idle"
        /\ UNCHANGED <<connected, retryAttempt, manual, manuals>>
    BY <1>3 DEF BeginPrompt, manualVars
  <2>2. \A q \in Prompts : q # p => pc'[q] = pc[q]
    BY <1>0, <1>3, CallFlushes DEF Flushed
  <2>3. pc'[p] # "post"
    BY <1>0, <1>3, CallFlushes DEF Flushed
  <2>4. phase' = "idle"
    BY <1>3, <2>1 DEF BeginPrompt, BeginCompaction, NoRunChange
  <2> QED BY <1>0, <2>1, <2>2, <2>3, <2>4
          DEF RetryInv, Listening, Alone, ResponseIsLast, Answered, WillRetryTellsTruth, Settled
<1>4. CASE Respond
  <2>1. /\ phase = "turn" /\ lastAssistant' = newest' /\ newest'.role = "assistant"
        /\ retryAttempt' \in Nat
        /\ UNCHANGED <<connected, manual, manuals, pc>>
    BY <1>4 DEF Respond, EmitAssistant, Assistant, RunOnly, RetryInv, Listening, callVars, manualVars
  <2>2. \A q \in Prompts : pc'[q] # "post"
    BY <1>0, <2>1, NobodyIsBehind DEF RetryInv, RunsAreAwaited, Settled
  <2> QED BY <1>0, <2>1, <2>2 DEF RetryInv, Listening, Alone, ResponseIsLast, WillRetryTellsTruth
<1>5. CASE EmitPrompt \/ InitialPoll \/ Inject \/ ToolEnds \/ GuardStops \/ PollAfterTurn
            \/ PrepareTurn \/ CompactBeforeTurn \/ TurnCompactionEnds
  <2>1. /\ phase' \in Answered => phase \in Answered
        /\ UNCHANGED <<connected, lastAssistant, retryAttempt, newest, manual, manuals, pc, willRetry>>
    BY <1>5 DEF EmitPrompt, InitialPoll, Inject, ToolEnds, GuardStops, PollAfterTurn, PrepareTurn,
                CompactBeforeTurn, TurnCompactionEnds, RunOnly, callVars, sessionVars, manualVars,
                budgetVars, histVars, Answered
  <2> QED BY <1>0, <2>1 DEF RetryInv, Listening, Alone, ResponseIsLast, WillRetryTellsTruth, MayRetry,
                            IsRetryableError
\* Both sides look at the same response and the same counter.
<1>6. CASE RunEnds
  <2>1. /\ phase = "ending" /\ phase' = "idle" /\ pc' = [pc EXCEPT ![owner] = "post"]
        /\ manual' = IF manual = "waiting" THEN "ready" ELSE manual
        /\ willRetry' = (connected /\ retryAttempt < MaxRetries /\ newest.stop = "retryable")
        /\ UNCHANGED <<connected, lastAssistant, retryAttempt, newest, manuals>>
    BY <1>6 DEF RunEnds, sessionVars, budgetVars, WillRetryAfterAgentEnd, IsRetryableError
  <2>2. lastAssistant = newest /\ newest # None
    BY <2>1 DEF RetryInv, ResponseIsLast, Answered, None
  <2>3. retryAttempt < MaxRetries <=> retryAttempt + 1 <= MaxRetries
    BY SessionBounds DEF RetryInv
  <2>4. WillRetryTellsTruth'
    BY <2>1, <2>2, <2>3 DEF RetryInv, Listening, WillRetryTellsTruth, MayRetry, IsRetryableError
  <2>5. Alone'
    BY <1>0, <2>1, NobodyIsBehind DEF RetryInv, RunsAreAwaited, Alone, Settled
  <2> QED BY <1>0, <2>1, <2>4, <2>5 DEF RetryInv, Listening, ResponseIsLast, Answered
<1>7. CASE Steer \/ BashEnds \/ (\E how \in Interrupt : Interrupted(how)) \/ UNCHANGED vars
  <2>1. UNCHANGED <<phase, connected, lastAssistant, retryAttempt, newest, manual, manuals, pc, willRetry>>
    BY <1>7 DEF Steer, BashEnds, Interrupted, NoRunChange, agentVars, sessionVars, callVars, manualVars,
                budgetVars, histVars, vars
  <2> QED BY <1>0, <2>1 DEF RetryInv, Listening, Alone, ResponseIsLast, WillRetryTellsTruth, MayRetry,
                            IsRetryableError
<1>8. CASE ManualStep \/ CompactCalled
  BY <1>8 DEF ManualStep, ManualBegins, ManualSucceeds, ManualFails, CompactCalled, RetryInv, Listening
<1> QED BY <1>1, <1>2, <1>3, <1>4, <1>5, <1>6, <1>7, <1>8 DEF Next, RunStep

\* The willRetry flag of agent_end (_willRetryAfterAgentEnd) and _prepareRetry decide alike,
\* although the second looks later, at another copy of the response, with another formula:
\* a retry is announced exactly when one is prepared.  Both hypotheses are needed: a second
\* call that looks at the end of the run first takes the session's last response, and during
\* compact() the session does not hear of the response.
THEOREM RetryIsAnnounced ==
    ASSUME Concurrent = FALSE, MaxManual = 0
    PROVE  Spec => []WillRetryTellsTruth
<1>1. Init => RetryInv
  BY DEF Init, RetryInv, BashInv, RunsAreAwaited, Listening, Alone, ResponseIsLast, Answered,
         WillRetryTellsTruth, Settled, PC, Stage
<1>2. RetryInv /\ [Next]_vars => RetryInv'
  BY RetryStep
<1>3. RetryInv => WillRetryTellsTruth
  BY DEF RetryInv
<1> QED BY <1>1, <1>2, <1>3, PTL DEF Spec

-----------------------------------------------------------------------------
(* Types.                                                                  *)

\* The entries a session makes: a response ends in one of the ways it may.
Given == {e \in Entry : e.role = "assistant" => e.stop \in Stops \cup {"stop", "aborted"}}
Answers == {e \in Given : e.role = "assistant"}
BashResults == {Bash(b) : b \in Bashes}

ControlOK ==
    /\ phase \in Phase /\ owner \in Prompts \cup {NoPrompt}
    /\ aborted \in BOOLEAN /\ connected \in BOOLEAN /\ recoveryTried \in BOOLEAN
    /\ manualCancelled \in BOOLEAN /\ willRetry \in BOOLEAN /\ quiet \in BOOLEAN
    /\ queue \in Seq(UserIds) /\ inflight \in Seq(UserIds)
    /\ lastAssistant \in Answers \cup {None} /\ newest \in Answers \cup {None}
    /\ handled \in [Prompts -> Answers \cup {None}]
    /\ retryAttempt \in 0..MaxRetries
    /\ retrySlot \in Calls \cup {NoPrompt} /\ autoSlot \in Calls \cup {NoPrompt}
    /\ cancelled \subseteq Calls \cup {NoPrompt}
    /\ responses \in Nat /\ compactedAt \in 0..responses
    /\ sent \subseteq Steers /\ bashed \subseteq Bashes

\* Each compact() succeeds once at most.
CompactionsOK ==
    /\ manual \in {"idle", "waiting", "ready", "summarizing"}
    /\ manuals \in 0..MaxManual /\ compactions \in Nat /\ (manual # "idle" => manuals > 0)
    /\ compactions + (IF manual = "idle" THEN 0 ELSE 1) <= MaxCompactions + manuals

\* Transcript and log, and where compactions under way will cut the log.
TextOK ==
    /\ messages \in Seq(Given) /\ log \in Seq(Given) /\ pendingBash \in Seq(BashResults)
    /\ compacting \in [Calls -> [retry : BOOLEAN, cut : Nat]]
    /\ \A c \in Calls : compacting[c].cut <= Len(log)
    /\ manualCut \in 0..Len(log) /\ (manual = "summarizing" => manualCut # 0)

SessionInv == RunsAreAwaited /\ ControlOK /\ CompactionsOK /\ TextOK

\* The entries by their roles.
LEMMA Roles ==
    /\ Given \subseteq Entry /\ Message \subseteq Entry /\ Answers \subseteq Message /\ None \notin Given
    /\ BashResults \subseteq Message /\ BashResults \subseteq Given
    /\ \A e \in Entry : /\ e.role \in {"user", "bash", "assistant", "toolResult", "compaction"}
                        /\ (e \in Message <=> e.role # "compaction")
                        /\ (e.role = "compaction" => e.kept \in Nat \ {0})
    /\ \A e \in BashResults : e.role = "bash"
<1>1. \A m : User(m).role = "user" /\ Bash(m).role = "bash" /\ ToolResult(m).role = "toolResult"
  BY DEF User, Bash, ToolResult
<1>2. \A e \in Message : e.role \in {"user", "bash", "assistant", "toolResult"}
  BY <1>1 DEF Message
<1>3. \A e \in Entry \ Message : e.role = "compaction" /\ e.kept \in Nat \ {0}
  BY DEF Entry
<1>4. Message \subseteq Entry /\ BashResults \subseteq Message
  BY DEF Entry, Message, BashResults
<1>5. \A e \in BashResults : e.role = "bash"
  BY <1>1 DEF BashResults
<1>6. None.role = "none"
  BY DEF None
<1>7. BashResults \subseteq Given /\ Answers \subseteq Message /\ None \notin Given
  BY <1>2, <1>3, <1>4, <1>5, <1>6 DEF Given, Answers
<1> QED BY <1>2, <1>3, <1>4, <1>5, <1>7 DEF Given

\* What makes entries makes these.
LEMMA Made ==
    /\ \A m \in UserIds : User(m) \in Given /\ User(m).role = "user"
    /\ \A b \in Bashes : Bash(b) \in BashResults
    /\ \A n \in Nat : ToolResult(n) \in Given /\ ToolResult(n).role = "toolResult" /\ ToolResult(n).id = n
    /\ \A n \in Nat, stop \in Stops \cup {"stop", "aborted"} :
          /\ Assistant(n, stop) \in Answers
          /\ Assistant(n, stop).stop = stop /\ Assistant(n, stop).id = n
    /\ \A k \in Nat \ {0} : Compaction(k) \in Given /\ Compaction(k).role = "compaction" /\ Compaction(k).kept = k
<1>1. \A m \in UserIds : User(m) \in Message /\ User(m).role = "user"
  BY DEF User, Message
<1>2. \A n \in Nat : ToolResult(n) \in Message /\ ToolResult(n).role = "toolResult" /\ ToolResult(n).id = n
  BY DEF ToolResult, Message
<1>3. Stops \cup {"stop", "aborted"} \subseteq Stop
  BY StopsAssumption DEF Stop
<1>4. \A n \in Nat, stop \in Stops \cup {"stop", "aborted"} :
          /\ Assistant(n, stop) \in Message /\ Assistant(n, stop).role = "assistant"
          /\ Assistant(n, stop).stop = stop /\ Assistant(n, stop).id = n
  BY <1>3 DEF Assistant, Message
<1>5. \A k \in Nat \ {0} : Compaction(k) \in Entry /\ Compaction(k).role = "compaction" /\ Compaction(k).kept = k
  BY DEF Compaction, Entry
<1> QED BY <1>1, <1>2, <1>4, <1>5, Roles DEF Given, Answers, BashResults

\* How a step of call p ends: with the transcript ms and the log lg as they are, or with
\* what was deferred behind both.
Ended(ms, lg) ==
    \/ messages' = ms /\ log' = lg /\ pendingBash' = pendingBash
    \/ messages' = ms \o pendingBash /\ log' = lg \o pendingBash /\ pendingBash' = <<>>

\* ... and the run goes on as it was, or a new one begins.
Started(p) ==
    \/ UNCHANGED <<phase, owner, aborted, queue, inflight>>
    \/ /\ phase' \in {"start", "inject"} /\ owner' = p /\ aborted' = FALSE
       /\ \/ queue' = queue /\ inflight' = <<>>
          \/ queue' = Unpolled /\ inflight' = Polled

\* All ways to end are like that.
LEMMA Endings ==
    ASSUME RunsAreAwaited, NEW p \in Prompts, NEW ms, NEW lg,
           GoOn(p, ms, lg) \/ Continue(p, ms, lg) \/ ContinueIfQueued(p, ms, lg) \/ \E to : Leave(p, to, ms, lg)
    PROVE  Ended(ms, lg) /\ Started(p)
<1>1. ASSUME NEW to, Leave(p, to, ms, lg)
      PROVE  Ended(ms, lg) /\ Started(p)
  BY <1>1 DEF Leave, NoRunChange, Ended, Started
<1>2. CASE GoOn(p, ms, lg)
  <2>1. stage[p] \in Stage
    BY DEF RunsAreAwaited
  <2>2. CASE stage[p] = "check"
    BY <1>2, <2>2 DEF GoOn, NoRunChange, Ended, Started
  <2>3. CASE stage[p] = "settle"
    BY <1>1, <1>2, <2>3 DEF GoOn
  <2>4. CASE stage[p] = "main"
    BY <1>1, <1>2, <2>4 DEF GoOn
  <2> QED BY <2>1, <2>2, <2>3, <2>4 DEF Stage
<1>3. CASE Continue(p, ms, lg)
  <2>1. CASE phase # "idle" \/ ms = <<>> \/ (EndsWith(ms, "assistant") /\ queue = <<>>)
    BY <1>1, <1>3, <2>1 DEF Continue
  <2>2. CASE ~(phase # "idle" \/ ms = <<>> \/ (EndsWith(ms, "assistant") /\ queue = <<>>))
    <3>1. messages' = ms /\ log' = lg /\ pendingBash' = pendingBash
      BY <1>3, <2>2 DEF Continue
    <3>2. Started(p)
      BY <1>3, <2>2 DEF Continue, StartRun, Started
    <3> QED BY <3>1, <3>2 DEF Ended
  <2> QED BY <2>1, <2>2
<1> QED BY <1>1, <1>2, <1>3 DEF ContinueIfQueued

\* What has been polled, and what has not, are messages.
LEMMA PolledTyped ==
    ASSUME queue \in Seq(UserIds)
    PROVE  Polled \in Seq(UserIds) /\ Unpolled \in Seq(UserIds)
BY DEF Polled, Unpolled

\* The run of a step that ends is one that may be.
LEMMA StartedTyped ==
    ASSUME ControlOK, NEW p \in Prompts, Started(p)
    PROVE  /\ phase' \in Phase /\ owner' \in Prompts \cup {NoPrompt} /\ aborted' \in BOOLEAN
           /\ queue' \in Seq(UserIds) /\ inflight' \in Seq(UserIds)
<1>1. queue \in Seq(UserIds) /\ <<>> \in Seq(UserIds)
  BY DEF ControlOK
<1>2. Polled \in Seq(UserIds) /\ Unpolled \in Seq(UserIds)
  BY <1>1, PolledTyped
<1>3. CASE UNCHANGED <<phase, owner, aborted, queue, inflight>>
  BY <1>3 DEF ControlOK
<1>4. CASE ~UNCHANGED <<phase, owner, aborted, queue, inflight>>
  <2>1. /\ phase' \in {"start", "inject"} /\ owner' = p /\ aborted' = FALSE
        /\ \/ queue' = queue /\ inflight' = <<>>
           \/ queue' = Unpolled /\ inflight' = Polled
    BY <1>4 DEF Started
  <2> QED BY <1>1, <1>2, <2>1 DEF Phase
<1> QED BY <1>3, <1>4

\* _checkCompaction begins a compaction, or the step ends.
Begun(p, a, skip, ms, lg) ==
    \E verdict \in Verdicts(a, skip) \ {"none"} : BeginCompaction(p, verdict, ms, lg)

\* So _checkCompaction, called after a run, either begins a compaction or ends the step.
LEMMA Checked ==
    ASSUME RunsAreAwaited, NEW p \in Prompts, NEW a, CheckCompaction(p, a)
    PROVE  \/ Begun(p, a, TRUE, messages, log) /\ pendingBash' = pendingBash
           \/ Ended(messages, log) /\ Started(p) /\ UNCHANGED <<recoveryTried, compacting, autoSlot>>
<1>1. PICK verdict \in Verdicts(a, TRUE) :
        IF verdict # "none"
        THEN BeginCompaction(p, verdict, messages, log) /\ UNCHANGED pendingBash
        ELSE ContinueIfQueued(p, messages, log) /\ UNCHANGED <<recoveryTried, compacting, autoSlot>>
  BY DEF CheckCompaction
<1>2. CASE verdict # "none"
  BY <1>1, <1>2 DEF Begun
<1>3. CASE verdict = "none"
  BY <1>1, <1>3, Endings
<1> QED BY <1>2, <1>3

\* A compaction that begins does not touch the run.
LEMMA BegunControl ==
    ASSUME ControlOK, NEW p \in Prompts, NEW verdict, NEW ms, NEW lg, BeginCompaction(p, verdict, ms, lg)
    PROVE  /\ UNCHANGED <<phase, owner, aborted, queue, inflight>>
           /\ recoveryTried' \in BOOLEAN /\ autoSlot' \in Calls \cup {NoPrompt}
<1>1. recoveryTried' = (recoveryTried \/ verdict = "recover") /\ autoSlot' = p /\ NoRunChange
  BY DEF BeginCompaction
<1>2. recoveryTried' \in BOOLEAN
  BY <1>1, Zenon
<1> QED BY <1>1, <1>2 DEF NoRunChange, Calls

\* A step of the run keeps the ranges of the variables.
LEMMA RunControl ==
    ASSUME RunsAreAwaited, ControlOK, RunStep
    PROVE  ControlOK'
<1>1. CASE EmitPrompt \/ Inject
  <2>1. recoveryTried' \in BOOLEAN /\ phase' \in Phase
    BY <1>1 DEF EmitPrompt, Inject, EmitUsers, ControlOK, Phase
  <2>2. <<>> \in Seq(UserIds)
    OBVIOUS
  <2>3. /\ inflight' = <<>> /\ RunOnly
        /\ UNCHANGED <<queue, lastAssistant, retryAttempt, budgetVars, willRetry>>
    BY <1>1 DEF EmitPrompt, Inject
  <2> QED BY <2>1, <2>2, <2>3 DEF RunOnly, callVars, manualVars, budgetVars, ControlOK
<1>2. CASE InitialPoll \/ GuardStops \/ PollAfterTurn \/ PrepareTurn
  <2>1. /\ UNCHANGED <<inflight, queue>> \/ Poll
        /\ phase' \in {"inject", "ending", "prepare"}
    BY <1>2 DEF InitialPoll, GuardStops, PollAfterTurn, PrepareTurn, PollIfNothingPolled
  <2>2. queue' \in Seq(UserIds) /\ inflight' \in Seq(UserIds)
    BY <2>1, PolledTyped DEF Poll, ControlOK
  <2>3. /\ RunOnly
        /\ UNCHANGED <<messages, log, lastAssistant, retryAttempt, recoveryTried, budgetVars, willRetry>>
    BY <1>2 DEF InitialPoll, GuardStops, PollAfterTurn, PrepareTurn
  <2> QED BY <2>1, <2>2, <2>3 DEF RunOnly, callVars, manualVars, budgetVars, ControlOK, Phase
<1>3. CASE Respond
  <2>1. PICK stop \in Stops \cup {"stop", "aborted"} :
           /\ newest' = Assistant(responses + 1, stop)
           /\ EmitAssistant(newest')
    BY <1>3 DEF Respond
  <2>2. /\ responses' = responses + 1 /\ RunOnly
        /\ UNCHANGED <<queue, inflight, compactions, sent, bashed, compactedAt, willRetry>>
        /\ phase' \in {"tool", "ending", "turnEnd"}
    BY <1>3 DEF Respond
  <2>3. newest' \in Answers /\ responses' \in Nat /\ compactedAt' \in 0..responses'
    BY <2>1, <2>2, Made DEF ControlOK
  <2>4. /\ lastAssistant' \in Answers \cup {None}
        /\ retryAttempt' \in 0..MaxRetries
    BY <2>1, <2>3, SessionBounds DEF EmitAssistant, ControlOK
  <2>5. recoveryTried' \in BOOLEAN
    <3>1. recoveryTried' = recoveryTried \/ recoveryTried' = (recoveryTried /\ IsError(newest'.stop))
      BY <2>1 DEF EmitAssistant
    <3>2. CASE recoveryTried' = recoveryTried
      BY <3>2 DEF ControlOK
    <3>3. CASE recoveryTried' = (recoveryTried /\ IsError(newest'.stop))
      BY <3>3, Zenon
    <3> QED BY <3>1, <3>2, <3>3
  <2> QED BY <2>2, <2>3, <2>4, <2>5 DEF RunOnly, callVars, manualVars, ControlOK, Phase
<1>4. CASE ToolEnds
  BY <1>4 DEF ToolEnds, RunOnly, callVars, manualVars, budgetVars, ControlOK, Phase
<1>5. CASE CompactBeforeTurn
  BY <1>5 DEF CompactBeforeTurn, sessionVars, manualVars, budgetVars, histVars, ControlOK, Phase, Calls
<1>6. CASE TurnCompactionEnds
  <2>1. UNCHANGED <<inflight, queue>> \/ Poll
    BY <1>6 DEF TurnCompactionEnds, PollIfNothingPolled
  <2>2. queue' \in Seq(UserIds) /\ inflight' \in Seq(UserIds)
    BY <2>1, PolledTyped DEF Poll, ControlOK
  <2>3. compactedAt' \in 0..responses
    BY <1>6 DEF TurnCompactionEnds, Compacts, DoesNotCompact, ControlOK
  <2>4. autoSlot' = NoPrompt /\ cancelled' \subseteq cancelled /\ phase' = "inject"
    BY <1>6 DEF TurnCompactionEnds, CompactionOver
  <2> QED BY <1>6, <2>2, <2>3, <2>4 DEF TurnCompactionEnds, manualVars, histVars, ControlOK, Phase
<1>7. CASE RunEnds
  <2>1. willRetry' \in BOOLEAN
    BY <1>7 DEF RunEnds
  <2> QED BY <1>7, <2>1 DEF RunEnds, sessionVars, budgetVars, ControlOK, Phase
<1> QED BY <1>1, <1>2, <1>3, <1>4, <1>5, <1>6, <1>7 DEF RunStep

\* So does a step of prompt().
LEMMA CallControl ==
    ASSUME RunsAreAwaited, ControlOK, NEW p \in Prompts, QueuePrompt(p) \/ BeginPrompt(p) \/ PromptStep(p)
    PROVE  ControlOK'
<1>0. p \in UserIds /\ p \in Calls
  BY DEF UserIds, Calls
<1>1. CASE QueuePrompt(p)
  <2>1. queue' \in Seq(UserIds)
    BY <1>0, <1>1 DEF QueuePrompt, ControlOK
  <2> QED BY <1>1, <2>1 DEF QueuePrompt, sessionVars, manualVars, budgetVars, ControlOK
<1>2. CASE BeginPrompt(p)
  <2>1. /\ UNCHANGED <<phase, owner, aborted, queue, inflight>>
        /\ recoveryTried' \in BOOLEAN /\ autoSlot' \in Calls \cup {NoPrompt}
    <3>1. \/ NoRunChange /\ UNCHANGED <<recoveryTried, autoSlot>>
          \/ \E verdict : BeginCompaction(p, verdict, messages \o pendingBash, log \o pendingBash)
      BY <1>2 DEF BeginPrompt
    <3>2. CASE NoRunChange /\ UNCHANGED <<recoveryTried, autoSlot>>
      BY <3>2 DEF NoRunChange, ControlOK
    <3> QED BY <3>1, <3>2, BegunControl
  <2> QED BY <1>2, <2>1 DEF BeginPrompt, manualVars, budgetVars, ControlOK
<1>3. CASE SubmitPrompt(p)
  <2>1. CASE phase # "idle"
    <3>1. Started(p)
      BY <1>3, <2>1, Endings DEF SubmitPrompt
    <3> QED BY <1>3, <3>1, StartedTyped DEF SubmitPrompt, manualVars, budgetVars, histVars, ControlOK
  <2>2. CASE phase = "idle"
    <3>1. <<p>> \in Seq(UserIds)
      BY <1>0
    <3>2. phase' = "prompt" /\ owner' = p /\ aborted' = FALSE /\ inflight' = <<p>> /\ queue' = queue
      BY <1>3, <2>2 DEF SubmitPrompt, StartRun
    <3> QED BY <1>3, <3>1, <3>2 DEF SubmitPrompt, manualVars, budgetVars, histVars, ControlOK, Phase
  <2> QED BY <2>1, <2>2
<1>4. CASE NothingToHandle(p)
  <2>1. Started(p)
    BY <1>4, Endings DEF NothingToHandle
  <2> QED BY <1>4, <2>1, StartedTyped DEF NothingToHandle, manualVars, budgetVars, histVars, ControlOK
<1>5. CASE PrepareRetry(p)
  <2>1. retryAttempt' \in 0..MaxRetries
    BY <1>5, SessionBounds DEF PrepareRetry, MayRetry, ControlOK
  <2>2. handled' \in [Prompts -> Answers \cup {None}]
    BY <1>5 DEF PrepareRetry, ControlOK
  <2> QED BY <1>0, <1>5, <2>1, <2>2
          DEF PrepareRetry, NoRunChange, manualVars, budgetVars, histVars, ControlOK
<1>6. ASSUME NEW a, CheckCompaction(p, a)
      PROVE  /\ phase' \in Phase /\ owner' \in Prompts \cup {NoPrompt} /\ aborted' \in BOOLEAN
             /\ queue' \in Seq(UserIds) /\ inflight' \in Seq(UserIds)
             /\ recoveryTried' \in BOOLEAN /\ autoSlot' \in Calls \cup {NoPrompt}
  <2>1. \/ Begun(p, a, TRUE, messages, log)
        \/ Started(p) /\ UNCHANGED <<recoveryTried, autoSlot>>
    BY <1>6, Checked
  <2>2. CASE Begun(p, a, TRUE, messages, log)
    BY <2>2, BegunControl DEF Begun, ControlOK
  <2>3. CASE Started(p) /\ UNCHANGED <<recoveryTried, autoSlot>>
    BY <2>3, StartedTyped DEF ControlOK
  <2> QED BY <2>1, <2>2, <2>3
<1>7. CASE HandleRun(p)
  <2>1. CheckCompaction(p, lastAssistant) /\ retryAttempt' \in 0..MaxRetries /\ lastAssistant' = None
    BY <1>7, SessionBounds DEF HandleRun, ControlOK
  <2> QED BY <1>6, <1>7, <2>1 DEF HandleRun, manualVars, budgetVars, ControlOK
<1>8. CASE RetryNow(p)
  <2>1. Started(p) /\ retrySlot' = NoPrompt
    BY <1>8, Endings DEF RetryNow, SleepOver
  <2>2. handled' \in [Prompts -> Answers \cup {None}]
    BY <1>8 DEF RetryNow, SleepOver, ControlOK
  <2> QED BY <1>8, <2>1, <2>2, StartedTyped DEF RetryNow, manualVars, budgetVars, histVars, ControlOK
<1>9. CASE RetryCancelled(p)
  <2>1. /\ CheckCompaction(p, handled[p]) /\ retrySlot' = NoPrompt /\ cancelled' \subseteq cancelled
        /\ retryAttempt' \in 0..MaxRetries
    BY <1>9, SessionBounds DEF RetryCancelled, SleepOver
  <2>2. handled' \in [Prompts -> Answers \cup {None}]
    BY <1>9 DEF RetryCancelled, SleepOver, ControlOK
  <2> QED BY <1>6, <1>9, <2>1, <2>2 DEF RetryCancelled, manualVars, budgetVars, ControlOK
<1>10. CASE CompactionReturns(p)
  <2>1. Started(p)
    <3>1. \E ms, lg : Continue(p, ms, lg) \/ ContinueIfQueued(p, ms, lg) \/ GoOn(p, ms, lg)
      BY <1>10 DEF CompactionReturns, CompactionSucceeds, CompactionFails
    <3> QED BY <3>1, Endings
  <2>2. compactedAt' \in 0..responses
    BY <1>10 DEF CompactionReturns, CompactionSucceeds, CompactionFails, Compacts, DoesNotCompact, ControlOK
  <2>3. autoSlot' = NoPrompt /\ cancelled' \subseteq cancelled
    BY <1>10 DEF CompactionReturns, CompactionOver
  <2> QED BY <1>10, <2>1, <2>2, <2>3, StartedTyped DEF CompactionReturns, manualVars, histVars, ControlOK
<1> QED BY <1>1, <1>2, <1>3, <1>4, <1>5, <1>7, <1>8, <1>9, <1>10 DEF PromptStep

\* Every step does.
LEMMA ControlStep ==
    ASSUME RunsAreAwaited, ControlOK, [Next]_vars
    PROVE  ControlOK'
<1>1. CASE Steer
  <2>1. queue' \in Seq(UserIds) /\ sent' \subseteq Steers
    BY <1>1 DEF Steer, UserIds, ControlOK
  <2> QED BY <1>1, <2>1 DEF Steer, sessionVars, callVars, manualVars, ControlOK
<1>2. CASE BashEnds
  BY <1>2 DEF BashEnds, NoRunChange, callVars, manualVars, histVars, ControlOK
<1>3. AbortAll => aborted' \in BOOLEAN /\ cancelled' \subseteq Calls \cup {NoPrompt}
  BY DEF AbortAll, ControlOK
<1>4. ASSUME NEW how \in Interrupt, Interrupted(how)
      PROVE  ControlOK'
  <2>1. queue' \in Seq(UserIds)
    <3>1. <<>> \in Seq(UserIds)
      OBVIOUS
    <3> QED BY <1>4, <3>1 DEF Interrupted, ControlOK
  <2>2. aborted' \in BOOLEAN /\ cancelled' \subseteq Calls \cup {NoPrompt} /\ manualCancelled' \in BOOLEAN
    <3>1. CASE how = "clear"
      BY <1>4, <3>1 DEF Interrupted, ControlOK
    <3>2. CASE how # "clear"
      <4>1. AbortAll /\ manualCancelled' = (manual \in {"ready", "summarizing"})
        BY <1>4, <3>2 DEF Interrupted
      <4>2. manualCancelled' \in BOOLEAN
        <5>1. CASE manual \in {"ready", "summarizing"}
          BY <4>1, <5>1
        <5>2. CASE manual \notin {"ready", "summarizing"}
          BY <4>1, <5>2
        <5> QED BY <5>1, <5>2
      <4> QED BY <1>3, <4>1, <4>2
    <3> QED BY <3>1, <3>2
  <2>3. quiet' \in BOOLEAN
    BY <1>4, Zenon DEF Interrupted
  <2> QED BY <1>4, <2>1, <2>2, <2>3 DEF Interrupted, sessionVars, budgetVars, ControlOK
<1>5. CASE CompactCalled
  BY <1>3, <1>5 DEF CompactCalled, budgetVars, ControlOK
<1>6. CASE ManualStep
  <2>1. CASE ManualBegins
    BY <2>1 DEF ManualBegins, agentVars, sessionVars, callVars, budgetVars, histVars, ControlOK
  <2>2. CASE ManualSucceeds \/ ManualFails
    <3>1. ManualOver /\ compactedAt' \in 0..responses
      BY <2>2 DEF ManualSucceeds, ManualFails, ControlOK
    <3> QED BY <3>1 DEF ManualOver, NoRunChange, callVars, histVars, ControlOK
  <2> QED BY <1>6, <2>1, <2>2 DEF ManualStep
<1>7. CASE UNCHANGED vars
  BY <1>7 DEF vars, agentVars, sessionVars, callVars, manualVars, budgetVars, histVars, ControlOK
<1> QED BY <1>1, <1>2, <1>4, <1>5, <1>6, <1>7, RunControl, CallControl DEF Next

\* No more compactions succeed than there may.
LEMMA CompactionsStep ==
    ASSUME CompactionsOK, [Next]_vars
    PROVE  CompactionsOK'
<1>0. MaxCompactions \in Nat /\ MaxManual \in Nat
  BY SessionBounds
<1>1. CASE RunStep \/ (\E p \in Prompts : QueuePrompt(p) \/ BeginPrompt(p) \/ PromptStep(p))
            \/ Steer \/ BashEnds \/ (\E how \in Interrupt : Interrupted(how)) \/ UNCHANGED vars
  <2>1. compactions' = compactions \/ (compactions < MaxCompactions /\ compactions' = compactions + 1)
    BY <1>1 DEF RunStep, EmitPrompt, InitialPoll, Inject, Respond, ToolEnds, GuardStops, PollAfterTurn,
                PrepareTurn, CompactBeforeTurn, TurnCompactionEnds, RunEnds, QueuePrompt, BeginPrompt,
                PromptStep, SubmitPrompt, NothingToHandle, PrepareRetry, HandleRun, RetryNow, RetryCancelled,
                CompactionReturns, CompactionSucceeds, CompactionFails, Compacts, DoesNotCompact,
                Steer, BashEnds, Interrupted, vars, budgetVars
  <2>2. manuals' = manuals /\ (manual' = manual \/ (manual = "waiting" /\ manual' = "ready"))
    BY <1>1 DEF RunStep, EmitPrompt, InitialPoll, Inject, Respond, ToolEnds, GuardStops, PollAfterTurn,
                PrepareTurn, CompactBeforeTurn, TurnCompactionEnds, RunEnds, RunOnly, QueuePrompt, BeginPrompt,
                PromptStep, SubmitPrompt, NothingToHandle, PrepareRetry, HandleRun, RetryNow, RetryCancelled,
                CompactionReturns, Steer, BashEnds, Interrupted, vars, manualVars
  <2>3. manual = "idle" <=> manual' = "idle"
    BY <2>2
  <2>4. CASE manual = "idle"
    BY <1>0, <2>1, <2>2, <2>3, <2>4 DEF CompactionsOK
  <2>5. CASE manual # "idle"
    BY <1>0, <2>1, <2>2, <2>3, <2>5 DEF CompactionsOK
  <2> QED BY <2>4, <2>5
<1>2. CASE CompactCalled
  BY <1>0, <1>2 DEF CompactCalled, budgetVars, CompactionsOK
<1>3. CASE ManualBegins
  BY <1>0, <1>3 DEF ManualBegins, budgetVars, CompactionsOK
<1>4. CASE ManualSucceeds
  BY <1>0, <1>4 DEF ManualSucceeds, ManualOver, CompactionsOK
<1>5. CASE ManualFails
  BY <1>0, <1>5 DEF ManualFails, ManualOver, CompactionsOK
<1> QED BY <1>1, <1>2, <1>3, <1>4, <1>5 DEF Next, ManualStep

-----------------------------------------------------------------------------
(* The rebuilt transcript.                                                 *)

\* The latest compaction has none behind it.
LEMMA LatestIs ==
    ASSUME NEW es \in Seq(Given)
    PROVE  /\ LatestCompaction(es) \in 0..Len(es)
           /\ LatestCompaction(es) # 0 => es[LatestCompaction(es)].role = "compaction"
           /\ \A i \in 1..Len(es) : es[i].role = "compaction" => i <= LatestCompaction(es)
<1> DEFINE n == Len(es)
           I == {i \in 1..n : es[i].role = "compaction"}
<1>1. n \in Nat
  OBVIOUS
<1>2. LatestCompaction(es) = IF I # {} THEN Max(I) ELSE 0
  BY DEF LatestCompaction, SelectLastInSeq
<1>3. CASE I = {}
  BY <1>1, <1>2, <1>3
<1>4. CASE I # {}
  <2> DEFINE T == {n - i : i \in I}
  <2>1. T \in SUBSET Nat /\ T # {}
    BY <1>1, <1>4
  <2>2. PICK m \in T : \A k \in T : m <= k
    BY <2>1, Least
  <2>3. \E x \in I : \A y \in I : x >= y
    <3>1. PICK x \in I : m = n - x
      BY <2>2
    <3>2. \A y \in I : n - x <= n - y
      BY <2>2, <3>1
    <3> QED BY <1>1, <3>2
  <2>4. Max(I) \in I /\ \A y \in I : Max(I) >= y
    BY <2>3 DEF Max
  <2> QED BY <1>1, <1>2, <1>4, <2>4
<1> QED BY <1>3, <1>4

\* It is the only thing that says so.
LEMMA LatestUnique ==
    ASSUME NEW es \in Seq(Given), NEW c \in 0..Len(es), c # 0 => es[c].role = "compaction",
           \A i \in 1..Len(es) : es[i].role = "compaction" => i <= c
    PROVE  LatestCompaction(es) = c
<1> DEFINE d == LatestCompaction(es)
<1>1. /\ d \in 0..Len(es) /\ (d # 0 => es[d].role = "compaction")
      /\ \A i \in 1..Len(es) : es[i].role = "compaction" => i <= d
  BY LatestIs
<1>2. Len(es) \in Nat
  OBVIOUS
<1> HIDE DEF d
<1>3. d = c
  BY <1>1, <1>2
<1> QED BY <1>3 DEF d

\* A part of a sequence.
LEMMA Parts ==
    ASSUME NEW T, NEW s \in Seq(T), NEW i \in Nat \ {0}, NEW j \in Nat, j <= Len(s)
    PROVE  /\ SubSeq(s, i, j) \in Seq(T)
           /\ Len(SubSeq(s, i, j)) = IF i <= j THEN j - i + 1 ELSE 0
           /\ \A k \in 1..Len(SubSeq(s, i, j)) : SubSeq(s, i, j)[k] = s[i + k - 1]
<1> DEFINE t == [k \in 1..(j - i + 1) |-> s[i + k - 1]]
<1>1. SubSeq(s, i, j) = t
  OBVIOUS
<1>2. CASE i <= j
  <2>1. j - i + 1 \in Nat /\ \A k \in 1..(j - i + 1) : i + k - 1 \in 1..Len(s)
    BY <1>2
  <2>2. t \in Seq(T) /\ Len(t) = j - i + 1
    BY <2>1
  <2> QED BY <1>1, <1>2, <2>2
<1>3. CASE i > j
  <2>1. 1..(j - i + 1) = {}
    BY <1>3
  <2>2. t = <<>>
    BY <2>1
  <2> DEFINE u == SubSeq(s, i, j)
  <2>3. u = <<>>
    BY <1>1, <2>2
  <2> HIDE DEF u
  <2>4. u \in Seq(T) /\ Len(u) = 0 /\ 1..0 = {}
    BY <2>3
  <2>5. u \in Seq(T) /\ Len(u) = 0 /\ \A k \in 1..Len(u) : u[k] = s[i + k - 1]
    BY <2>4
  <2> QED BY <1>3, <2>5 DEF u
<1> QED BY <1>2, <1>3

\* Two sequences in a row.
LEMMA Joined ==
    ASSUME NEW T, NEW a \in Seq(T), NEW b \in Seq(T)
    PROVE  /\ a \o b \in Seq(T) /\ Len(a \o b) = Len(a) + Len(b)
           /\ \A i \in 1..Len(a) : (a \o b)[i] = a[i]
           /\ \A i \in 1..Len(b) : (a \o b)[Len(a) + i] = b[i]
OBVIOUS

\* One element more.
LEMMA Appended ==
    ASSUME NEW T, NEW a \in Seq(T), NEW x \in T
    PROVE  /\ Append(a, x) \in Seq(T) /\ Len(Append(a, x)) = Len(a) + 1
           /\ \A i \in 1..Len(a) : Append(a, x)[i] = a[i]
           /\ Append(a, x)[Len(a) + 1] = x /\ Last(Append(a, x)) = x
           /\ Append(a, x) # <<>> /\ Front(Append(a, x)) = a
<1> DEFINE t == Append(a, x)
           n == Len(a)
<1>1. /\ n \in Nat /\ t \in Seq(T) /\ Len(t) = n + 1 /\ t[n + 1] = x /\ t # <<>>
      /\ \A i \in 1..n : t[i] = a[i]
  OBVIOUS
<1>2. Last(t) = x
  <2> HIDE DEF t
  <2> QED BY <1>1 DEF Last
<1>3. Front(t) = a
  <2> DEFINE f == [k \in 1..n |-> t[k]]
  <2> HIDE DEF t
  <2>1. f \in Seq(T) /\ Len(f) = n /\ \A k \in 1..n : f[k] = a[k]
    BY <1>1
  <2>2. Front(t) = f
    BY <1>1 DEF Front
  <2> HIDE DEF f
  <2>3. f = a
    BY <2>1
  <2> QED BY <2>2, <2>3
<1> QED BY <1>1, <1>2, <1>3

\* All but the last.
LEMMA Fronts ==
    ASSUME NEW T, NEW a \in Seq(T), a # <<>>
    PROVE  /\ Front(a) \in Seq(T) /\ Len(Front(a)) = Len(a) - 1 /\ Len(a) \in Nat \ {0}
           /\ \A i \in 1..(Len(a) - 1) : Front(a)[i] = a[i]
           /\ Last(a) = a[Len(a)] /\ Last(a) \in T /\ a = Append(Front(a), Last(a))
<1>1. Len(a) \in Nat \ {0}
  OBVIOUS
<1>2. /\ Front(a) \in Seq(T) /\ Len(Front(a)) = Len(a) - 1
      /\ \A i \in 1..(Len(a) - 1) : Front(a)[i] = a[i]
  <2> DEFINE n == Len(a) - 1
             t == [k \in 1..n |-> a[k]]
  <2>1. n \in Nat /\ \A k \in 1..n : k \in 1..Len(a)
    BY <1>1
  <2>2. t \in Seq(T) /\ Len(t) = n
    BY <2>1
  <2>3. Front(a) = t
    BY <1>1 DEF Front
  <2> QED BY <2>2, <2>3
<1>3. Last(a) = a[Len(a)] /\ Last(a) \in T
  BY <1>1 DEF Last
<1>4. a = Append(Front(a), Last(a))
  <2> DEFINE f == Front(a)
             x == Last(a)
             n == Len(a)
  <2>1. f \in Seq(T) /\ x \in T /\ Len(f) = n - 1 /\ n \in Nat \ {0} /\ x = a[n]
        /\ \A i \in 1..(n - 1) : f[i] = a[i]
    BY <1>1, <1>2, <1>3
  <2> HIDE DEF f, x
  <2>2. Len(Append(f, x)) = n /\ \A i \in 1..n : Append(f, x)[i] = a[i]
    BY <2>1
  <2>3. Append(f, x) \in Seq(T)
    BY <2>1
  <2> HIDE DEF n
  <2>4. a = Append(f, x)
    <3> DEFINE g == Append(f, x)
    <3>1. g \in Seq(T) /\ Len(g) = Len(a) /\ \A i \in 1..Len(a) : g[i] = a[i]
      BY <2>2, <2>3 DEF n
    <3> HIDE DEF g
    <3>2. a = g
      BY <3>1
    <3> QED BY <3>2 DEF g
  <2> QED BY <2>4 DEF f, x
<1> QED BY <1>1, <1>2, <1>3, <1>4

\* What is rebuilt of the log are entries.
LEMMA BuildTyped ==
    ASSUME NEW es \in Seq(Given)
    PROVE  BuildSessionContext(es) \in Seq(Given)
<1> DEFINE c == LatestCompaction(es)
<1>1. c \in 0..Len(es) /\ (c # 0 => es[c].role = "compaction") /\ Len(es) \in Nat
  BY LatestIs
<1>2. CASE c = 0
  BY <1>2 DEF BuildSessionContext
<1>3. CASE c # 0
  <2>1. es[c] \in Given /\ es[c].kept \in Nat \ {0} /\ c - 1 \in Nat /\ c + 1 \in Nat \ {0} /\ c - 1 <= Len(es)
    BY <1>1, <1>3, Roles
  <2> DEFINE a == SubSeq(es, es[c].kept, c - 1)
             b == SubSeq(es, c + 1, Len(es))
             k == Kept(a, Message)
  <2>2. a \in Seq(Given) /\ b \in Seq(Given)
    BY <1>1, <2>1, Parts
  <2>3. k \in Seq(Given)
    BY <2>2, KeptElements
  <2>4. BuildSessionContext(es) = <<es[c]>> \o k \o b
    BY <1>3 DEF BuildSessionContext
  <2> DEFINE h == <<es[c]>>
  <2>5. h \in Seq(Given)
    BY <2>1
  <2> HIDE DEF a, b, k, h
  <2>6. h \o k \in Seq(Given)
    BY <2>3, <2>5, Joined
  <2>7. (h \o k) \o b \in Seq(Given)
    BY <2>2, <2>6, Joined
  <2> QED BY <2>4, <2>7 DEF h
<1> QED BY <1>2, <1>3

-----------------------------------------------------------------------------
(* What a step does to transcript and log.                                 *)

\* The log is only ever added to.
Grows(lg, longer) == Len(lg) <= Len(longer) /\ \A i \in 1..Len(lg) : longer[i] = lg[i]

\* What is added to at its end has grown, and growing twice is growing.
LEMMA Growth ==
    ASSUME NEW T, NEW a \in Seq(T)
    PROVE  /\ Grows(a, a) /\ \A b \in Seq(T) : Grows(a, a \o b)
           /\ \A x \in T : Grows(a, Append(a, x))
           /\ \A b \in Seq(T), c \in Seq(T) : Grows(a, b) /\ Grows(b, c) => Grows(a, c)
<1>1. \A b \in Seq(T) : Grows(a, a \o b)
  <2>1. TAKE b \in Seq(T)
  <2>2. Len(a) \in Nat /\ Len(b) \in Nat
    OBVIOUS
  <2> QED BY <2>2, Joined DEF Grows
<1>2. \A x \in T : Grows(a, Append(a, x))
  BY Appended DEF Grows
<1>3. \A b \in Seq(T), c \in Seq(T) : Grows(a, b) /\ Grows(b, c) => Grows(a, c)
  <2>1. TAKE b \in Seq(T), c \in Seq(T)
  <2>2. Len(a) \in Nat /\ Len(b) \in Nat /\ Len(c) \in Nat
    OBVIOUS
  <2> QED BY <2>2 DEF Grows
<1> QED BY <1>1, <1>2, <1>3 DEF Grows

TextGrows ==
    /\ messages' \in Seq(Given) /\ log' \in Seq(Given) /\ pendingBash' \in Seq(BashResults)
    /\ Grows(log, log')

\* A step that ends leaves entries.
LEMMA EndedGrows ==
    ASSUME TextOK, NEW ms \in Seq(Given), NEW lg \in Seq(Given), Grows(log, lg), Ended(ms, lg)
    PROVE  TextGrows
<1>1. pendingBash \in Seq(BashResults) /\ pendingBash \in Seq(Given) /\ log \in Seq(Given)
  BY Roles DEF TextOK
<1>2. <<>> \in Seq(BashResults)
  OBVIOUS
<1>3. CASE messages' = ms /\ log' = lg /\ pendingBash' = pendingBash
  BY <1>1, <1>3 DEF TextGrows
<1>4. CASE messages' = ms \o pendingBash /\ log' = lg \o pendingBash /\ pendingBash' = <<>>
  <2>1. messages' \in Seq(Given) /\ log' \in Seq(Given)
    BY <1>1, <1>4, Joined
  <2>2. Grows(lg, log')
    BY <1>1, <1>4, Growth
  <2>3. Grows(log, log')
    BY <1>1, <2>1, <2>2, Growth
  <2> QED BY <1>2, <1>4, <2>1, <2>3 DEF TextGrows
<1> QED BY <1>3, <1>4 DEF Ended

\* The compaction of a call that is over leaves nothing to cut.
Over(p) ==
    compacting' = compacting \/ compacting' = [compacting EXCEPT ![p] = [retry |-> FALSE, cut |-> 0]]

\* What a step of call p does to transcript and log: it ends with what there is; takes an
\* error out; begins a compaction, as its prompt begins or after a run; or ends with a
\* compaction.
CallEnds(p) == Ended(messages, log) /\ Over(p)
CallRetries(p) ==
    /\ pc[p] = "post" /\ lastAssistant # None /\ MayRetry(lastAssistant)
    /\ messages' = WithoutTrailingAssistant(messages)
    /\ UNCHANGED <<log, pendingBash, compacting>>
CallChecksFirst(p) ==
    /\ pc[p] = "idle" /\ phase = "idle"
    /\ LET a == LastAssistantIn(messages \o pendingBash)
       IN  a # None /\ Begun(p, a, FALSE, messages \o pendingBash, log \o pendingBash)
    /\ pendingBash' = <<>>
CallChecks(p) ==
    /\ \/ pc[p] = "post" /\ lastAssistant # None /\ Begun(p, lastAssistant, TRUE, messages, log)
       \/ pc[p] = "sleep" /\ Begun(p, handled[p], TRUE, messages, log)
    /\ pendingBash' = pendingBash
CallCompacts(p) ==
    /\ pc[p] = "compact" /\ compacting[p].cut # 0 /\ Over(p)
    /\ LET lg == AppendCompaction(compacting[p].cut)
           rebuilt == BuildSessionContext(lg)
       IN  \E ms : /\ Ended(ms, lg)
                   /\ \/ ms = rebuilt
                      \/ /\ EndsWith(rebuilt, "assistant") /\ IsError(Last(rebuilt).stop)
                         /\ compacting[p].retry /\ ms = Front(rebuilt)

\* These are all the ways: nothing else that a call does touches transcript or log.
LEMMA CallTexts ==
    ASSUME RunsAreAwaited, NEW p \in Prompts, QueuePrompt(p) \/ BeginPrompt(p) \/ PromptStep(p)
    PROVE  CallEnds(p) \/ CallRetries(p) \/ CallChecksFirst(p) \/ CallChecks(p) \/ CallCompacts(p)
<1>1. CASE QueuePrompt(p)
  BY <1>1 DEF QueuePrompt, sessionVars, CallEnds, Ended, Over
<1>2. CASE BeginPrompt(p)
  <2> DEFINE ms == messages \o pendingBash
             lg == log \o pendingBash
             a  == LastAssistantIn(ms)
  <2>1. pendingBash' = <<>> /\ pc[p] = "idle" /\ phase = "idle"
    BY <1>2 DEF BeginPrompt
  <2>2. PICK verdict \in (IF a = None THEN {"none"} ELSE Verdicts(a, FALSE)) :
           IF verdict = "none"
           THEN /\ pc' = [pc EXCEPT ![p] = "build"]
                /\ messages' = ms /\ log' = lg
                /\ NoRunChange /\ UNCHANGED <<stage, recoveryTried, compacting, autoSlot>>
           ELSE BeginCompaction(p, verdict, ms, lg)
    BY <1>2 DEF BeginPrompt
  <2>3. CASE verdict = "none"
    BY <2>1, <2>2, <2>3 DEF CallEnds, Ended, Over
  <2>4. CASE verdict # "none"
    <3>1. a # None /\ Begun(p, a, FALSE, ms, lg)
      BY <2>2, <2>4 DEF Begun
    <3> QED BY <2>1, <3>1 DEF CallChecksFirst
  <2> QED BY <2>3, <2>4
<1>3. CASE SubmitPrompt(p)
  <2>1. UNCHANGED compacting
    BY <1>3 DEF SubmitPrompt
  <2>2. Ended(messages, log)
    <3>1. CASE phase # "idle"
      BY <1>3, <3>1, Endings DEF SubmitPrompt
    <3>2. CASE phase = "idle"
      BY <1>3, <3>2 DEF SubmitPrompt, Ended
    <3> QED BY <3>1, <3>2
  <2> QED BY <2>1, <2>2 DEF CallEnds, Over
<1>4. CASE NothingToHandle(p)
  BY <1>4, Endings DEF NothingToHandle, CallEnds, Over
<1>5. CASE PrepareRetry(p)
  BY <1>5 DEF PrepareRetry, CallRetries
<1>6. CASE HandleRun(p)
  <2>1. pc[p] = "post" /\ lastAssistant # None /\ CheckCompaction(p, lastAssistant)
    BY <1>6 DEF HandleRun
  <2> QED BY <2>1, Checked DEF CallEnds, CallChecks, Over
<1>7. CASE RetryNow(p)
  BY <1>7, Endings DEF RetryNow, CallEnds, Over
<1>8. CASE RetryCancelled(p)
  <2>1. pc[p] = "sleep" /\ CheckCompaction(p, handled[p])
    BY <1>8 DEF RetryCancelled, SleepOver
  <2> QED BY <2>1, Checked DEF CallEnds, CallChecks, Over
<1>9. CASE CompactionReturns(p)
  <2>1. Over(p)
    BY <1>9 DEF CompactionReturns, CompactionOver, Over
  <2>2. CASE CompactionFails(p)
    BY <2>1, <2>2, Endings DEF CompactionFails, CallEnds
  <2>3. CASE CompactionSucceeds(p)
    <3> DEFINE lg == AppendCompaction(compacting[p].cut)
               rebuilt == BuildSessionContext(lg)
               ms == IF compacting[p].retry /\ EndsWith(rebuilt, "assistant") /\ IsError(Last(rebuilt).stop)
                     THEN Front(rebuilt) ELSE rebuilt
    <3>1. pc[p] = "compact" /\ compacting[p].cut # 0
      BY <2>3 DEF CompactionSucceeds, Compacts
    <3>2. Continue(p, ms, lg) \/ ContinueIfQueued(p, ms, lg)
      BY <2>3 DEF CompactionSucceeds
    <3> HIDE DEF ms, lg, rebuilt
    <3>3. Ended(ms, lg)
      BY <3>2, Endings
    <3>4. \/ ms = rebuilt
          \/ /\ EndsWith(rebuilt, "assistant") /\ IsError(Last(rebuilt).stop)
             /\ compacting[p].retry /\ ms = Front(rebuilt)
      BY DEF ms
    <3> QED BY <2>1, <3>1, <3>3, <3>4 DEF CallCompacts, lg, rebuilt
  <2> QED BY <1>9, <2>2, <2>3 DEF CompactionReturns
<1> QED BY <1>1, <1>2, <1>3, <1>4, <1>5, <1>6, <1>7, <1>8, <1>9 DEF PromptStep

\* Where a log may be cut.
LEMMA Cuts ==
    ASSUME NEW es \in Seq(Given)
    PROVE  \A k \in CutPoints(es) : k \in 1..Len(es) /\ es[k].role # "toolResult"
<1> DEFINE c == LatestCompaction(es)
           start == IF c = 0 THEN 1 ELSE es[c].kept
<1>1. c \in 0..Len(es) /\ (c # 0 => es[c].role = "compaction") /\ Len(es) \in Nat
  BY LatestIs
<1>2. start \in Nat \ {0}
  <2>1. CASE c # 0
    <3>1. es[c] \in Entry
      BY <1>1, <2>1, Roles
    <3> QED BY <1>1, <2>1, <3>1, Roles
  <2> QED BY <2>1
<1>3. CutPoints(es) \subseteq {i \in start..Len(es) : es[i].role \in {"user", "assistant", "bash"}}
  BY DEF CutPoints
<1> HIDE DEF start, c
<1> QED BY <1>1, <1>2, <1>3

\* What the retry of an answer leaves of the transcript are entries that were there.
LEMMA WithoutTyped ==
    ASSUME NEW ms \in Seq(Given)
    PROVE  WithoutTrailingAssistant(ms) \in Seq(Given)
BY Fronts DEF WithoutTrailingAssistant, EndsWith

\* A compaction that begins.
LEMMA BegunText ==
    ASSUME TextOK, NEW p \in Prompts, NEW verdict, NEW ms \in Seq(Given), NEW lg \in Seq(Given),
           Grows(log, lg), BeginCompaction(p, verdict, ms, lg)
    PROVE  /\ messages' \in Seq(Given) /\ log' \in Seq(Given) /\ Grows(log, log')
           /\ compacting' \in [Calls -> [retry : BOOLEAN, cut : Nat]]
           /\ \A c \in Calls :
                 \/ compacting'[c] = compacting[c] \/ compacting'[c].cut = 0
                 \/ compacting'[c].cut \in 1..Len(log') /\ log'[compacting'[c].cut].role # "toolResult"
<1>1. messages' \in Seq(Given) /\ log' = lg
  BY WithoutTyped DEF BeginCompaction
<1>2. PICK cut \in (IF CutPoints(lg) = {} THEN {0} ELSE CutPoints(lg)) :
        compacting' = [compacting EXCEPT ![p] = [retry |-> verdict = "recover", cut |-> cut]]
  BY DEF BeginCompaction
<1>3. cut = 0 \/ (cut \in 1..Len(lg) /\ lg[cut].role # "toolResult")
  BY <1>2, Cuts
<1>4. cut \in Nat
  BY <1>3
<1>5. (verdict = "recover") \in BOOLEAN
  OBVIOUS
<1> DEFINE x == [retry |-> verdict = "recover", cut |-> cut]
<1>6. x \in [retry : BOOLEAN, cut : Nat] /\ x.cut = cut
  BY <1>4, <1>5
<1>7. compacting' = [compacting EXCEPT ![p] = x]
  BY <1>2
<1> HIDE DEF x
<1>8. /\ compacting' \in [Calls -> [retry : BOOLEAN, cut : Nat]]
      /\ \A c \in Calls : compacting'[c] = compacting[c] \/ compacting'[c].cut = cut
  BY <1>6, <1>7 DEF TextOK
<1> QED BY <1>1, <1>3, <1>8

\* What is added to transcript and log while the run goes on.
Emitted(xs) ==
    /\ messages' = messages \o xs
    /\ log' = (IF connected THEN log \o xs ELSE log)
    /\ pendingBash' = pendingBash

\* A step of the run emits messages, ends a compaction, or changes neither.
LEMMA RunTexts ==
    ASSUME ControlOK, RunStep
    PROVE  \/ \E xs \in Seq(Given) :
                 /\ Emitted(xs) /\ compacting' = compacting
                 /\ \A i \in 1..Len(xs) :
                       \/ xs[i].role = "user"
                       \/ xs[i].role = "assistant" /\ Respond /\ xs = <<newest'>>
                       \/ xs = <<ToolResult(responses)>> /\ ToolEnds
           \/ UNCHANGED <<messages, log, pendingBash>> /\ (Over("run") \/ CompactBeforeTurn)
           \/ /\ TurnCompactionEnds /\ Compacts("run") /\ log' = AppendCompaction(compacting["run"].cut)
              /\ messages' = BuildSessionContext(log') /\ pendingBash' = pendingBash /\ Over("run")
<1> DEFINE xs == [i \in 1..Len(inflight) |-> User(inflight[i])]
<1>1. CASE EmitPrompt \/ Inject
  <2>1. xs \in Seq(Given) /\ \A i \in 1..Len(xs) : xs[i].role = "user"
    BY Made DEF ControlOK
  <2>2. Emitted(xs) /\ compacting' = compacting
    BY <1>1 DEF EmitPrompt, Inject, EmitUsers, Persist, Emitted, RunOnly, callVars
  <2> HIDE DEF xs
  <2> QED BY <2>1, <2>2
<1>2. CASE Respond
  <2>1. PICK stop \in Stops \cup {"stop", "aborted"} :
           /\ newest' = Assistant(responses + 1, stop)
           /\ EmitAssistant(newest')
    BY <1>2 DEF Respond
  <2>2. newest' \in Given /\ newest'.role = "assistant"
    BY <2>1, Made DEF ControlOK, Answers
  <2> DEFINE ys == <<newest'>>
  <2>3. ys \in Seq(Given) /\ Len(ys) = 1 /\ ys[1] = newest'
    BY <2>2
  <2>4. Emitted(ys) /\ compacting' = compacting
    <3>1. messages' = Append(messages, newest') /\ log' = Persist(<<newest'>>)
      BY <2>1 DEF EmitAssistant
    <3>2. messages' = messages \o ys
      BY <3>1
    <3>3. UNCHANGED <<pendingBash, compacting>>
      BY <1>2 DEF Respond, RunOnly, callVars
    <3> QED BY <3>1, <3>2, <3>3 DEF Persist, Emitted
  <2>5. \A i \in 1..Len(ys) : ys[i].role = "assistant"
    BY <2>2, <2>3
  <2> QED BY <1>2, <2>3, <2>4, <2>5
<1>3. CASE ToolEnds
  <2> DEFINE ys == <<ToolResult(responses)>>
  <2>1. ys \in Seq(Given)
    BY Made DEF ControlOK
  <2>2. Emitted(ys) /\ compacting' = compacting
    <3>1. messages' = Append(messages, ToolResult(responses)) /\ log' = Persist(ys)
      BY <1>3 DEF ToolEnds
    <3>2. messages' = messages \o ys
      BY <3>1
    <3>3. UNCHANGED <<pendingBash, compacting>>
      BY <1>3 DEF ToolEnds, RunOnly, callVars
    <3> QED BY <3>1, <3>2, <3>3 DEF Persist, Emitted
  <2> QED BY <1>3, <2>1, <2>2
<1>4. CASE TurnCompactionEnds
  BY <1>4 DEF TurnCompactionEnds, CompactionOver, Over
<1>5. CASE InitialPoll \/ GuardStops \/ PollAfterTurn \/ PrepareTurn \/ RunEnds \/ CompactBeforeTurn
  BY <1>5 DEF InitialPoll, GuardStops, PollAfterTurn, PrepareTurn, RunEnds, CompactBeforeTurn, RunOnly,
              callVars, sessionVars, Over
<1> QED BY <1>1, <1>2, <1>3, <1>4, <1>5 DEF RunStep

\* The log with a compaction.
LEMMA CompactedTyped ==
    ASSUME NEW es \in Seq(Given), NEW k \in Nat \ {0}
    PROVE  Append(es, Compaction(k)) \in Seq(Given) /\ Grows(es, Append(es, Compaction(k)))
BY Made, Appended, Growth

\* What a step emits are entries.
LEMMA EmittedGrows ==
    ASSUME TextOK, NEW xs \in Seq(Given), Emitted(xs)
    PROVE  TextGrows
<1>1. messages \in Seq(Given) /\ log \in Seq(Given)
  BY DEF TextOK
<1>2. messages \o xs \in Seq(Given) /\ log \o xs \in Seq(Given)
  BY <1>1, Joined
<1>3. Grows(log, log) /\ Grows(log, log \o xs)
  BY <1>1, Growth
<1> QED BY <1>1, <1>2, <1>3 DEF Emitted, TextGrows, TextOK

\* Where compactions will cut stays in the log.
LEMMA CutsStay ==
    ASSUME TextOK, Grows(log, log'), log' \in Seq(Given), NEW p \in Calls, Over(p)
    PROVE  /\ compacting' \in [Calls -> [retry : BOOLEAN, cut : Nat]]
           /\ \A c \in Calls : compacting'[c].cut <= Len(log')
<1>1. compacting' = compacting \/ compacting' = [compacting EXCEPT ![p] = [retry |-> FALSE, cut |-> 0]]
  BY DEF Over
<1> DEFINE x == [retry |-> FALSE, cut |-> 0]
<1>2. x \in [retry : BOOLEAN, cut : Nat] /\ x.cut = 0
  OBVIOUS
<1>3. /\ compacting' \in [Calls -> [retry : BOOLEAN, cut : Nat]]
      /\ \A c \in Calls : compacting'[c] = compacting[c] \/ compacting'[c].cut = 0
  <2>1. compacting' = compacting \/ compacting' = [compacting EXCEPT ![p] = x]
    BY <1>1
  <2> HIDE DEF x
  <2> QED BY <1>2, <2>1 DEF TextOK
<1>4. Len(log) <= Len(log') /\ Len(log) \in Nat /\ Len(log') \in Nat
  BY DEF Grows, TextOK
<1>5. \A c \in Calls : compacting[c].cut \in Nat /\ compacting[c].cut <= Len(log)
  BY DEF TextOK
<1>6. ASSUME NEW c \in Calls
      PROVE  compacting'[c].cut <= Len(log')
  <2>1. CASE compacting'[c] = compacting[c]
    BY <1>4, <1>5, <2>1
  <2>2. CASE compacting'[c].cut = 0
    BY <1>4, <2>2
  <2> QED BY <1>3, <2>1, <2>2
<1> QED BY <1>3, <1>6

\* A step of the run.
LEMMA RunText ==
    ASSUME ControlOK, TextOK, RunStep
    PROVE  /\ TextGrows
           /\ compacting' \in [Calls -> [retry : BOOLEAN, cut : Nat]]
           /\ \A c \in Calls : compacting'[c].cut <= Len(log')
<1>0. "run" \in Calls /\ messages \in Seq(Given) /\ log \in Seq(Given) /\ pendingBash \in Seq(BashResults)
  BY DEF Calls, TextOK
<1>1. ASSUME NEW xs \in Seq(Given), Emitted(xs), compacting' = compacting
      PROVE  TextGrows /\ Over("run")
  BY <1>1, EmittedGrows DEF Over
<1>2. ASSUME UNCHANGED <<messages, log, pendingBash>>
      PROVE  TextGrows
  <2>1. Grows(log, log)
    BY <1>0, Growth
  <2> QED BY <1>0, <1>2, <2>1 DEF TextGrows
<1>3. CASE CompactBeforeTurn
  <2>1. UNCHANGED <<messages, log, pendingBash>>
    BY <1>3 DEF CompactBeforeTurn, sessionVars
  <2>2. PICK cut \in CutPoints(log) :
          compacting' = [compacting EXCEPT !["run"] = [retry |-> FALSE, cut |-> cut]]
    BY <1>3 DEF CompactBeforeTurn
  <2>3. cut \in 1..Len(log) /\ Len(log) \in Nat
    BY <1>0, <2>2, Cuts
  <2> DEFINE x == [retry |-> FALSE, cut |-> cut]
  <2>4. x \in [retry : BOOLEAN, cut : Nat] /\ x.cut = cut /\ cut <= Len(log)
    BY <2>3
  <2>5. compacting' = [compacting EXCEPT !["run"] = x]
    BY <2>2
  <2> HIDE DEF x
  <2>6. /\ compacting' \in [Calls -> [retry : BOOLEAN, cut : Nat]]
        /\ \A c \in Calls : compacting'[c] = compacting[c] \/ compacting'[c].cut = cut
    BY <2>4, <2>5 DEF TextOK
  <2> QED BY <1>2, <2>1, <2>4, <2>6 DEF TextOK
<1>4. ASSUME Compacts("run"), log' = AppendCompaction(compacting["run"].cut),
             messages' = BuildSessionContext(log'), pendingBash' = pendingBash
      PROVE  TextGrows
  <2>1. compacting["run"].cut \in Nat \ {0}
    BY <1>0, <1>4 DEF Compacts, TextOK
  <2>2. log' \in Seq(Given) /\ Grows(log, log')
    BY <1>0, <1>4, <2>1, CompactedTyped DEF AppendCompaction
  <2>3. BuildSessionContext(log') \in Seq(Given)
    BY <2>2, BuildTyped
  <2>4. messages' = BuildSessionContext(log') /\ pendingBash' = pendingBash
    BY <1>4
  <2>5. messages' \in Seq(Given)
    <3> HIDE DEF BuildSessionContext
    <3> QED BY <2>3, <2>4
  <2>6. pendingBash' \in Seq(BashResults)
    BY <1>0, <2>4
  <2> QED BY <2>2, <2>5, <2>6 DEF TextGrows
<1>5. TextGrows /\ (Over("run") \/ CompactBeforeTurn)
  BY <1>1, <1>2, <1>4, RunTexts
<1>6. CASE Over("run")
  BY <1>0, <1>5, <1>6, CutsStay DEF TextGrows
<1> QED BY <1>3, <1>5, <1>6

\* A step of prompt().
LEMMA CallText ==
    ASSUME RunsAreAwaited, TextOK, NEW p \in Prompts, QueuePrompt(p) \/ BeginPrompt(p) \/ PromptStep(p)
    PROVE  /\ TextGrows
           /\ compacting' \in [Calls -> [retry : BOOLEAN, cut : Nat]]
           /\ \A c \in Calls : compacting'[c].cut <= Len(log')
<1>0. /\ p \in Calls /\ messages \in Seq(Given) /\ log \in Seq(Given)
      /\ pendingBash \in Seq(BashResults) /\ pendingBash \in Seq(Given) /\ Grows(log, log)
  BY Roles, Growth DEF Calls, TextOK
<1>1. CASE CallEnds(p)
  <2>1. TextGrows
    BY <1>0, <1>1, EndedGrows DEF CallEnds
  <2> QED BY <1>0, <1>1, <2>1, CutsStay DEF CallEnds, TextGrows
<1>2. CASE CallRetries(p)
  <2>1. TextGrows /\ Over(p)
    BY <1>0, <1>2, WithoutTyped DEF CallRetries, TextGrows, Over
  <2> QED BY <1>0, <2>1, CutsStay DEF TextGrows
<1>3. ASSUME NEW verdict, NEW ms \in Seq(Given), NEW lg \in Seq(Given), Grows(log, lg),
             BeginCompaction(p, verdict, ms, lg), pendingBash' \in Seq(BashResults)
      PROVE  /\ TextGrows
             /\ compacting' \in [Calls -> [retry : BOOLEAN, cut : Nat]]
             /\ \A c \in Calls : compacting'[c].cut <= Len(log')
  <2>1. /\ messages' \in Seq(Given) /\ log' \in Seq(Given) /\ Grows(log, log')
        /\ compacting' \in [Calls -> [retry : BOOLEAN, cut : Nat]]
        /\ \A c \in Calls : compacting'[c] = compacting[c] \/ compacting'[c].cut = 0
                            \/ compacting'[c].cut \in 1..Len(log')
    BY <1>3, BegunText
  <2>2. Len(log) <= Len(log') /\ Len(log) \in Nat /\ Len(log') \in Nat
    BY <1>0, <2>1 DEF Grows
  <2>3. \A c \in Calls : compacting[c].cut \in Nat /\ compacting[c].cut <= Len(log)
    BY DEF TextOK
  <2>4. ASSUME NEW c \in Calls
        PROVE  compacting'[c].cut <= Len(log')
    <3>1. CASE compacting'[c] = compacting[c]
      BY <2>2, <2>3, <3>1
    <3>2. CASE compacting'[c].cut = 0 \/ compacting'[c].cut \in 1..Len(log')
      BY <2>2, <3>2
    <3> QED BY <2>1, <3>1, <3>2
  <2> QED BY <1>3, <2>1, <2>4 DEF TextGrows
<1>4. CASE CallChecksFirst(p)
  <2> DEFINE ms == messages \o pendingBash
             lg == log \o pendingBash
  <2>1. ms \in Seq(Given) /\ lg \in Seq(Given) /\ Grows(log, lg)
    BY <1>0, Joined, Growth
  <2>2. pendingBash' = <<>> /\ \E verdict : BeginCompaction(p, verdict, ms, lg)
    BY <1>4 DEF CallChecksFirst, Begun
  <2> HIDE DEF ms, lg
  <2>3. <<>> \in Seq(BashResults)
    OBVIOUS
  <2> QED BY <1>3, <2>1, <2>2, <2>3
<1>5. CASE CallChecks(p)
  <2>1. pendingBash' = pendingBash /\ \E verdict : BeginCompaction(p, verdict, messages, log)
    BY <1>5 DEF CallChecks, Begun
  <2> QED BY <1>0, <1>3, <2>1
<1>6. CASE CallCompacts(p)
  <2> DEFINE lg == AppendCompaction(compacting[p].cut)
             rebuilt == BuildSessionContext(lg)
  <2>1. compacting[p].cut \in Nat \ {0}
    BY <1>0, <1>6 DEF CallCompacts, TextOK
  <2>2. lg \in Seq(Given) /\ Grows(log, lg)
    BY <1>0, <2>1, CompactedTyped DEF AppendCompaction
  <2> HIDE DEF lg
  <2>3. rebuilt \in Seq(Given)
    BY <2>2, BuildTyped
  <2>4. PICK ms : /\ Ended(ms, lg)
                  /\ ms = rebuilt \/ (EndsWith(rebuilt, "assistant") /\ ms = Front(rebuilt))
    BY <1>6 DEF CallCompacts, lg
  <2> HIDE DEF rebuilt
  <2>5. ms \in Seq(Given)
    BY <2>3, <2>4, Fronts DEF EndsWith
  <2>6. TextGrows
    BY <2>2, <2>4, <2>5, EndedGrows
  <2> QED BY <1>0, <1>6, <2>6, CutsStay DEF CallCompacts, TextGrows
<1> QED BY <1>1, <1>2, <1>4, <1>5, <1>6, CallTexts

\* What callers and compact() do to transcript and log.
LEMMA OtherText ==
    ASSUME TextOK,
           \/ ManualStep \/ Steer \/ BashEnds \/ CompactCalled
           \/ (\E how \in Interrupt : Interrupted(how)) \/ UNCHANGED vars
    PROVE  TextGrows /\ compacting' = compacting
<1>0. /\ messages \in Seq(Given) /\ log \in Seq(Given)
      /\ pendingBash \in Seq(BashResults) /\ Grows(log, log)
  BY Growth DEF TextOK
<1>1. CASE Steer \/ ManualBegins \/ ManualFails \/ CompactCalled
            \/ (\E how \in Interrupt : Interrupted(how)) \/ UNCHANGED vars
  <2>1. UNCHANGED <<messages, log, pendingBash, compacting>>
    BY <1>1 DEF Steer, ManualBegins, ManualFails, ManualOver, CompactCalled, Interrupted, agentVars, sessionVars,
                callVars, vars
  <2> QED BY <1>0, <2>1 DEF TextGrows
<1>2. CASE BashEnds
  <2>1. PICK b \in Bashes :
          IF phase # "idle"
          THEN pendingBash' = Append(pendingBash, Bash(b)) /\ UNCHANGED <<messages, log>>
          ELSE messages' = Append(messages, Bash(b)) /\ log' = Append(log, Bash(b)) /\ UNCHANGED pendingBash
    BY <1>2 DEF BashEnds
  <2>2. Bash(b) \in BashResults /\ Bash(b) \in Given
    BY Made, Roles
  <2> DEFINE x == Bash(b)
  <2> HIDE DEF x
  <2>3. /\ Append(pendingBash, x) \in Seq(BashResults) /\ Append(messages, x) \in Seq(Given)
        /\ Append(log, x) \in Seq(Given) /\ Grows(log, Append(log, x))
    <3>1. x \in BashResults /\ x \in Given
      BY <2>2 DEF x
    <3> QED BY <1>0, <3>1, Growth
  <2>4. TextGrows
    BY <1>0, <2>1, <2>3 DEF TextGrows, x
  <2> QED BY <1>2, <2>4 DEF BashEnds, callVars
<1>3. CASE ManualSucceeds
  <2>1. /\ manualCut \in Nat \ {0} /\ log' = Append(log, Compaction(manualCut))
        /\ messages' = BuildSessionContext(log')
    BY <1>3 DEF ManualSucceeds, AppendCompaction, TextOK
  <2>2. log' \in Seq(Given) /\ Grows(log, log')
    BY <1>0, <2>1, CompactedTyped
  <2>3. UNCHANGED <<pendingBash, compacting>>
    BY <1>3 DEF ManualSucceeds, ManualOver, callVars
  <2> QED BY <1>0, <2>1, <2>2, <2>3, BuildTyped DEF TextGrows
<1> QED BY <1>1, <1>2, <1>3 DEF ManualStep

\* Every step leaves entries in transcript and log, and adds to the log.
LEMMA TextStep ==
    ASSUME RunsAreAwaited, ControlOK, TextOK, [Next]_vars
    PROVE  TextOK' /\ Grows(log, log')
<1>1. /\ TextGrows
      /\ compacting' \in [Calls -> [retry : BOOLEAN, cut : Nat]]
      /\ \A c \in Calls : compacting'[c].cut <= Len(log')
  <2>1. CASE RunStep \/ \E p \in Prompts : QueuePrompt(p) \/ BeginPrompt(p) \/ PromptStep(p)
    BY <2>1, RunText, CallText
  <2>2. CASE ~(RunStep \/ \E p \in Prompts : QueuePrompt(p) \/ BeginPrompt(p) \/ PromptStep(p))
    <3>1. TextGrows /\ compacting' = compacting
      BY <2>2, OtherText DEF Next
    <3>2. "run" \in Calls /\ Over("run")
      BY <3>1 DEF Calls, Over
    <3> QED BY <3>1, <3>2, CutsStay DEF TextGrows
  <2> QED BY <2>1, <2>2
<1>2. Len(log) \in Nat /\ Len(log') \in Nat /\ Len(log) <= Len(log')
  BY <1>1 DEF TextGrows, TextOK, Grows
<1>3. manualCut' \in 0..Len(log') /\ (manual' = "summarizing" => manualCut' # 0)
  <2>1. CASE ManualBegins
    <3>1. manualCut' \in 1..Len(log)
      BY <2>1, Cuts DEF ManualBegins, TextOK
    <3> QED BY <1>2, <3>1
  <2>2. CASE ManualSucceeds \/ ManualFails
    BY <1>2, <2>2 DEF ManualSucceeds, ManualFails, ManualOver
  <2>3. CASE ~ManualBegins /\ ~ManualSucceeds /\ ~ManualFails
    <3>1. manualCut' = manualCut /\ (manual' = "summarizing" => manual = "summarizing")
      BY <2>3 DEF Next, ManualStep, RunStep, EmitPrompt, InitialPoll, Inject, Respond, ToolEnds, GuardStops,
                  PollAfterTurn, PrepareTurn, CompactBeforeTurn, TurnCompactionEnds, RunEnds, RunOnly,
                  QueuePrompt, BeginPrompt, PromptStep, SubmitPrompt, NothingToHandle, PrepareRetry,
                  HandleRun, RetryNow, RetryCancelled, CompactionReturns, Steer, BashEnds, Interrupted,
                  CompactCalled, vars, manualVars
    <3> QED BY <1>2, <3>1 DEF TextOK
  <2> QED BY <2>1, <2>2, <2>3
<1> QED BY <1>1, <1>3 DEF TextGrows, TextOK

\* It is so at first, and stays so.
LEMMA SessionInvInit ==
    ASSUME Init
    PROVE  SessionInv
<1>1. RunsAreAwaited
  BY DEF Init, RunsAreAwaited, PC, Stage
<1>2. ControlOK
  <2>1. <<>> \in Seq(UserIds) /\ 0 \in 0..MaxRetries /\ 0 \in 0..0
    BY SessionBounds
  <2>2. lastAssistant \in Answers \cup {None} /\ newest \in Answers \cup {None}
        /\ handled \in [Prompts -> Answers \cup {None}]
    BY DEF Init
  <2> QED BY <2>1, <2>2 DEF Init, ControlOK, Phase
<1>3. CompactionsOK
  BY SessionBounds DEF Init, CompactionsOK
<1>4. TextOK
  <2>1. <<>> \in Seq(Given) /\ <<>> \in Seq(BashResults) /\ Len(<<>>) = 0
    OBVIOUS
  <2>2. [retry |-> FALSE, cut |-> 0] \in [retry : BOOLEAN, cut : Nat]
    OBVIOUS
  <2> DEFINE x == [retry |-> FALSE, cut |-> 0]
  <2>3. x.cut = 0 /\ compacting = [c \in Calls |-> x]
    BY DEF Init
  <2> HIDE DEF x
  <2>4. compacting \in [Calls -> [retry : BOOLEAN, cut : Nat]] /\ \A c \in Calls : compacting[c].cut = 0
    BY <2>2, <2>3 DEF x
  <2> QED BY <2>1, <2>4 DEF Init, TextOK
<1> QED BY <1>1, <1>2, <1>3, <1>4 DEF SessionInv

\* Every step keeps what the session's state is.
LEMMA SessionInvStep ==
    ASSUME BashInv, SessionInv, [Next]_vars
    PROVE  SessionInv' /\ BashInv'
BY BashStep, ControlStep, CompactionsStep, TextStep DEF SessionInv, BashInv

\* The state of the session is what the program can be in: at most as many retries as
\* settings.retry.maxRetries allows, every entry of transcript and log one that the session
\* makes, and the entry from which a compaction under way will keep the branch, chosen before
\* its summary was asked for, still there when the answer comes.
THEOREM SessionTypes == Spec => []TypeOK
<1>1. Init => BashInv /\ SessionInv
  BY SessionInvInit DEF Init, BashInv, SessionInv
<1>2. BashInv /\ SessionInv /\ [Next]_vars => BashInv' /\ SessionInv'
  BY SessionInvStep
<1>3. SessionInv => TypeOK
  <2> SUFFICES ASSUME SessionInv
               PROVE  TypeOK
    OBVIOUS
  <2>1. /\ messages \in Seq(Entry) /\ log \in Seq(Entry) /\ pendingBash \in Seq(Message)
        /\ Len(log) \in Nat
    BY Roles DEF SessionInv, TextOK
  <2>2. \A c \in Calls : compacting[c].retry \in BOOLEAN /\ compacting[c].cut \in 0..Len(log)
    BY <2>1 DEF SessionInv, TextOK
  <2>3. compactions \in 0..(MaxCompactions + MaxManual)
    BY SessionBounds DEF SessionInv, CompactionsOK
  <2>4. {lastAssistant, newest} \cup {handled[p] : p \in Prompts} \subseteq Message \cup {None}
    BY Roles DEF SessionInv, ControlOK
  <2>5. \A p \in Prompts : /\ pc[p] \in PC
                           /\ stage[p] \in Stage
    BY DEF SessionInv, RunsAreAwaited
  <2>6. {retrySlot, autoSlot} \cup cancelled \subseteq Calls \cup {NoPrompt}
    BY DEF SessionInv, ControlOK
  <2> QED BY <2>1, <2>2, <2>3, <2>4, <2>5, <2>6
          DEF SessionInv, ControlOK, CompactionsOK, TextOK, TypeOK, PC, Stage
<1> QED BY <1>1, <1>2, <1>3, PTL DEF Spec

-----------------------------------------------------------------------------
(* Tool results and their calls.                                           *)

\* The entries in which every tool result stands behind the call it answers.
Attached == {s \in Seq(Given) : FollowsItsCall(s)}

\* There may be no tool result at all.
LEMMA AttachedWithoutResults ==
    ASSUME NEW s \in Seq(Given), \A i \in 1..Len(s) : s[i].role # "toolResult"
    PROVE  s \in Attached
BY DEF Attached, FollowsItsCall

\* What is added is no tool result, or the result of the call that is last.
LEMMA AttachedAdds ==
    ASSUME NEW s \in Attached, NEW e \in Given,
           e.role # "toolResult" \/ (EndsWith(s, "assistant") /\ Last(s).id = e.id)
    PROVE  Append(s, e) \in Attached
<1> DEFINE t == Append(s, e)
           n == Len(s)
<1>1. s \in Seq(Given) /\ n \in Nat
  BY DEF Attached
<1>2. t \in Seq(Given) /\ Len(t) = n + 1 /\ t[n + 1] = e /\ \A i \in 1..n : t[i] = s[i]
  BY <1>1, Appended
<1>3. ASSUME e.role = "toolResult"
      PROVE  n \in 1..n /\ s[n].role = "assistant" /\ s[n].id = e.id
  <2>1. s # <<>> /\ Last(s).role = "assistant" /\ Last(s).id = e.id
    BY <1>3 DEF EndsWith
  <2>2. Last(s) = s[n] /\ n \in Nat \ {0}
    BY <1>1, <2>1, Fronts
  <2> QED BY <2>1, <2>2
<1> HIDE DEF t, n
<1>4. ASSUME NEW i \in 1..Len(t), t[i].role = "toolResult"
      PROVE  i > 1 /\ t[i - 1].role = "assistant" /\ t[i - 1].id = t[i].id
  <2>1. CASE i = n + 1
    <3>1. n \in 1..n /\ s[n].role = "assistant" /\ s[n].id = e.id
      BY <1>2, <1>3, <1>4, <2>1
    <3>2. i - 1 = n /\ i > 1
      BY <1>1, <2>1, <3>1
    <3> QED BY <1>2, <2>1, <3>1, <3>2
  <2>2. CASE i # n + 1
    <3>1. i \in 1..n
      BY <1>1, <1>2, <2>2
    <3>2. i > 1 /\ s[i - 1].role = "assistant" /\ s[i - 1].id = s[i].id
      BY <1>2, <1>4, <3>1 DEF Attached, FollowsItsCall, n
    <3>3. i - 1 \in 1..n
      BY <1>1, <3>1, <3>2
    <3> QED BY <1>2, <3>1, <3>2, <3>3
  <2> QED BY <2>1, <2>2
<1>5. t \in Attached
  BY <1>2, <1>4 DEF Attached, FollowsItsCall
<1> QED BY <1>5 DEF t

\* Two such sequences, one after the other.
LEMMA AttachedJoined ==
    ASSUME NEW s \in Attached, NEW t \in Attached
    PROVE  s \o t \in Attached
<1> DEFINE u == s \o t
           n == Len(s)
<1>1. s \in Seq(Given) /\ t \in Seq(Given) /\ n \in Nat /\ Len(t) \in Nat
  BY DEF Attached
<1>2. /\ u \in Seq(Given) /\ Len(u) = n + Len(t) /\ \A i \in 1..n : u[i] = s[i]
      /\ \A i \in 1..Len(t) : u[n + i] = t[i]
  BY <1>1, Joined
<1> HIDE DEF u, n
<1>3. ASSUME NEW i \in 1..Len(u), u[i].role = "toolResult"
      PROVE  i > 1 /\ u[i - 1].role = "assistant" /\ u[i - 1].id = u[i].id
  <2>1. CASE i <= n
    <3>1. i \in 1..n /\ u[i] = s[i]
      BY <1>1, <1>2, <2>1
    <3>2. i > 1 /\ s[i - 1].role = "assistant" /\ s[i - 1].id = s[i].id
      BY <1>3, <3>1 DEF Attached, FollowsItsCall, n
    <3>3. i - 1 \in 1..n
      BY <1>1, <3>1, <3>2
    <3> QED BY <1>2, <3>1, <3>2, <3>3
  <2>2. CASE i > n
    <3> DEFINE j == i - n
    <3>1. j \in 1..Len(t) /\ i = n + j
      BY <1>1, <1>2, <2>2
    <3>2. u[i] = t[j]
      BY <1>2, <3>1
    <3>3. j > 1 /\ t[j - 1].role = "assistant" /\ t[j - 1].id = t[j].id
      BY <1>3, <3>1, <3>2 DEF Attached, FollowsItsCall
    <3>4. j - 1 \in 1..Len(t) /\ i - 1 = n + (j - 1) /\ i > 1
      BY <1>1, <3>1, <3>3
    <3>5. u[n + (j - 1)] = t[j - 1]
      BY <1>2, <3>4
    <3> QED BY <3>2, <3>3, <3>4, <3>5
  <2> QED BY <1>1, <1>2, <2>1, <2>2
<1>4. u \in Attached
  BY <1>2, <1>3 DEF Attached, FollowsItsCall
<1> QED BY <1>4 DEF u

\* A part of one that does not begin with a result.
LEMMA AttachedPart ==
    ASSUME NEW s \in Attached, NEW i \in 1..Len(s), NEW j \in i..Len(s), s[i].role # "toolResult"
    PROVE  SubSeq(s, i, j) \in Attached
<1> DEFINE t == SubSeq(s, i, j)
<1>1. s \in Seq(Given) /\ i \in Nat \ {0} /\ j \in Nat /\ j <= Len(s) /\ i <= j /\ Len(s) \in Nat
  BY DEF Attached
<1>2. t \in Seq(Given) /\ Len(t) = j - i + 1 /\ \A k \in 1..Len(t) : t[k] = s[i + k - 1]
  BY <1>1, Parts
<1> HIDE DEF t
<1>3. ASSUME NEW k \in 1..Len(t), t[k].role = "toolResult"
      PROVE  k > 1 /\ t[k - 1].role = "assistant" /\ t[k - 1].id = t[k].id
  <2> DEFINE m == i + k - 1
  <2>1. t[k] = s[m] /\ m \in 1..Len(s) /\ k \in Nat
    BY <1>1, <1>2
  <2>2. m > 1 /\ s[m - 1].role = "assistant" /\ s[m - 1].id = s[m].id
    BY <1>3, <2>1 DEF Attached, FollowsItsCall
  <2>3. k # 1
    BY <1>1, <1>3, <2>1
  <2>4. k > 1 /\ k - 1 \in 1..Len(t) /\ i + (k - 1) - 1 = m - 1
    BY <1>1, <1>2, <2>1, <2>3
  <2>5. t[k - 1] = s[m - 1]
    BY <1>2, <2>4
  <2> QED BY <2>1, <2>2, <2>4, <2>5
<1>4. t \in Attached
  BY <1>2, <1>3 DEF Attached, FollowsItsCall
<1> QED BY <1>4 DEF t

\* All but the last: no result loses its call.
LEMMA AttachedFront ==
    ASSUME NEW s \in Attached, s # <<>>
    PROVE  Front(s) \in Attached
<1> DEFINE t == Front(s)
           n == Len(s) - 1
<1>1. s \in Seq(Given)
  BY DEF Attached
<1>2. t \in Seq(Given) /\ Len(t) = n /\ n \in Nat /\ Len(s) = n + 1 /\ \A i \in 1..n : t[i] = s[i]
  BY <1>1, Fronts
<1> HIDE DEF t, n
<1>3. ASSUME NEW i \in 1..Len(t), t[i].role = "toolResult"
      PROVE  i > 1 /\ t[i - 1].role = "assistant" /\ t[i - 1].id = t[i].id
  <2>1. i \in 1..n /\ i \in 1..Len(s) /\ t[i] = s[i]
    BY <1>2
  <2>2. i > 1 /\ s[i - 1].role = "assistant" /\ s[i - 1].id = s[i].id
    BY <1>3, <2>1 DEF Attached, FollowsItsCall
  <2>3. i - 1 \in 1..n
    BY <1>2, <2>1, <2>2
  <2> QED BY <1>2, <2>1, <2>2, <2>3
<1>4. t \in Attached
  BY <1>2, <1>3 DEF Attached, FollowsItsCall
<1> QED BY <1>4 DEF t

\* What is kept keeps every result with its call: only compactions are left out.
LEMMA AttachedKept ==
    ASSUME NEW s \in Attached
    PROVE  Kept(s, Message) \in Attached
<1> DEFINE K(u) == Kept(u, Message)
           P == {u \in Seq(Given) : FollowsItsCall(u) =>
                    /\ FollowsItsCall(K(u))
                    /\ EndsWith(u, "assistant") => EndsWith(K(u), "assistant") /\ Last(K(u)) = Last(u)}
<1>1. <<>> \in P
  BY KeptOfNone DEF FollowsItsCall, EndsWith
<1>2. ASSUME NEW u \in P, NEW x \in Given
      PROVE  Append(u, x) \in P
  <2> DEFINE t == Append(u, x)
             k == K(u)
             kt == K(t)
  <2>1. u \in Seq(Given) /\ t \in Seq(Given) /\ Last(t) = x /\ t # <<>>
    BY Appended
  <2>2. k \in Seq(Given)
    BY <2>1, KeptElements
  <2>3. kt = IF x \in Message THEN Append(k, x) ELSE k
    BY <2>1, KeptAppended
  <2>4. FollowsItsCall(u) => FollowsItsCall(k) /\ (EndsWith(u, "assistant") => EndsWith(k, "assistant") /\ Last(k) = Last(u))
    BY <1>2
  <2>5. FollowsItsCall(t) => FollowsItsCall(u)
    <3> SUFFICES ASSUME FollowsItsCall(t)
                 PROVE  FollowsItsCall(u)
      OBVIOUS
    <3>1. Front(t) = u
      BY <2>1, Appended
    <3>2. t \in Attached
      BY <2>1 DEF Attached
    <3> HIDE DEF t
    <3>3. Front(t) \in Attached
      BY <2>1, <3>2, AttachedFront
    <3> QED BY <3>1, <3>3 DEF Attached
  <2>6. ASSUME FollowsItsCall(t), x.role = "toolResult"
        PROVE  EndsWith(u, "assistant") /\ Last(u).id = x.id
    <3> DEFINE n == Len(u)
    <3>1. n \in Nat /\ Len(t) = n + 1 /\ t[n + 1] = x /\ \A i \in 1..n : t[i] = u[i]
      BY <2>1, Appended
    <3> HIDE DEF t
    <3>2. n + 1 > 1 /\ t[(n + 1) - 1].role = "assistant" /\ t[(n + 1) - 1].id = x.id
      BY <2>6, <3>1 DEF FollowsItsCall
    <3>3. n \in 1..n /\ (n + 1) - 1 = n
      BY <3>1, <3>2
    <3>4. u # <<>>
      BY <3>3
    <3>5. Last(u) = u[n]
      BY <2>1, <3>4, Fronts
    <3> QED BY <3>1, <3>2, <3>3, <3>4, <3>5 DEF EndsWith
  <2>7. x \in Message <=> x.role # "compaction"
    BY Roles
  <2> HIDE DEF P, K, k, kt
  <2>8. ASSUME FollowsItsCall(t)
        PROVE  FollowsItsCall(kt)
    <3>1. k \in Attached
      BY <2>2, <2>4, <2>5, <2>8 DEF Attached
    <3>2. x.role # "toolResult" \/ (EndsWith(k, "assistant") /\ Last(k).id = x.id)
      BY <2>4, <2>5, <2>6, <2>8
    <3>3. Append(k, x) \in Attached
      BY <1>2, <3>1, <3>2, AttachedAdds
    <3> QED BY <2>3, <3>1, <3>3 DEF Attached
  <2>9. ASSUME EndsWith(t, "assistant")
        PROVE  EndsWith(kt, "assistant") /\ Last(kt) = Last(t)
    <3>1. x.role = "assistant" /\ kt = Append(k, x)
      BY <2>1, <2>3, <2>7, <2>9 DEF EndsWith
    <3>2. Last(kt) = x /\ kt # <<>>
      BY <2>2, <3>1, Appended
    <3> QED BY <2>1, <3>1, <3>2 DEF EndsWith
  <2> QED BY <2>1, <2>8, <2>9 DEF P, kt
<1> HIDE DEF P
<1>3. P = Seq(Given)
  <2>1. P \in SUBSET Seq(Given)
    BY DEF P
  <2> QED BY <1>1, <1>2, <2>1, SequencesInduct
<1>4. Kept(s, Message) \in Seq(Given) /\ s \in Seq(Given) /\ FollowsItsCall(s)
  BY KeptElements DEF Attached
<1> QED BY <1>3, <1>4 DEF P, Attached

\* The transcript rebuilt after a compaction: its entry, and what it keeps of the log.
LEMMA BuiltAnew ==
    ASSUME NEW es \in Seq(Given), NEW k \in 1..Len(es)
    PROVE  BuildSessionContext(Append(es, Compaction(k))) =
              <<Compaction(k)>> \o Kept(SubSeq(es, k, Len(es)), Message)
<1> DEFINE x == Compaction(k)
           t == Append(es, x)
           n == Len(es)
<1>1. n \in Nat /\ k \in Nat \ {0} /\ k <= n
  OBVIOUS
<1>2. x \in Given /\ x.role = "compaction" /\ x.kept = k
  BY <1>1, Made
<1> HIDE DEF x
<1>3. t \in Seq(Given) /\ Len(t) = n + 1 /\ t[n + 1] = x /\ \A i \in 1..n : t[i] = es[i]
  BY <1>2, Appended
<1> HIDE DEF t
<1>4. LatestCompaction(t) = n + 1
  BY <1>1, <1>2, <1>3, LatestUnique
<1>5. SubSeq(t, k, n) = SubSeq(es, k, n)
  <2> DEFINE a == SubSeq(t, k, n)
             b == SubSeq(es, k, n)
  <2>1. /\ a \in Seq(Given) /\ Len(a) = n - k + 1
        /\ \A i \in 1..Len(a) : a[i] = t[k + i - 1]
    BY <1>1, <1>3, Parts
  <2>2. /\ b \in Seq(Given) /\ Len(b) = n - k + 1
        /\ \A i \in 1..Len(b) : b[i] = es[k + i - 1]
    BY <1>1, Parts
  <2>3. \A i \in 1..Len(a) : k + i - 1 \in 1..n
    BY <1>1, <2>1
  <2>4. \A i \in 1..Len(a) : a[i] = b[i]
    BY <1>3, <2>1, <2>2, <2>3
  <2> HIDE DEF a, b
  <2>5. a = b
    BY <2>1, <2>2, <2>4
  <2> QED BY <2>5 DEF a, b
<1>6. SubSeq(t, n + 2, n + 1) = <<>>
  BY <1>1, <1>3, Parts
<1>7. BuildSessionContext(t) = <<x>> \o Kept(SubSeq(es, k, n), Message) \o <<>>
  <2>1. n + 1 # 0 /\ (n + 1) - 1 = n /\ (n + 1) + 1 = n + 2
    BY <1>1
  <2> QED BY <1>2, <1>3, <1>4, <1>5, <1>6, <2>1 DEF BuildSessionContext
<1> DEFINE kp == Kept(SubSeq(es, k, n), Message)
<1>8. kp \in Seq(Given)
  <2>1. SubSeq(es, k, n) \in Seq(Given)
    BY <1>1, Parts
  <2> QED BY <2>1, KeptElements
<1> HIDE DEF kp
<1>9. <<x>> \o kp \o <<>> = <<x>> \o kp
  BY <1>2, <1>8
<1> QED BY <1>7, <1>9 DEF t, x, kp, n

\* A compaction separates no result from its call, if it keeps the log from no result on.
LEMMA AttachedBuilt ==
    ASSUME NEW es \in Attached, NEW k \in 1..Len(es), es[k].role # "toolResult"
    PROVE  /\ Append(es, Compaction(k)) \in Attached
           /\ BuildSessionContext(Append(es, Compaction(k))) \in Attached
<1>1. es \in Seq(Given) /\ Len(es) \in Nat /\ k \in Nat \ {0}
  BY DEF Attached
<1> DEFINE x == Compaction(k)
           h == <<x>>
           kp == Kept(SubSeq(es, k, Len(es)), Message)
<1>2. x \in Given /\ x.role = "compaction"
  BY <1>1, Made
<1> HIDE DEF x
<1>3. h \in Attached
  <2>1. h \in Seq(Given) /\ \A i \in 1..Len(h) : h[i] = x
    BY <1>2
  <2> HIDE DEF h
  <2> QED BY <1>2, <2>1, AttachedWithoutResults
<1>4. kp \in Attached
  <2>1. SubSeq(es, k, Len(es)) \in Attached
    BY <1>1, AttachedPart
  <2> QED BY <2>1, AttachedKept
<1>5. BuildSessionContext(Append(es, x)) = h \o kp
  BY <1>1, BuiltAnew DEF x
<1> HIDE DEF h, kp
<1>6. Append(es, x) \in Attached
  BY <1>2, AttachedAdds
<1>7. h \o kp \in Attached
  BY <1>3, <1>4, AttachedJoined
<1> QED BY <1>5, <1>6, <1>7 DEF x

\* While tools run their call is last, and no compaction cuts the log at a result.
CallIsLast ==
    phase = "tool" => /\ EndsWith(messages, "assistant") /\ Last(messages).id = responses
                      /\ EndsWith(log, "assistant") /\ Last(log).id = responses
CutsAtNoResult == \A c \in Calls : compacting[c].cut # 0 => log[compacting[c].cut].role # "toolResult"

ToolsInv == ToolResultsStayAttached /\ CallIsLast /\ CutsAtNoResult

\* What is added to the transcript and to the file is then the last of each.
LEMMA BothEnd ==
    ASSUME NEW ms \in Seq(Given), NEW e \in Given
    PROVE  /\ Append(ms, e) # <<>> /\ Last(Append(ms, e)) = e
           /\ ms \o <<e>> # <<>> /\ Last(ms \o <<e>>) = e
<1>1. Append(ms, e) # <<>> /\ Last(Append(ms, e)) = e
  BY Appended
<1>2. ms \o <<e>> = Append(ms, e)
  OBVIOUS
<1> QED BY <1>1, <1>2

\* What callers do when they leave each other alone: a call takes its steps between runs.
LEMMA BetweenRuns ==
    ASSUME RetryInv, NEW p \in Prompts, BeginPrompt(p) \/ PromptStep(p)
    PROVE  phase = "idle" /\ phase' \in FirstPhase \cup {"idle"}
<1>1. CASE BeginPrompt(p)
  <2>1. phase = "idle"
    BY <1>1 DEF BeginPrompt
  <2> QED BY <1>1, <2>1 DEF BeginPrompt, BeginCompaction, NoRunChange
<1>2. CASE PromptStep(p)
  <2>1. pc[p] \notin Settled /\ pc[p] # "running"
    BY <1>2 DEF PromptStep, SubmitPrompt, NothingToHandle, PrepareRetry, HandleRun, RetryNow, RetryCancelled,
                SleepOver, CompactionReturns, CompactionSucceeds, CompactionFails, Settled
  <2>2. phase = "idle"
    BY <2>1, NobodyIsBehind DEF RetryInv, BashInv, RunsAreAwaited
  <2>3. RunOf(p)
    BY <1>2, CallFlushes DEF RetryInv, BashInv
  <2> QED BY <2>2, <2>3 DEF RunOf
<1> QED BY <1>1, <1>2

\* compact() is not called.
LEMMA NoManual ==
    ASSUME MaxManual = 0, RetryInv, [Next]_vars
    PROVE  ~ManualStep /\ ~CompactCalled /\ connected
BY DEF ManualStep, ManualBegins, ManualSucceeds, ManualFails, CompactCalled, RetryInv, Listening

\* The call of a tool that runs stays last.
LEMMA CallStaysLast ==
    ASSUME MaxManual = 0, RetryInv, SessionInv, CallIsLast, [Next]_vars
    PROVE  CallIsLast'
<1>0. messages \in Seq(Given) /\ log \in Seq(Given) /\ connected /\ responses \in Nat
  BY NoManual DEF SessionInv, TextOK, ControlOK
<1>1. CASE Respond
  <2>1. PICK stop \in Stops \cup {"stop", "aborted"} :
           /\ newest' = Assistant(responses + 1, stop)
           /\ EmitAssistant(newest')
    BY <1>1 DEF Respond
  <2> DEFINE x == newest'
  <2>2. x \in Given /\ x.role = "assistant" /\ x.id = responses + 1
    BY <1>0, <2>1, Made DEF Answers
  <2>3. messages' = Append(messages, x) /\ log' = log \o <<x>> /\ responses' = responses + 1
    BY <1>0, <1>1, <2>1 DEF EmitAssistant, Persist, Respond
  <2> HIDE DEF x
  <2>4. Append(messages, x) # <<>> /\ Last(Append(messages, x)) = x
    BY <1>0, <2>2, BothEnd
  <2>5. log \o <<x>> # <<>> /\ Last(log \o <<x>>) = x
    BY <1>0, <2>2, BothEnd
  <2>6. Last(messages') = x /\ Last(log') = x /\ messages' # <<>> /\ log' # <<>>
    BY <2>3, <2>4, <2>5, Zenon
  <2> QED BY <2>2, <2>3, <2>6 DEF CallIsLast, EndsWith
<1>2. CASE RunStep /\ ~Respond
  <2>1. phase' # "tool"
    BY <1>2 DEF RunStep, EmitPrompt, InitialPoll, Inject, ToolEnds, GuardStops, PollAfterTurn, PrepareTurn,
                CompactBeforeTurn, TurnCompactionEnds, RunEnds
  <2> QED BY <2>1 DEF CallIsLast
<1>3. ASSUME NEW p \in Prompts, BeginPrompt(p) \/ PromptStep(p)
      PROVE  CallIsLast'
  BY <1>3, BetweenRuns DEF CallIsLast, FirstPhase
<1>4. CASE (\E p \in Prompts : QueuePrompt(p)) \/ Steer \/ BashEnds
            \/ (\E how \in Interrupt : Interrupted(how)) \/ UNCHANGED vars
  <2>1. phase' = phase /\ responses' = responses /\ (phase # "idle" => UNCHANGED <<messages, log>>)
    BY <1>4 DEF QueuePrompt, Steer, BashEnds, Interrupted, NoRunChange, agentVars, sessionVars, budgetVars, vars
  <2> QED BY <2>1 DEF CallIsLast, EndsWith
<1> QED BY <1>1, <1>2, <1>3, <1>4, NoManual DEF Next

\* A cut stays where it is, in a log that is only added to.
LEMMA CutsStayPut ==
    ASSUME TextOK, CutsAtNoResult, Grows(log, log'),
           \A c \in Calls :
              \/ compacting'[c] = compacting[c] \/ compacting'[c].cut = 0
              \/ log'[compacting'[c].cut].role # "toolResult"
    PROVE  CutsAtNoResult'
<1> SUFFICES ASSUME NEW c \in Calls, compacting'[c].cut # 0
             PROVE  log'[compacting'[c].cut].role # "toolResult"
  BY DEF CutsAtNoResult
<1>1. CASE compacting'[c] = compacting[c]
  <2>1. compacting[c].cut \in 1..Len(log)
    <3>1. compacting[c].cut \in Nat /\ compacting[c].cut <= Len(log) /\ Len(log) \in Nat
      BY DEF TextOK
    <3> QED BY <1>1, <3>1
  <2>2. log'[compacting[c].cut] = log[compacting[c].cut]
    BY <2>1 DEF Grows
  <2> QED BY <1>1, <2>2 DEF CutsAtNoResult
<1> QED BY <1>1

\* A step that ends leaves every result with its call.
LEMMA EndedAttached ==
    ASSUME TextOK, NEW ms \in Attached, NEW lg \in Attached, Ended(ms, lg)
    PROVE  messages' \in Attached /\ log' \in Attached
<1>1. pendingBash \in Attached
  <2>1. pendingBash \in Seq(BashResults) /\ pendingBash \in Seq(Given)
    BY Roles DEF TextOK
  <2>2. \A i \in 1..Len(pendingBash) : pendingBash[i].role # "toolResult"
    BY <2>1, Roles
  <2> QED BY <2>1, <2>2, AttachedWithoutResults
<1> QED BY <1>1, AttachedJoined DEF Ended

\* A compaction leaves every result with its call.
LEMMA CompactedAttached ==
    ASSUME TextOK, ToolsInv, NEW c \in Calls, compacting[c].cut # 0
    PROVE  LET lg == AppendCompaction(compacting[c].cut)
           IN  lg \in Attached /\ BuildSessionContext(lg) \in Attached
<1>1. log \in Attached
  BY DEF TextOK, ToolsInv, ToolResultsStayAttached, Attached
<1>2. compacting[c].cut \in 1..Len(log)
  <2>1. compacting[c].cut \in Nat /\ compacting[c].cut <= Len(log) /\ Len(log) \in Nat
    BY DEF TextOK
  <2> QED BY <2>1
<1>3. log[compacting[c].cut].role # "toolResult"
  BY DEF ToolsInv, CutsAtNoResult
<1> QED BY <1>1, <1>2, <1>3, AttachedBuilt DEF AppendCompaction

\* The run leaves every result with its call.
LEMMA RunTools ==
    ASSUME MaxManual = 0, RetryInv, SessionInv, ToolsInv, RunStep
    PROVE  /\ messages' \in Attached /\ log' \in Attached
           /\ \A c \in Calls :
                 \/ compacting'[c] = compacting[c] \/ compacting'[c].cut = 0
                 \/ log'[compacting'[c].cut].role # "toolResult"
<1>0. /\ messages \in Attached /\ log \in Attached /\ "run" \in Calls /\ connected
      /\ messages \in Seq(Given) /\ log \in Seq(Given) /\ responses \in Nat
      /\ compacting \in [Calls -> [retry : BOOLEAN, cut : Nat]]
  BY DEF RetryInv, Listening, SessionInv, TextOK, ControlOK, ToolsInv, ToolResultsStayAttached, Attached, Calls
<1>1. ASSUME NEW xs \in Seq(Given), Emitted(xs), compacting' = compacting,
             \A i \in 1..Len(xs) :
                \/ xs[i].role = "user"
                \/ xs[i].role = "assistant" /\ Respond /\ xs = <<newest'>>
                \/ xs = <<ToolResult(responses)>> /\ ToolEnds
      PROVE  messages' \in Attached /\ log' \in Attached
  <2>1. messages' = messages \o xs /\ log' = log \o xs
    BY <1>0, <1>1 DEF Emitted
  <2>2. CASE xs = <<ToolResult(responses)>> /\ ToolEnds
    <3> DEFINE r == ToolResult(responses)
    <3>1. r \in Given /\ r.id = responses
      BY <1>0, Made
    <3>2. /\ EndsWith(messages, "assistant") /\ Last(messages).id = responses
          /\ EndsWith(log, "assistant") /\ Last(log).id = responses
      BY <2>2 DEF ToolEnds, ToolsInv, CallIsLast
    <3> HIDE DEF r
    <3>3. Append(messages, r) \in Attached /\ Append(log, r) \in Attached
      BY <1>0, <3>1, <3>2, AttachedAdds
    <3>4. messages \o <<r>> = Append(messages, r) /\ log \o <<r>> = Append(log, r)
      BY <1>0, <3>1
    <3> QED BY <2>1, <2>2, <3>3, <3>4 DEF r
  <2>3. CASE ~(xs = <<ToolResult(responses)>> /\ ToolEnds)
    <3>1. \A i \in 1..Len(xs) : xs[i].role # "toolResult"
      BY <1>1, <2>3
    <3>2. xs \in Attached
      BY <3>1, AttachedWithoutResults
    <3> QED BY <1>0, <2>1, <3>2, AttachedJoined
  <2> QED BY <2>2, <2>3
<1>2. ASSUME Over("run")
      PROVE  \A c \in Calls : compacting'[c] = compacting[c] \/ compacting'[c].cut = 0
  BY <1>0, <1>2 DEF Over
<1>3. CASE CompactBeforeTurn
  <2>1. UNCHANGED <<messages, log>>
    BY <1>3 DEF CompactBeforeTurn, sessionVars
  <2>2. PICK cut \in CutPoints(log) :
          compacting' = [compacting EXCEPT !["run"] = [retry |-> FALSE, cut |-> cut]]
    BY <1>3 DEF CompactBeforeTurn
  <2>3. log[cut].role # "toolResult"
    BY <1>0, <2>2, Cuts
  <2>4. \A c \in Calls : compacting'[c] = compacting[c] \/ compacting'[c].cut = cut
    BY <1>0, <2>2
  <2> QED BY <1>0, <2>1, <2>3, <2>4
<1>4. CASE UNCHANGED <<messages, log, pendingBash>> /\ Over("run")
  BY <1>0, <1>2, <1>4
<1>5. CASE /\ Compacts("run") /\ log' = AppendCompaction(compacting["run"].cut)
           /\ messages' = BuildSessionContext(log') /\ Over("run")
  <2>1. log' \in Attached /\ messages' \in Attached
    BY <1>0, <1>5, CompactedAttached DEF Compacts, SessionInv
  <2> QED BY <1>2, <1>5, <2>1
<1> QED BY <1>1, <1>3, <1>4, <1>5, RunTexts DEF SessionInv

\* So does a call of prompt().
LEMMA CallTools ==
    ASSUME SessionInv, ToolsInv, NEW p \in Prompts, QueuePrompt(p) \/ BeginPrompt(p) \/ PromptStep(p)
    PROVE  /\ messages' \in Attached /\ log' \in Attached
           /\ \A c \in Calls :
                 \/ compacting'[c] = compacting[c] \/ compacting'[c].cut = 0
                 \/ log'[compacting'[c].cut].role # "toolResult"
<1>0. /\ messages \in Attached /\ log \in Attached /\ p \in Calls /\ TextOK /\ RunsAreAwaited
      /\ messages \in Seq(Given) /\ log \in Seq(Given)
      /\ compacting \in [Calls -> [retry : BOOLEAN, cut : Nat]]
  BY DEF SessionInv, TextOK, ToolsInv, ToolResultsStayAttached, Attached, Calls
<1>1. ASSUME Over(p)
      PROVE  \A c \in Calls : compacting'[c] = compacting[c] \/ compacting'[c].cut = 0
  BY <1>0, <1>1 DEF Over
<1>2. ASSUME NEW ms \in Attached
      PROVE  WithoutTrailingAssistant(ms) \in Attached
  BY AttachedFront DEF WithoutTrailingAssistant, EndsWith
<1>3. CASE CallEnds(p)
  BY <1>0, <1>1, <1>3, EndedAttached DEF CallEnds
<1>4. CASE CallRetries(p)
  BY <1>0, <1>2, <1>4 DEF CallRetries
<1>5. ASSUME NEW verdict, NEW ms \in Attached, NEW lg \in Attached, Grows(log, lg),
             BeginCompaction(p, verdict, ms, lg)
      PROVE  /\ messages' \in Attached /\ log' \in Attached
             /\ \A c \in Calls :
                   \/ compacting'[c] = compacting[c] \/ compacting'[c].cut = 0
                   \/ log'[compacting'[c].cut].role # "toolResult"
  <2>1. ms \in Seq(Given) /\ lg \in Seq(Given)
    BY DEF Attached
  <2>2. messages' \in Attached /\ log' \in Attached
    BY <1>2, <1>5 DEF BeginCompaction
  <2> QED BY <1>0, <1>5, <2>1, <2>2, BegunText
<1>6. CASE CallChecksFirst(p)
  <2> DEFINE ms == messages \o pendingBash
             lg == log \o pendingBash
  <2>1. pendingBash \in Seq(Given) /\ pendingBash \in Attached
    <3>1. pendingBash \in Seq(BashResults) /\ pendingBash \in Seq(Given)
      BY <1>0, Roles DEF TextOK
    <3>2. \A i \in 1..Len(pendingBash) : pendingBash[i].role # "toolResult"
      BY <3>1, Roles
    <3> QED BY <3>1, <3>2, AttachedWithoutResults
  <2>2. ms \in Attached /\ lg \in Attached /\ Grows(log, lg)
    BY <1>0, <2>1, AttachedJoined, Growth
  <2>3. \E verdict : BeginCompaction(p, verdict, ms, lg)
    BY <1>6 DEF CallChecksFirst, Begun
  <2> HIDE DEF ms, lg
  <2> QED BY <1>5, <2>2, <2>3
<1>7. CASE CallChecks(p)
  <2>1. \E verdict : BeginCompaction(p, verdict, messages, log)
    BY <1>7 DEF CallChecks, Begun
  <2>2. Grows(log, log)
    BY <1>0, Growth
  <2> QED BY <1>0, <1>5, <2>1, <2>2
<1>8. CASE CallCompacts(p)
  <2> DEFINE lg == AppendCompaction(compacting[p].cut)
             rebuilt == BuildSessionContext(lg)
  <2>1. lg \in Attached /\ rebuilt \in Attached
    BY <1>0, <1>8, CompactedAttached DEF CallCompacts
  <2>2. PICK ms : /\ Ended(ms, lg)
                  /\ ms = rebuilt \/ (EndsWith(rebuilt, "assistant") /\ ms = Front(rebuilt))
    BY <1>8 DEF CallCompacts
  <2> HIDE DEF lg, rebuilt
  <2>3. ms \in Attached
    BY <2>1, <2>2, AttachedFront DEF EndsWith
  <2>4. messages' \in Attached /\ log' \in Attached
    BY <1>0, <2>1, <2>2, <2>3, EndedAttached
  <2> QED BY <1>1, <1>8, <2>4 DEF CallCompacts
<1> QED BY <1>0, <1>3, <1>4, <1>6, <1>7, <1>8, CallTexts

\* Every step does.
LEMMA ToolsStep ==
    ASSUME MaxManual = 0, RetryInv, SessionInv, ToolsInv, [Next]_vars
    PROVE  ToolsInv'
<1>0. Grows(log, log') /\ TextOK /\ ControlOK /\ messages \in Attached /\ log \in Attached
  BY TextStep DEF SessionInv, ToolsInv, ToolResultsStayAttached, Attached, TextOK
<1>1. /\ messages' \in Attached /\ log' \in Attached
      /\ \A c \in Calls :
            \/ compacting'[c] = compacting[c] \/ compacting'[c].cut = 0
            \/ log'[compacting'[c].cut].role # "toolResult"
  <2>1. CASE RunStep \/ \E p \in Prompts : QueuePrompt(p) \/ BeginPrompt(p) \/ PromptStep(p)
    BY <2>1, RunTools, CallTools
  <2>2. CASE BashEnds
    <3>1. PICK b \in Bashes :
            IF phase # "idle"
            THEN pendingBash' = Append(pendingBash, Bash(b)) /\ UNCHANGED <<messages, log>>
            ELSE messages' = Append(messages, Bash(b)) /\ log' = Append(log, Bash(b)) /\ UNCHANGED pendingBash
      BY <2>2 DEF BashEnds
    <3>2. Bash(b) \in Given /\ Bash(b).role = "bash"
      BY Made, Roles
    <3>3. messages' \in Attached /\ log' \in Attached
      BY <1>0, <3>1, <3>2, AttachedAdds
    <3> QED BY <2>2, <3>3 DEF BashEnds, callVars
  <2>3. CASE Steer \/ (\E how \in Interrupt : Interrupted(how)) \/ UNCHANGED vars
    <3>1. UNCHANGED <<messages, log, compacting>>
      BY <2>3 DEF Steer, Interrupted, agentVars, sessionVars, callVars, vars
    <3> QED BY <1>0, <3>1
  <2> QED BY <2>1, <2>2, <2>3, NoManual DEF Next
<1>2. CallIsLast'
  BY CallStaysLast DEF ToolsInv
<1>3. CutsAtNoResult'
  BY <1>0, <1>1, CutsStayPut DEF ToolsInv
<1> QED BY <1>1, <1>2, <1>3 DEF ToolsInv, ToolResultsStayAttached, Attached

-----------------------------------------------------------------------------
(* The transcript and what a restart would rebuild.                        *)

\* What a message adds to the log it adds to what is rebuilt of the log.
LEMMA BuildExtends ==
    ASSUME NEW es \in Seq(Given), NEW xs \in Seq(Given), \A i \in 1..Len(xs) : xs[i].role # "compaction"
    PROVE  BuildSessionContext(es \o xs) = BuildSessionContext(es) \o xs
<1> DEFINE t == es \o xs
           n == Len(es)
           m == Len(xs)
           c == LatestCompaction(es)
<1>1. n \in Nat /\ m \in Nat
  OBVIOUS
<1>2. /\ t \in Seq(Given) /\ Len(t) = n + m /\ \A i \in 1..n : t[i] = es[i]
      /\ \A i \in 1..m : t[n + i] = xs[i]
  BY Joined
<1>3. /\ c \in 0..n /\ (c # 0 => es[c].role = "compaction")
      /\ \A i \in 1..n : es[i].role = "compaction" => i <= c
  BY LatestIs
<1>4. LatestCompaction(t) = c
  <2> HIDE DEF t, c
  <2>1. c \in 0..Len(t) /\ (c # 0 => t[c].role = "compaction")
    BY <1>1, <1>2, <1>3
  <2>2. ASSUME NEW i \in 1..Len(t), t[i].role = "compaction"
        PROVE  i <= c
    <3>1. CASE i <= n
      BY <1>1, <1>2, <1>3, <2>2, <3>1
    <3>2. CASE i > n
      <4>1. i - n \in 1..m /\ i = n + (i - n)
        BY <1>1, <1>2, <3>2
      <4> QED BY <1>2, <2>2, <4>1
    <3> QED BY <1>1, <3>1, <3>2
  <2> QED BY <1>2, <2>1, <2>2, LatestUnique
<1>5. CASE c = 0
  BY <1>4, <1>5 DEF BuildSessionContext
<1>6. CASE c # 0
  <2> DEFINE k == es[c].kept
             a == SubSeq(es, k, c - 1)
             b == SubSeq(es, c + 1, n)
             at == SubSeq(t, k, c - 1)
             bt == SubSeq(t, c + 1, n + m)
  <2>1. es[c] \in Given /\ k \in Nat \ {0} /\ c - 1 \in Nat /\ c + 1 \in Nat \ {0} /\ c - 1 <= n /\ c <= n /\ c \in 1..n
    BY <1>1, <1>3, <1>6, Roles
  <2> HIDE DEF t, c, k
  <2>2. at = a
    <3>1. /\ a \in Seq(Given) /\ Len(a) = (IF k <= c - 1 THEN (c - 1) - k + 1 ELSE 0)
          /\ \A i \in 1..Len(a) : a[i] = es[k + i - 1]
      BY <1>1, <2>1, Parts
    <3>2. /\ at \in Seq(Given) /\ Len(at) = (IF k <= c - 1 THEN (c - 1) - k + 1 ELSE 0)
          /\ \A i \in 1..Len(at) : at[i] = t[k + i - 1]
      <4>1. c - 1 <= Len(t)
        BY <1>1, <1>2, <2>1
      <4> QED BY <1>1, <1>2, <2>1, <4>1, Parts
    <3>3. \A i \in 1..Len(a) : k + i - 1 \in 1..n
      BY <1>1, <2>1, <3>1
    <3>4. \A i \in 1..Len(a) : at[i] = a[i]
      BY <1>2, <3>1, <3>2, <3>3
    <3> HIDE DEF a, at
    <3> QED BY <3>1, <3>2, <3>4
  <2>3. bt = b \o xs
    <3>1. /\ b \in Seq(Given) /\ Len(b) = n - c /\ \A i \in 1..Len(b) : b[i] = es[c + i]
      <4>1. /\ b \in Seq(Given) /\ Len(b) = (IF c + 1 <= n THEN n - (c + 1) + 1 ELSE 0)
            /\ \A i \in 1..Len(b) : b[i] = es[(c + 1) + i - 1]
        BY <1>1, <2>1, Parts
      <4> HIDE DEF b
      <4>2. Len(b) = n - c
        BY <1>1, <2>1, <4>1
      <4>3. \A i \in 1..Len(b) : (c + 1) + i - 1 = c + i
        BY <2>1
      <4> QED BY <4>1, <4>2, <4>3
    <3>2. /\ bt \in Seq(Given) /\ Len(bt) = (n - c) + m /\ \A i \in 1..Len(bt) : bt[i] = t[c + i]
      <4>1. n + m <= Len(t) /\ n + m \in Nat
        BY <1>1, <1>2
      <4>2. /\ bt \in Seq(Given) /\ Len(bt) = (IF c + 1 <= n + m THEN (n + m) - (c + 1) + 1 ELSE 0)
            /\ \A i \in 1..Len(bt) : bt[i] = t[(c + 1) + i - 1]
        BY <1>2, <2>1, <4>1, Parts
      <4> HIDE DEF bt
      <4>3. Len(bt) = (n - c) + m
        BY <1>1, <2>1, <4>2
      <4>4. \A i \in 1..Len(bt) : (c + 1) + i - 1 = c + i
        BY <2>1
      <4> QED BY <4>2, <4>3, <4>4
    <3> DEFINE u == b \o xs
    <3>3. /\ u \in Seq(Given) /\ Len(u) = (n - c) + m /\ \A i \in 1..(n - c) : u[i] = b[i]
          /\ \A i \in 1..m : u[(n - c) + i] = xs[i]
      BY <3>1, Joined
    <3> HIDE DEF b, bt, u
    <3>4. ASSUME NEW i \in 1..Len(bt)
          PROVE  bt[i] = u[i]
      <4>1. CASE i <= n - c
        <5>1. i \in 1..(n - c) /\ c + i \in 1..n
          BY <1>1, <2>1, <3>2, <4>1
        <5> QED BY <1>2, <3>1, <3>2, <3>3, <5>1
      <4>2. CASE i > n - c
        <5> DEFINE j == i - (n - c)
        <5>1. j \in 1..m /\ i = (n - c) + j /\ c + i = n + j
          <6>1. n \in Nat /\ m \in Nat /\ c \in 1..n /\ i \in 1..((n - c) + m) /\ i > n - c
            BY <1>1, <2>1, <3>2, <4>2
          <6> HIDE DEF n, m
          <6> QED BY <6>1
        <5> HIDE DEF j
        <5> QED BY <1>2, <3>2, <3>3, <5>1
      <4> QED BY <1>1, <2>1, <3>2, <4>1, <4>2
    <3>5. bt = u
      BY <3>2, <3>3, <3>4
    <3> QED BY <3>5 DEF u
  <2> DEFINE h == <<es[c]>>
             kp == Kept(a, Message)
  <2>4. h \in Seq(Given) /\ kp \in Seq(Given) /\ b \in Seq(Given)
    <3>1. a \in Seq(Given) /\ b \in Seq(Given)
      BY <1>1, <2>1, Parts
    <3> HIDE DEF a, b
    <3> QED BY <2>1, <3>1, KeptElements
  <2>5. BuildSessionContext(es) = h \o kp \o b
    BY <1>6 DEF BuildSessionContext, c, k
  <2>6. BuildSessionContext(t) = h \o kp \o (b \o xs)
    <3>1. t[c] = es[c]
      BY <1>2, <2>1
    <3>2. BuildSessionContext(t) = <<t[c]>> \o Kept(SubSeq(t, t[c].kept, c - 1), Message) \o SubSeq(t, c + 1, Len(t))
      BY <1>4, <1>6 DEF BuildSessionContext
    <3>3. BuildSessionContext(t) = h \o Kept(at, Message) \o bt
      BY <1>2, <3>1, <3>2 DEF k
    <3> HIDE DEF a, at, b, bt, h
    <3> QED BY <2>2, <2>3, <3>3
  <2> HIDE DEF h, kp, b
  <2>7. h \o kp \o (b \o xs) = (h \o kp \o b) \o xs
    <3>1. h \o kp \in Seq(Given)
      BY <2>4, Joined
    <3> DEFINE q == h \o kp
    <3> HIDE DEF q
    <3>2. q \in Seq(Given)
      BY <3>1 DEF q
    <3>3. q \o (b \o xs) = (q \o b) \o xs
      BY <2>4, <3>2
    <3> QED BY <3>3 DEF q
  <2> QED BY <2>5, <2>6, <2>7 DEF t
<1> QED BY <1>5, <1>6

\* The transcript ms is what a restart would rebuild of the log lg, but for errors.
Same(ms, lg) == WithoutErrors(ms) = WithoutErrors(BuildSessionContext(lg))

\* It stays so when both get the same entries and no compaction is among them.
LEMMA SameExtends ==
    ASSUME NEW ms \in Seq(Given), NEW lg \in Seq(Given), Same(ms, lg),
           NEW xs \in Seq(Given), \A i \in 1..Len(xs) : xs[i].role # "compaction"
    PROVE  Same(ms \o xs, lg \o xs)
<1> DEFINE b == BuildSessionContext(lg)
<1>1. b \in Seq(Given) /\ BuildSessionContext(lg \o xs) = b \o xs
  BY BuildTyped, BuildExtends
<1>2. WithoutErrors(ms) = WithoutErrors(b)
  BY DEF Same
<1> HIDE DEF b
<1>3. ASSUME NEW u \in Seq(Given)
      PROVE  WithoutErrors(u \o xs) = WithoutErrors(u) \o WithoutErrors(xs)
  <2> DEFINE S == {e \in Entry : ~IsErrorEntry(e)}
  <2> HIDE DEF S
  <2>1. Kept(u \o xs, S) = Kept(u, S) \o Kept(xs, S)
    BY KeptConcat
  <2> QED BY <2>1 DEF WithoutErrors, S
<1> QED BY <1>1, <1>2, <1>3 DEF Same

\* An error that is taken out makes no difference.
LEMMA ErrorTakenOut ==
    ASSUME NEW ms \in Seq(Given), EndsWith(ms, "assistant"), IsError(Last(ms).stop)
    PROVE  WithoutErrors(Front(ms)) = WithoutErrors(ms)
<1> DEFINE f == Front(ms)
           x == Last(ms)
           S == {e \in Entry : ~IsErrorEntry(e)}
<1>1. f \in Seq(Given) /\ x \in Given /\ ms = Append(f, x)
  BY Fronts DEF EndsWith
<1>2. x \notin S
  BY DEF EndsWith, IsErrorEntry
<1> HIDE DEF f, x, S
<1>3. Kept(Append(f, x), S) = Kept(f, S)
  BY <1>1, <1>2, KeptAppended
<1> QED BY <1>1, <1>3 DEF WithoutErrors, f, S

\* Transcript and log at the end of a step.
LEMMA EndedSame ==
    ASSUME pendingBash \in Seq(BashResults), NEW ms \in Seq(Given), NEW lg \in Seq(Given), Same(ms, lg),
           Ended(ms, lg)
    PROVE  Same(messages', log')
<1>1. pendingBash \in Seq(Given) /\ \A i \in 1..Len(pendingBash) : pendingBash[i].role # "compaction"
  BY Roles
<1>2. Same(ms \o pendingBash, lg \o pendingBash)
  BY <1>1, SameExtends
<1> QED BY <1>2 DEF Ended

\* The last assistant message of a transcript that ends with one.
LEMMA LastAssistantIs ==
    ASSUME NEW ms \in Seq(Given), EndsWith(ms, "assistant")
    PROVE  LastAssistantIn(ms) = Last(ms) /\ Last(ms) \in Answers
<1> DEFINE n == Len(ms)
           I == {i \in 1..n : ms[i].role = "assistant"}
<1>1. n \in Nat \ {0} /\ Last(ms) = ms[n] /\ Last(ms) \in Given /\ Last(ms).role = "assistant"
  BY Fronts DEF EndsWith
<1>2. n \in I /\ \A y \in I : n >= y
  BY <1>1
<1>3. Max(I) = n
  <2>1. Max(I) \in I /\ \A y \in I : Max(I) >= y
    BY <1>2 DEF Max
  <2> DEFINE k == Max(I)
  <2>2. k \in 1..n /\ k >= n
    BY <1>2, <2>1
  <2> HIDE DEF k, n
  <2>3. k = n
    BY <1>1, <2>2
  <2> QED BY <2>3 DEF k
<1>4. SelectLastInSeq(ms, LAMBDA e : e.role = "assistant") = n
  BY <1>2, <1>3 DEF SelectLastInSeq
<1> QED BY <1>1, <1>4 DEF LastAssistantIn, Answers

\* Only an error is compacted for and then retried, if no response ends in a length stop.
LEMMA OnlyErrorsRecover ==
    ASSUME "length" \notin Stops, NEW a \in Answers, NEW skip, "recover" \in Verdicts(a, skip)
    PROVE  IsError(a.stop) /\ a.stop = "overflow"
<1>1. a.stop # "length"
  BY DEF Answers, Given
<1> QED BY <1>1 DEF Verdicts, IsError, IsOverflow

\* Behind a response the transcript ends with it, unless something follows it.
Behind == phase \in Answered \/ \E p \in Prompts : pc[p] = "post"
TailIsLast == Behind /\ lastAssistant # None /\ EndsWith(messages, "assistant") => Last(messages) = lastAssistant
SleepsAreRetries == \A p \in Prompts : pc[p] = "sleep" => handled[p] # None /\ handled[p].stop = "retryable"

ContextInv == ContextMatchesLog /\ TailIsLast /\ SleepsAreRetries

\* The steps of a call leave none behind a run.
LEMMA NoneBehind ==
    ASSUME RetryInv, NEW p \in Prompts, BeginPrompt(p) \/ PromptStep(p), Concurrent = FALSE
    PROVE  ~Behind'
<1>1. phase' \notin Answered
  BY BetweenRuns DEF FirstPhase, Answered
<1>2. Flushed(p)
  BY CallFlushes DEF RetryInv, BashInv
<1>3. \A q \in Prompts : q # p => pc[q] \in Settled
  <2>1. CASE BeginPrompt(p)
    BY <2>1 DEF BeginPrompt
  <2>2. CASE PromptStep(p)
    <3>1. pc[p] \notin Settled
      BY <2>2 DEF PromptStep, SubmitPrompt, NothingToHandle, PrepareRetry, HandleRun, RetryNow, RetryCancelled,
                  SleepOver, CompactionReturns, CompactionSucceeds, CompactionFails, Settled
    <3> QED BY <3>1 DEF RetryInv, Alone
  <2> QED BY <2>1, <2>2
<1>4. \A q \in Prompts : pc'[q] # "post"
  BY <1>2, <1>3 DEF Flushed, Settled
<1> QED BY <1>1, <1>4 DEF Behind

\* What follows the response that the session looks at.
LEMMA TailStep ==
    ASSUME Concurrent = FALSE, MaxManual = 0, RetryInv, SessionInv, TailIsLast, [Next]_vars
    PROVE  TailIsLast'
<1>0. messages \in Seq(Given) /\ connected /\ RunsAreAwaited /\ Alone /\ responses \in Nat
  BY NoManual DEF SessionInv, TextOK, RetryInv, ControlOK
<1>1. CASE Respond
  <2>1. PICK stop \in Stops \cup {"stop", "aborted"} :
           /\ newest' = Assistant(responses + 1, stop)
           /\ EmitAssistant(newest')
    BY <1>1 DEF Respond
  <2>2. messages' = Append(messages, newest') /\ lastAssistant' = newest'
    BY <1>0, <2>1 DEF EmitAssistant
  <2>3. newest' \in Given
    BY <1>0, <2>1, Made DEF Answers
  <2> QED BY <1>0, <2>2, <2>3, Appended DEF TailIsLast
<1>2. CASE EmitPrompt \/ InitialPoll \/ Inject \/ PrepareTurn \/ TurnCompactionEnds
  <2>1. phase # "idle" /\ phase' \in {"start", "inject", "turn"} /\ pc' = pc
    BY <1>2 DEF EmitPrompt, InitialPoll, Inject, PrepareTurn, TurnCompactionEnds, RunOnly, callVars
  <2>2. \A q \in Prompts : pc[q] # "post"
    BY <1>0, <2>1, NobodyIsBehind DEF RunsAreAwaited, Settled
  <2> QED BY <2>1, <2>2 DEF TailIsLast, Behind, Answered
<1>3. CASE ToolEnds
  <2>1. messages' = Append(messages, ToolResult(responses))
    BY <1>3 DEF ToolEnds
  <2>2. ToolResult(responses) \in Given /\ ToolResult(responses).role = "toolResult"
    BY <1>0, Made
  <2>3. Last(messages').role = "toolResult"
    BY <1>0, <2>1, <2>2, Appended
  <2> QED BY <2>3 DEF TailIsLast, EndsWith
<1>4. CASE GuardStops \/ PollAfterTurn \/ CompactBeforeTurn \/ RunEnds
  <2>1. phase \in Answered /\ UNCHANGED <<messages, lastAssistant>>
    BY <1>4 DEF GuardStops, PollAfterTurn, CompactBeforeTurn, RunEnds, sessionVars, Answered
  <2> QED BY <2>1 DEF TailIsLast, Behind, EndsWith
<1>5. ASSUME NEW p \in Prompts, BeginPrompt(p) \/ PromptStep(p)
      PROVE  TailIsLast'
  BY <1>5, NoneBehind DEF TailIsLast
<1>6. CASE BashEnds
  <2>1. PICK b \in Bashes :
          IF phase # "idle"
          THEN pendingBash' = Append(pendingBash, Bash(b)) /\ UNCHANGED <<messages, log>>
          ELSE messages' = Append(messages, Bash(b)) /\ log' = Append(log, Bash(b)) /\ UNCHANGED pendingBash
    BY <1>6 DEF BashEnds
  <2>2. Bash(b) \in Given /\ Bash(b).role = "bash"
    BY Made, Roles
  <2>3. UNCHANGED <<phase, pc, lastAssistant>>
    BY <1>6 DEF BashEnds, NoRunChange, callVars
  <2>4. CASE messages' = messages
    BY <2>3, <2>4 DEF TailIsLast, Behind, EndsWith
  <2>5. CASE messages' = Append(messages, Bash(b))
    <3>1. Last(messages').role = "bash"
      BY <1>0, <2>2, <2>5, Appended
    <3> QED BY <3>1 DEF TailIsLast, EndsWith
  <2> QED BY <2>1, <2>4, <2>5
<1>7. CASE (\E p \in Prompts : QueuePrompt(p)) \/ Steer \/ (\E how \in Interrupt : Interrupted(how))
            \/ UNCHANGED vars
  <2>1. UNCHANGED <<phase, messages, lastAssistant>>
    BY <1>7 DEF QueuePrompt, Steer, Interrupted, agentVars, sessionVars, vars
  <2>2. \A q \in Prompts : pc'[q] = "post" => pc[q] = "post"
    BY <1>0, <1>7 DEF QueuePrompt, Steer, Interrupted, callVars, vars, RunsAreAwaited
  <2> QED BY <2>1, <2>2 DEF TailIsLast, Behind, EndsWith
<1> QED BY <1>1, <1>2, <1>3, <1>4, <1>5, <1>6, <1>7, NoManual DEF Next, RunStep

\* No way to end a step is to sleep.
LEMMA EndsAwake ==
    ASSUME RunsAreAwaited, NEW p \in Prompts, NEW ms, NEW lg,
           GoOn(p, ms, lg) \/ Continue(p, ms, lg) \/ ContinueIfQueued(p, ms, lg)
    PROVE  pc'[p] # "sleep"
<1>1. pc \in [Prompts -> PC] /\ stage[p] \in Stage
  BY DEF RunsAreAwaited
<1>2. CASE GoOn(p, ms, lg)
  <2>1. pc' = [pc EXCEPT ![p] = "build"] \/ pc' = [pc EXCEPT ![p] = "done"]
    BY <1>1, <1>2 DEF GoOn, Leave, Stage
  <2> QED BY <1>1, <2>1
<1>3. CASE Continue(p, ms, lg)
  <2>1. pc' = [pc EXCEPT ![p] = "rejected"] \/ pc' = [pc EXCEPT ![p] = "running"]
    BY <1>3 DEF Continue, Leave, StartRun
  <2> QED BY <1>1, <2>1
<1> QED BY <1>2, <1>3 DEF ContinueIfQueued

\* Who sleeps waits to retry.
LEMMA SleepStep ==
    ASSUME RunsAreAwaited, SessionInv, SleepsAreRetries, [Next]_vars
    PROVE  SleepsAreRetries'
<1>0. pc \in [Prompts -> PC] /\ handled \in [Prompts -> Answers \cup {None}] /\ lastAssistant \in Answers \cup {None}
  BY DEF RunsAreAwaited, SessionInv, ControlOK
<1>1. ASSUME NEW p \in Prompts, QueuePrompt(p) \/ BeginPrompt(p) \/ PromptStep(p)
      PROVE  SleepsAreRetries'
  <2>1. \A q \in Prompts : q # p => pc'[q] = pc[q] /\ handled'[q] = handled[q]
    <3>1. \A q \in Prompts : q # p => pc'[q] = pc[q]
      <4>1. CASE QueuePrompt(p)
        BY <1>0, <4>1 DEF QueuePrompt
      <4>2. CASE BeginPrompt(p) \/ PromptStep(p)
        BY <4>2, CallFlushes DEF Flushed
      <4> QED BY <1>1, <4>1, <4>2
    <3>2. \A q \in Prompts : q # p => handled'[q] = handled[q]
      BY <1>0, <1>1 DEF QueuePrompt, BeginPrompt, PromptStep, SubmitPrompt, NothingToHandle, PrepareRetry,
                        HandleRun, RetryNow, RetryCancelled, SleepOver, CompactionReturns
    <3> QED BY <3>1, <3>2
  <2>2. CASE PrepareRetry(p)
    <3>1. handled'[p] = lastAssistant /\ lastAssistant # None /\ lastAssistant.stop = "retryable"
      BY <1>0, <2>2 DEF PrepareRetry, MayRetry, IsRetryableError
    <3> QED BY <2>1, <3>1 DEF SleepsAreRetries
  <2>3. CASE ~PrepareRetry(p)
    <3>1. pc'[p] # "sleep"
      <4>1. CASE QueuePrompt(p)
        BY <1>0, <4>1 DEF QueuePrompt
      <4>2. CASE BeginPrompt(p)
        BY <1>0, <4>2 DEF BeginPrompt, BeginCompaction
      <4>3. CASE SubmitPrompt(p)
        BY <1>0, <4>3 DEF SubmitPrompt, Leave, StartRun
      <4>4. CASE NothingToHandle(p) \/ RetryNow(p) \/ CompactionReturns(p)
        <5>1. \E ms, lg : GoOn(p, ms, lg) \/ Continue(p, ms, lg) \/ ContinueIfQueued(p, ms, lg)
          BY <4>4 DEF NothingToHandle, RetryNow, CompactionReturns, CompactionSucceeds, CompactionFails
        <5> QED BY <5>1, EndsAwake
      <4>5. CASE HandleRun(p) \/ RetryCancelled(p)
        <5>1. \E a : CheckCompaction(p, a)
          BY <4>5 DEF HandleRun, RetryCancelled
        <5>2. \/ \E verdict : BeginCompaction(p, verdict, messages, log)
              \/ ContinueIfQueued(p, messages, log)
          BY <5>1 DEF CheckCompaction
        <5>3. ASSUME NEW verdict, BeginCompaction(p, verdict, messages, log)
              PROVE  pc'[p] # "sleep"
          BY <1>0, <5>3 DEF BeginCompaction
        <5> QED BY <5>2, <5>3, EndsAwake
      <4> QED BY <1>1, <2>3, <4>1, <4>2, <4>3, <4>4, <4>5 DEF PromptStep
    <3> QED BY <2>1, <3>1 DEF SleepsAreRetries
  <2> QED BY <2>2, <2>3
<1>2. CASE RunStep
  <2>1. \A q \in Prompts : handled'[q] = handled[q] /\ (pc'[q] = "sleep" => pc[q] = "sleep")
    BY <1>0, <1>2 DEF RunStep, EmitPrompt, InitialPoll, Inject, Respond, ToolEnds, GuardStops, PollAfterTurn,
                PrepareTurn, CompactBeforeTurn, TurnCompactionEnds, RunEnds, RunOnly, callVars
  <2> QED BY <2>1 DEF SleepsAreRetries
<1>3. CASE ManualStep \/ Steer \/ BashEnds \/ CompactCalled \/ (\E how \in Interrupt : Interrupted(how))
            \/ UNCHANGED vars
  <2>1. UNCHANGED <<pc, handled>>
    BY <1>3 DEF ManualStep, ManualBegins, ManualSucceeds, ManualFails, ManualOver, Steer, BashEnds, CompactCalled,
                Interrupted, callVars, vars
  <2> QED BY <2>1 DEF SleepsAreRetries
<1> QED BY <1>1, <1>2, <1>3 DEF Next

\* A compaction that begins takes nothing out of the transcript but an error.
LEMMA BegunSame ==
    ASSUME "length" \notin Stops, NEW p, NEW a, NEW skip, NEW ms \in Seq(Given), NEW lg, Same(ms, lg),
           EndsWith(ms, "assistant") => a = Last(ms) \/ (a \in Answers /\ a.stop = "retryable"),
           Begun(p, a, skip, ms, lg)
    PROVE  Same(messages', log')
<1>1. PICK verdict \in Verdicts(a, skip) : BeginCompaction(p, verdict, ms, lg)
  BY DEF Begun
<1>2. log' = lg /\ messages' = IF verdict = "recover" THEN WithoutTrailingAssistant(ms) ELSE ms
  BY <1>1 DEF BeginCompaction
<1>3. CASE verdict = "recover" /\ EndsWith(ms, "assistant")
  <2>1. a \in Answers
    BY <1>3, LastAssistantIs
  <2>2. IsError(a.stop) /\ a.stop = "overflow"
    BY <1>1, <1>3, <2>1, OnlyErrorsRecover
  <2>3. a = Last(ms)
    BY <1>3, <2>2
  <2> QED BY <1>2, <1>3, <2>2, <2>3, ErrorTakenOut DEF WithoutTrailingAssistant, Same
<1>4. CASE ~(verdict = "recover" /\ EndsWith(ms, "assistant"))
  BY <1>2, <1>4 DEF WithoutTrailingAssistant
<1> QED BY <1>3, <1>4

\* A step of prompt() changes the transcript as it changes the log.
LEMMA CallSame ==
    ASSUME "length" \notin Stops, SessionInv, ContextInv,
           NEW p \in Prompts, QueuePrompt(p) \/ BeginPrompt(p) \/ PromptStep(p)
    PROVE  ContextMatchesLog'
<1>0. /\ messages \in Seq(Given) /\ log \in Seq(Given) /\ Same(messages, log) /\ p \in Calls
      /\ pendingBash \in Seq(BashResults) /\ TextOK /\ RunsAreAwaited
      /\ lastAssistant \in Answers \cup {None} /\ handled[p] \in Answers \cup {None}
  BY DEF SessionInv, TextOK, ControlOK, ContextInv, ContextMatchesLog, Same, Calls
<1> SUFFICES Same(messages', log')
  BY DEF ContextMatchesLog, Same
<1>1. CASE CallEnds(p)
  BY <1>0, <1>1, EndedSame DEF CallEnds
<1>2. CASE CallRetries(p)
  <2>1. Behind /\ lastAssistant # None /\ lastAssistant.stop = "retryable"
    BY <1>2 DEF CallRetries, MayRetry, IsRetryableError, Behind
  <2>2. CASE EndsWith(messages, "assistant")
    <3>1. Last(messages) = lastAssistant
      BY <2>1, <2>2 DEF ContextInv, TailIsLast
    <3>2. IsError(Last(messages).stop)
      BY <2>1, <3>1 DEF IsError
    <3> QED BY <1>0, <1>2, <2>2, <3>2, ErrorTakenOut DEF CallRetries, WithoutTrailingAssistant, Same
  <2>3. CASE ~EndsWith(messages, "assistant")
    BY <1>0, <1>2, <2>3 DEF CallRetries, WithoutTrailingAssistant
  <2> QED BY <2>2, <2>3
<1>3. CASE CallChecksFirst(p)
  <2> DEFINE ms == messages \o pendingBash
             lg == log \o pendingBash
             a  == LastAssistantIn(ms)
  <2>1. pendingBash \in Seq(Given) /\ \A i \in 1..Len(pendingBash) : pendingBash[i].role # "compaction"
    BY <1>0, Roles
  <2>2. ms \in Seq(Given) /\ Same(ms, lg)
    BY <1>0, <2>1, SameExtends, Joined
  <2>3. Begun(p, a, FALSE, ms, lg)
    BY <1>3 DEF CallChecksFirst
  <2> HIDE DEF ms, lg
  <2>4. EndsWith(ms, "assistant") => a = Last(ms)
    BY <2>2, LastAssistantIs
  <2> QED BY <2>2, <2>3, <2>4, BegunSame
<1>4. CASE CallChecks(p)
  <2>1. CASE pc[p] = "post" /\ lastAssistant # None /\ Begun(p, lastAssistant, TRUE, messages, log)
    <3>1. EndsWith(messages, "assistant") => lastAssistant = Last(messages)
      BY <2>1 DEF ContextInv, TailIsLast, Behind
    <3> QED BY <1>0, <2>1, <3>1, BegunSame
  <2>2. CASE pc[p] = "sleep" /\ Begun(p, handled[p], TRUE, messages, log)
    <3>1. handled[p] \in Answers /\ handled[p].stop = "retryable"
      BY <1>0, <2>2 DEF ContextInv, SleepsAreRetries
    <3> QED BY <1>0, <2>2, <3>1, BegunSame
  <2> QED BY <1>4, <2>1, <2>2 DEF CallChecks
<1>5. CASE CallCompacts(p)
  <2> DEFINE lg == AppendCompaction(compacting[p].cut)
             rebuilt == BuildSessionContext(lg)
  <2>1. compacting[p].cut \in Nat \ {0}
    BY <1>0, <1>5 DEF CallCompacts, TextOK
  <2>2. lg \in Seq(Given)
    BY <1>0, <2>1, CompactedTyped DEF AppendCompaction
  <2>3. rebuilt \in Seq(Given) /\ Same(rebuilt, lg)
    BY <2>2, BuildTyped DEF Same
  <2>4. PICK ms : /\ Ended(ms, lg)
                  /\ \/ ms = rebuilt
                     \/ EndsWith(rebuilt, "assistant") /\ IsError(Last(rebuilt).stop) /\ ms = Front(rebuilt)
    BY <1>5 DEF CallCompacts
  <2> HIDE DEF lg
  <2>5. ms \in Seq(Given) /\ Same(ms, lg)
    <3> HIDE DEF rebuilt
    <3>1. CASE ms = rebuilt
      BY <2>3, <3>1
    <3>2. CASE EndsWith(rebuilt, "assistant") /\ IsError(Last(rebuilt).stop) /\ ms = Front(rebuilt)
      <4>1. ms \in Seq(Given)
        BY <2>3, <3>2, Fronts DEF EndsWith
      <4>2. WithoutErrors(ms) = WithoutErrors(rebuilt)
        BY <2>3, <3>2, ErrorTakenOut
      <4> QED BY <2>3, <4>1, <4>2 DEF Same
    <3> QED BY <2>4, <3>1, <3>2
  <2> QED BY <1>0, <2>2, <2>4, <2>5, EndedSame
<1> QED BY <1>0, <1>1, <1>2, <1>3, <1>4, <1>5, CallTexts

\* Every step does.
LEMMA ContextStep ==
    ASSUME Concurrent = FALSE, MaxManual = 0, "length" \notin Stops,
           RetryInv, SessionInv, ContextInv, [Next]_vars
    PROVE  ContextInv'
<1>0. /\ messages \in Seq(Given) /\ log \in Seq(Given) /\ Same(messages, log) /\ connected
      /\ TextOK /\ ControlOK /\ RunsAreAwaited
      /\ compacting \in [Calls -> [retry : BOOLEAN, cut : Nat]] /\ "run" \in Calls
  BY NoManual DEF SessionInv, TextOK, ContextInv, ContextMatchesLog, Same, Calls
<1>1. ASSUME NEW xs \in Seq(Given), \A i \in 1..Len(xs) : xs[i].role # "compaction",
             messages' = messages \o xs, log' = log \o xs
      PROVE  ContextMatchesLog'
  BY <1>0, <1>1, SameExtends DEF ContextMatchesLog, Same
<1>2. ASSUME UNCHANGED <<messages, log>>
      PROVE  ContextMatchesLog'
  BY <1>0, <1>2 DEF ContextMatchesLog, Same
<1>3. CASE RunStep
  <2>1. ASSUME NEW xs \in Seq(Given), Emitted(xs),
               \A i \in 1..Len(xs) :
                  \/ xs[i].role = "user"
                  \/ xs[i].role = "assistant" /\ Respond /\ xs = <<newest'>>
                  \/ xs = <<ToolResult(responses)>> /\ ToolEnds
        PROVE  ContextMatchesLog'
    <3>1. messages' = messages \o xs /\ log' = log \o xs
      BY <1>0, <2>1 DEF Emitted
    <3>2. ASSUME NEW i \in 1..Len(xs)
          PROVE  xs[i].role # "compaction"
      <4>1. CASE xs = <<ToolResult(responses)>>
        <5> DEFINE r == ToolResult(responses)
        <5>1. r.role = "toolResult"
          BY <1>0, Made DEF ControlOK
        <5> HIDE DEF r
        <5>2. Len(<<r>>) = 1 /\ <<r>>[1] = r
          OBVIOUS
        <5>3. xs = <<r>>
          BY <4>1 DEF r
        <5> QED BY <5>1, <5>2, <5>3
      <4> QED BY <2>1, <4>1
    <3> QED BY <1>1, <3>1, <3>2
  <2>2. ASSUME CompactBeforeTurn
        PROVE  ContextMatchesLog'
    BY <1>2, <2>2 DEF CompactBeforeTurn, sessionVars
  <2>3. ASSUME messages' = BuildSessionContext(log')
        PROVE  ContextMatchesLog'
    BY <2>3 DEF ContextMatchesLog
  <2>4. ContextMatchesLog'
    BY <1>0, <1>2, <1>3, <2>1, <2>2, <2>3, RunTexts
  <2> QED BY <1>0, <2>4, TailStep, SleepStep DEF ContextInv
<1>4. ASSUME NEW p \in Prompts, QueuePrompt(p) \/ BeginPrompt(p) \/ PromptStep(p)
      PROVE  ContextInv'
  BY <1>0, <1>4, CallSame, TailStep, SleepStep DEF ContextInv
<1>5. CASE BashEnds
  <2>1. PICK b \in Bashes :
          IF phase # "idle"
          THEN pendingBash' = Append(pendingBash, Bash(b)) /\ UNCHANGED <<messages, log>>
          ELSE messages' = Append(messages, Bash(b)) /\ log' = Append(log, Bash(b)) /\ UNCHANGED pendingBash
    BY <1>5 DEF BashEnds
  <2>2. ASSUME messages' = Append(messages, Bash(b)), log' = Append(log, Bash(b))
        PROVE  ContextMatchesLog'
    <3> DEFINE x == Bash(b)
               ys == <<x>>
    <3>1. x \in Given /\ x.role = "bash"
      BY Made, Roles
    <3>2. messages' = Append(messages, x) /\ log' = Append(log, x)
      BY <2>2
    <3> HIDE DEF x
    <3>3. ys \in Seq(Given)
      BY <3>1
    <3>4. \A i \in 1..Len(ys) : ys[i].role # "compaction"
      BY <3>1
    <3>5. messages' = messages \o ys
      BY <1>0, <3>1, <3>2
    <3>6. log' = log \o ys
      BY <1>0, <3>1, <3>2
    <3> HIDE DEF ys
    <3> QED BY <1>1, <3>3, <3>4, <3>5, <3>6
  <2>3. ContextMatchesLog'
    BY <1>2, <2>1, <2>2
  <2> QED BY <1>0, <2>3, TailStep, SleepStep DEF ContextInv
<1>6. CASE Steer \/ (\E how \in Interrupt : Interrupted(how)) \/ UNCHANGED vars
  <2>1. UNCHANGED <<messages, log>>
    BY <1>6 DEF Steer, Interrupted, agentVars, sessionVars, vars
  <2> QED BY <1>0, <1>2, <2>1, TailStep, SleepStep DEF ContextInv
<1> QED BY <1>3, <1>4, <1>5, <1>6, NoManual DEF Next

\* It is so at first.
LEMMA AloneInit ==
    ASSUME Init
    PROVE  RetryInv /\ SessionInv /\ ToolsInv /\ ContextInv
<1>1. SessionInv
  BY SessionInvInit
<1>2. RetryInv
  BY DEF Init, RetryInv, BashInv, RunsAreAwaited, Listening, Alone, ResponseIsLast, Answered,
         WillRetryTellsTruth, Settled, PC, Stage
<1>3. ToolsInv
  BY DEF Init, ToolsInv, ToolResultsStayAttached, FollowsItsCall, CallIsLast, CutsAtNoResult
<1>4. ContextMatchesLog
  <2>1. messages = <<>> /\ log = <<>> /\ <<>> \in Seq(Given)
    BY DEF Init
  <2>2. LatestCompaction(<<>>) \in 0..Len(<<>>)
    BY <2>1, LatestIs
  <2>3. BuildSessionContext(<<>>) = <<>>
    BY <2>2 DEF BuildSessionContext
  <2> QED BY <2>1, <2>3 DEF ContextMatchesLog
<1>5. TailIsLast /\ SleepsAreRetries
  BY DEF Init, TailIsLast, EndsWith, SleepsAreRetries
<1> QED BY <1>1, <1>2, <1>3, <1>4, <1>5 DEF ContextInv

\* A tool result directly follows the assistant message with its call, in the transcript the
\* model is shown and in the log a restart reads: while bash results are deferred and flushed,
\* prompts and retries take errors out, and compactions cut the log at an entry that was
\* chosen before the summary was asked for.  Without the hypotheses it does not hold: a second
\* prompt that is rejected flushes bash results into the batch of the first (the run
\* AgentSession_bash_order), and when a run starts while compact() keeps the session from
\* listening, its call may go unsaved and its results not.
THEOREM ResultsStayAttached ==
    ASSUME Concurrent = FALSE, MaxManual = 0
    PROVE  Spec => []ToolResultsStayAttached
<1>1. Init => RetryInv /\ SessionInv /\ ToolsInv
  BY AloneInit
<1>2. RetryInv /\ SessionInv /\ ToolsInv /\ [Next]_vars => RetryInv' /\ SessionInv' /\ ToolsInv'
  BY RetryStep, SessionInvStep, ToolsStep DEF RetryInv
<1>3. ToolsInv => ToolResultsStayAttached
  BY DEF ToolsInv
<1> QED BY <1>1, <1>2, <1>3, PTL DEF Spec

\* The transcript the agent holds is, but for errors, the context a restart would rebuild from
\* the session's log, although the two are changed in different places: while events are
\* persisted, an error is taken out of the transcript before a retry and stays in the log, a
\* compaction appends to the log and replaces the transcript, and bash results are deferred
\* and flushed.  With a length stop it does not hold: _checkCompaction takes the response out
\* as if it were an error, and the log keeps it.
THEOREM TranscriptMatchesLog ==
    ASSUME Concurrent = FALSE, MaxManual = 0, "length" \notin Stops
    PROVE  Spec => []ContextMatchesLog
<1>1. Init => RetryInv /\ SessionInv /\ ContextInv
  BY AloneInit
<1>2. RetryInv /\ SessionInv /\ ContextInv /\ [Next]_vars => RetryInv' /\ SessionInv' /\ ContextInv'
  BY RetryStep, SessionInvStep, ContextStep DEF RetryInv
<1>3. ContextInv => ContextMatchesLog
  BY DEF ContextInv
<1> QED BY <1>1, <1>2, <1>3, PTL DEF Spec

-----------------------------------------------------------------------------
(* Whether the transcript can be continued.                                *)

Ready(s) == s # <<>> /\ ~EndsWith(s, "assistant")
AfterTools == EndsWith(messages, "toolResult") /\ EndsWith(log, "toolResult")

\* What the run has when it asks the model, and what is left when its last response is
\* taken out.
RunReady ==
    /\ phase = "prompt" => inflight # <<>>
    /\ phase \in {"start", "turn"} => Ready(messages)
    /\ phase = "inject" => Ready(messages) \/ inflight # <<>>
    /\ phase = "toolsEnd" => AfterTools
    /\ phase \in {"prepare", "compacting"} => inflight # <<>> \/ AfterTools
    /\ Behind => messages # <<>> /\ (EndsWith(messages, "assistant") => Ready(Front(messages)))

\* A call that sleeps or compacts will find a transcript it can continue, and no call has been
\* rejected.
CallsReady ==
    /\ \A p \in Prompts : pc[p] = "sleep" => Ready(messages)
    /\ \A p \in Prompts : pc[p] = "compact" => messages # <<>>
    /\ \A p \in Prompts : compacting[p].retry = FALSE
    /\ NothingRejected

ReadyInv == RunReady /\ CallsReady

\* A message that is no response makes the transcript one that can be continued.
LEMMA ReadyAppended ==
    ASSUME NEW s \in Seq(Given), NEW e \in Given, e.role # "assistant"
    PROVE  Ready(Append(s, e))
BY Appended DEF Ready, EndsWith

\* So do messages of users, if there are any.
LEMMA ReadyExtended ==
    ASSUME NEW s \in Seq(Given), NEW xs \in Seq(Given), \A i \in 1..Len(xs) : xs[i].role # "assistant",
           Ready(s) \/ xs # <<>>
    PROVE  Ready(s \o xs)
<1> DEFINE t == s \o xs
           n == Len(s)
           m == Len(xs)
<1>1. n \in Nat /\ m \in Nat
  OBVIOUS
<1>2. /\ t \in Seq(Given) /\ Len(t) = n + m /\ \A i \in 1..n : t[i] = s[i]
      /\ \A i \in 1..m : t[n + i] = xs[i]
  BY Joined
<1> HIDE DEF t
<1>3. CASE m = 0
  <2>1. xs = <<>>
    BY <1>3
  <2>2. s \o xs = s
    BY <2>1
  <2> QED BY <2>1, <2>2
<1>4. CASE m # 0
  <2>1. t # <<>>
    BY <1>1, <1>2, <1>4
  <2>2. Last(t) = t[n + m]
    BY <1>2, <2>1, Fronts
  <2>3. m \in 1..m
    BY <1>1, <1>4
  <2>4. Last(t) = xs[m]
    BY <1>2, <2>2, <2>3
  <2>5. Ready(t)
    BY <2>1, <2>3, <2>4 DEF Ready, EndsWith
  <2> QED BY <2>5 DEF t
<1> QED BY <1>3, <1>4

\* What the run has injected.
LEMMA UsersReady ==
    ASSUME messages \in Seq(Given), inflight \in Seq(UserIds), EmitUsers(inflight),
           Ready(messages) \/ inflight # <<>>
    PROVE  Ready(messages')
<1> DEFINE xs == [i \in 1..Len(inflight) |-> User(inflight[i])]
<1>1. xs \in Seq(Given) /\ Len(xs) = Len(inflight) /\ \A i \in 1..Len(xs) : xs[i].role = "user"
  BY Made
<1>2. inflight # <<>> => xs # <<>>
  <2>1. inflight # <<>> => Len(inflight) # 0
    OBVIOUS
  <2> HIDE DEF xs
  <2> QED BY <1>1, <2>1
<1>3. messages' = messages \o xs
  BY DEF EmitUsers
<1> HIDE DEF xs
<1> QED BY <1>1, <1>2, <1>3, ReadyExtended

\* A compaction of a log that ends with a tool result ends the transcript with it.
LEMMA BuiltAfterTools ==
    ASSUME NEW es \in Seq(Given), EndsWith(es, "toolResult"), NEW k \in 1..Len(es)
    PROVE  Ready(BuildSessionContext(Append(es, Compaction(k))))
<1> DEFINE n == Len(es)
           a == SubSeq(es, k, n)
           x == Compaction(k)
           b == BuildSessionContext(Append(es, x))
<1>1. n \in Nat /\ k \in Nat \ {0} /\ k <= n
  OBVIOUS
<1>2. es # <<>> /\ es[n].role = "toolResult" /\ es[n] \in Given
  BY Fronts DEF EndsWith
<1>3. a \in Seq(Given) /\ Len(a) = n - k + 1 /\ \A i \in 1..Len(a) : a[i] = es[k + i - 1]
  BY <1>1, Parts
<1>4. b = <<x>> \o Kept(a, Message)
  BY BuiltAnew
<1>5. x \in Given
  BY <1>1, Made
<1> HIDE DEF a, x, b
<1>6. a # <<>> /\ Last(a) = es[n]
  <2>1. Len(a) \in Nat \ {0} /\ Len(a) \in 1..Len(a) /\ k + Len(a) - 1 = n
    BY <1>1, <1>3
  <2>2. a # <<>>
    BY <2>1
  <2> QED BY <1>3, <2>1, <2>2, Fronts
<1> DEFINE f == Front(a)
           y == Last(a)
<1>7. f \in Seq(Given) /\ a = Append(f, y) /\ y \in Given /\ y.role = "toolResult"
  BY <1>2, <1>3, <1>6, Fronts
<1>8. y \in Message
  BY <1>7, Roles
<1> HIDE DEF f, y
<1>9. Kept(a, Message) = Append(Kept(f, Message), y)
  BY <1>7, <1>8, KeptAppended
<1> DEFINE kf == Kept(f, Message)
<1>10. kf \in Seq(Given)
  BY <1>7, KeptElements
<1> HIDE DEF kf
<1> DEFINE h == <<x>>
<1>11. h \in Seq(Given)
  BY <1>5
<1> HIDE DEF h
<1>12. b = Append(h \o kf, y) /\ h \o kf \in Seq(Given)
  BY <1>4, <1>7, <1>9, <1>10, <1>11, AppendConcat DEF h, kf
<1> DEFINE g == h \o kf
<1> HIDE DEF g
<1>13. b = Append(g, y) /\ g \in Seq(Given)
  BY <1>12 DEF g
<1>14. Ready(b)
  BY <1>7, <1>13, ReadyAppended
<1> QED BY <1>14 DEF b, x

\* The run asks the model with a transcript that does not end with a response.
LEMMA RunReadyStep ==
    ASSUME MaxManual = 0, RetryInv, SessionInv, ReadyInv, RunStep
    PROVE  RunReady'
<1>0. /\ messages \in Seq(Given) /\ log \in Seq(Given) /\ inflight \in Seq(UserIds) /\ queue \in Seq(UserIds)
      /\ connected /\ RunsAreAwaited /\ Alone /\ responses \in Nat /\ RunReady
  BY DEF SessionInv, TextOK, RetryInv, Listening, ControlOK, ReadyInv
<1>1. phase # "idle" /\ \A q \in Prompts : pc[q] # "post"
  <2>1. phase # "idle"
    BY DEF RunStep, EmitPrompt, InitialPoll, Inject, Respond, ToolEnds, GuardStops, PollAfterTurn,
           PrepareTurn, CompactBeforeTurn, TurnCompactionEnds, RunEnds
  <2> QED BY <1>0, <2>1, NobodyIsBehind DEF RunsAreAwaited, Settled
<1>2. CASE EmitPrompt \/ Inject
  <2>1. EmitUsers(inflight) /\ phase' \in {"start", "turn"} /\ pc' = pc
    BY <1>2 DEF EmitPrompt, Inject, RunOnly, callVars
  <2>2. Ready(messages) \/ inflight # <<>>
    BY <1>0, <1>2 DEF EmitPrompt, Inject, RunReady
  <2>3. Ready(messages')
    BY <1>0, <2>1, <2>2, UsersReady
  <2> QED BY <1>1, <2>1, <2>3 DEF RunReady, Behind, Answered
<1>3. CASE InitialPoll
  <2>1. phase = "start" /\ phase' = "inject" /\ messages' = messages /\ pc' = pc
    BY <1>3 DEF InitialPoll, RunOnly, callVars
  <2>2. Ready(messages)
    BY <1>0, <2>1 DEF RunReady
  <2> QED BY <1>1, <2>1, <2>2 DEF RunReady, Behind, Answered, Ready, EndsWith
<1>4. CASE Respond
  <2>1. PICK stop \in Stops \cup {"stop", "aborted"} :
           /\ newest' = Assistant(responses + 1, stop)
           /\ EmitAssistant(newest')
    BY <1>4 DEF Respond
  <2>2. messages' = Append(messages, newest') /\ newest' \in Given
    BY <1>0, <2>1, Made DEF EmitAssistant, Answers
  <2>3. phase = "turn" /\ phase' \in {"tool", "ending", "turnEnd"}
    BY <1>4 DEF Respond
  <2>4. Ready(messages)
    BY <1>0, <2>3 DEF RunReady
  <2>5. Front(messages') = messages /\ messages' # <<>>
    BY <1>0, <2>2, Appended
  <2> QED BY <2>3, <2>4, <2>5 DEF RunReady
<1>5. CASE ToolEnds
  <2> DEFINE r == ToolResult(responses)
  <2>1. r \in Given /\ r.role = "toolResult"
    BY <1>0, Made
  <2>2. messages' = Append(messages, r) /\ log' = log \o <<r>> /\ phase' = "toolsEnd"
    BY <1>0, <1>5 DEF ToolEnds, Persist
  <2> HIDE DEF r
  <2>3. Append(messages, r) # <<>> /\ Last(Append(messages, r)) = r
    BY <1>0, <2>1, BothEnd
  <2>4. log \o <<r>> # <<>> /\ Last(log \o <<r>>) = r
    BY <1>0, <2>1, BothEnd
  <2>5. Last(messages') = r /\ Last(log') = r /\ messages' # <<>> /\ log' # <<>>
    BY <2>2, <2>3, <2>4, Zenon
  <2> QED BY <2>1, <2>2, <2>5 DEF RunReady, AfterTools, EndsWith
<1>6. CASE GuardStops
  <2>1. phase \in Answered /\ phase' = "ending" /\ messages' = messages
    BY <1>6 DEF GuardStops, Answered
  <2>2. messages # <<>> /\ (EndsWith(messages, "assistant") => Ready(Front(messages)))
    BY <1>0, <2>1 DEF RunReady, Behind
  <2> QED BY <2>1, <2>2 DEF RunReady, EndsWith
<1>7. CASE PollAfterTurn
  <2>1. /\ phase \in Answered /\ UNCHANGED <<messages, log>> /\ phase' \in {"prepare", "ending"}
        /\ phase' = "prepare" => phase = "toolsEnd" \/ queue # <<>>
        /\ inflight' = Polled
    BY <1>7 DEF PollAfterTurn, Poll, Answered
  <2>2. messages # <<>> /\ (EndsWith(messages, "assistant") => Ready(Front(messages)))
    BY <1>0, <2>1 DEF RunReady, Behind
  <2>3. queue # <<>> => inflight' # <<>>
    BY <2>1 DEF Polled
  <2>4. phase' = "prepare" => inflight' # <<>> \/ AfterTools'
    BY <1>0, <2>1, <2>3 DEF RunReady, AfterTools, EndsWith
  <2> QED BY <2>1, <2>2, <2>4 DEF RunReady, EndsWith
<1>8. PollIfNothingPolled /\ inflight # <<>> => inflight' # <<>>
  BY DEF PollIfNothingPolled
<1>9. CASE PrepareTurn
  <2>1. phase = "prepare" /\ phase' = "inject" /\ messages' = messages /\ pc' = pc /\ PollIfNothingPolled
    BY <1>9 DEF PrepareTurn, RunOnly, callVars
  <2>2. inflight # <<>> \/ AfterTools
    BY <1>0, <2>1 DEF RunReady
  <2>3. AfterTools => Ready(messages)
    BY DEF AfterTools, Ready, EndsWith
  <2> QED BY <1>1, <1>8, <2>1, <2>2, <2>3 DEF RunReady, Behind, Answered, Ready, EndsWith
<1>10. CASE CompactBeforeTurn
  <2>1. phase = "prepare" /\ phase' = "compacting" /\ UNCHANGED <<messages, log, inflight>> /\ phase \in Answered
    BY <1>10 DEF CompactBeforeTurn, sessionVars, Answered
  <2>2. messages # <<>> /\ (EndsWith(messages, "assistant") => Ready(Front(messages)))
    BY <1>0, <2>1 DEF RunReady, Behind
  <2>3. inflight' # <<>> \/ AfterTools'
    BY <1>0, <2>1 DEF RunReady, AfterTools, EndsWith
  <2> QED BY <2>1, <2>2, <2>3 DEF RunReady, EndsWith
<1>11. CASE TurnCompactionEnds
  <2>1. phase = "compacting" /\ phase' = "inject" /\ pc' = pc /\ PollIfNothingPolled
    BY <1>11 DEF TurnCompactionEnds
  <2>2. inflight # <<>> \/ AfterTools
    BY <1>0, <2>1 DEF RunReady
  <2>3. ASSUME AfterTools
        PROVE  Ready(messages')
    <3>1. CASE UNCHANGED <<log, messages>>
      BY <2>3, <3>1 DEF AfterTools, Ready, EndsWith
    <3>2. CASE /\ Compacts("run") /\ log' = AppendCompaction(compacting["run"].cut)
               /\ messages' = BuildSessionContext(log')
      <4>1. compacting["run"].cut \in Nat /\ compacting["run"].cut <= Len(log) /\ compacting["run"].cut # 0
        BY <3>2 DEF Compacts, SessionInv, TextOK, Calls
      <4>2. compacting["run"].cut \in 1..Len(log)
        BY <1>0, <4>1
      <4> QED BY <1>0, <2>3, <3>2, <4>2, BuiltAfterTools DEF AfterTools, AppendCompaction
    <3> QED BY <1>11, <3>1, <3>2 DEF TurnCompactionEnds
  <2> QED BY <1>1, <1>8, <2>1, <2>2, <2>3 DEF RunReady, Behind, Answered
<1>12. CASE RunEnds
  <2>1. phase \in Answered /\ phase' = "idle" /\ messages' = messages
    BY <1>12 DEF RunEnds, Answered
  <2>2. messages # <<>> /\ (EndsWith(messages, "assistant") => Ready(Front(messages)))
    BY <1>0, <2>1 DEF RunReady, Behind
  <2> QED BY <2>1, <2>2 DEF RunReady, EndsWith
<1> QED BY <1>2, <1>3, <1>4, <1>5, <1>6, <1>7, <1>9, <1>10, <1>11, <1>12 DEF RunStep

\* No call does anything meanwhile.
LEMMA RunLeavesCalls ==
    ASSUME RetryInv, SessionInv, ReadyInv, RunStep
    PROVE  CallsReady'
<1>0. /\ RunsAreAwaited /\ Alone /\ CallsReady /\ pc \in [Prompts -> PC]
      /\ compacting \in [Calls -> [retry : BOOLEAN, cut : Nat]]
  BY DEF SessionInv, TextOK, RetryInv, ReadyInv, RunsAreAwaited
<1>1. phase # "idle"
  BY DEF RunStep, EmitPrompt, InitialPoll, Inject, Respond, ToolEnds, GuardStops, PollAfterTurn,
         PrepareTurn, CompactBeforeTurn, TurnCompactionEnds, RunEnds
<1>2. \A q \in Prompts : pc[q] \notin {"sleep", "compact"}
  BY <1>0, <1>1, NobodyIsBehind DEF RunsAreAwaited, Settled
<1>3. pc' = pc \/ pc' = [pc EXCEPT ![owner] = "post"]
  BY DEF RunStep, EmitPrompt, InitialPoll, Inject, Respond, ToolEnds, GuardStops, PollAfterTurn,
         PrepareTurn, CompactBeforeTurn, TurnCompactionEnds, RunEnds, RunOnly, callVars
<1>4. \A q \in Prompts : pc'[q] \notin {"sleep", "compact", "rejected"}
  BY <1>0, <1>2, <1>3 DEF CallsReady, NothingRejected
<1>5. \A q \in Prompts : compacting'[q].retry = FALSE
  <2>1. compacting' = compacting \/ \E cut : compacting' = [compacting EXCEPT !["run"] = [retry |-> FALSE, cut |-> cut]]
    BY DEF RunStep, EmitPrompt, InitialPoll, Inject, Respond, ToolEnds, GuardStops, PollAfterTurn,
           PrepareTurn, CompactBeforeTurn, TurnCompactionEnds, RunEnds, RunOnly, callVars, CompactionOver
  <2> QED BY <1>0, <2>1 DEF CallsReady, Calls
<1> QED BY <1>4, <1>5 DEF CallsReady, NothingRejected

\* Where a step of a call leaves the run: there is none, or it begins with what it needs.
RunBegins ==
    \/ phase' = "idle"
    \/ phase' = "start" /\ Ready(messages')
    \/ phase' \in {"prompt", "inject"} /\ inflight' # <<>>

\* A step that ends rejects no call, if there is a transcript, and one that can be continued
\* where nothing is queued.
LEMMA EndsWell ==
    ASSUME RunsAreAwaited, phase = "idle", NEW p \in Prompts, NEW ms \in Seq(Given), NEW lg,
           queue \in Seq(UserIds),
           \/ GoOn(p, ms, lg)
           \/ ContinueIfQueued(p, ms, lg) /\ ms # <<>>
           \/ Continue(p, ms, lg) /\ Ready(ms)
    PROVE  RunBegins /\ pc'[p] \notin {"sleep", "compact", "rejected"}
<1>1. pc \in [Prompts -> PC] /\ stage[p] \in Stage
  BY DEF RunsAreAwaited
<1>2. CASE GoOn(p, ms, lg)
  <2>1. pc' = [pc EXCEPT ![p] = "build"] \/ pc' = [pc EXCEPT ![p] = "done"]
    BY <1>1, <1>2 DEF GoOn, Leave, Stage
  <2>2. phase' = phase
    BY <1>1, <1>2 DEF GoOn, Leave, Stage, NoRunChange
  <2> QED BY <1>1, <2>1, <2>2 DEF RunBegins
<1>3. CASE Continue(p, ms, lg) /\ ms # <<>> /\ (Ready(ms) \/ queue # <<>>)
  <2>1. ~(phase # "idle" \/ ms = <<>> \/ (EndsWith(ms, "assistant") /\ queue = <<>>))
    BY <1>3 DEF Ready
  <2>2. pc' = [pc EXCEPT ![p] = "running"] /\ messages' = ms
    BY <1>3, <2>1 DEF Continue, StartRun
  <2>3. CASE EndsWith(ms, "assistant")
    <3>1. phase' = "inject" /\ inflight' = Polled
      BY <1>3, <2>1, <2>3 DEF Continue, StartRun
    <3>2. Polled # <<>>
      BY <2>1, <2>3 DEF Polled
    <3> QED BY <1>1, <2>2, <3>1, <3>2 DEF RunBegins
  <2>4. CASE ~EndsWith(ms, "assistant")
    <3>1. phase' = "start"
      BY <1>3, <2>1, <2>4 DEF Continue, StartRun
    <3> QED BY <1>1, <1>3, <2>2, <2>4, <3>1 DEF RunBegins, Ready
  <2> QED BY <2>3, <2>4
<1> QED BY <1>2, <1>3 DEF ContinueIfQueued, Ready

\* The response a prompt looks at before it begins.
LEMMA LastAssistantTyped ==
    ASSUME NEW ms \in Seq(Given)
    PROVE  LastAssistantIn(ms) # None => LastAssistantIn(ms) \in Answers /\ ms # <<>>
<1> DEFINE n == Len(ms)
           I == {i \in 1..n : ms[i].role = "assistant"}
           c == SelectLastInSeq(ms, LAMBDA e : e.role = "assistant")
<1>1. n \in Nat
  OBVIOUS
<1>2. c = IF I # {} THEN Max(I) ELSE 0
  BY DEF SelectLastInSeq
<1>3. CASE I = {}
  <2>1. c = 0
    BY <1>2, <1>3
  <2> QED BY <2>1 DEF LastAssistantIn
<1>4. CASE I # {}
  <2> DEFINE T == {n - i : i \in I}
  <2>1. T \in SUBSET Nat /\ T # {}
    BY <1>1, <1>4
  <2>2. PICK m \in T : \A k \in T : m <= k
    BY <2>1, Least
  <2>3. \E x \in I : \A y \in I : x >= y
    <3>1. PICK x \in I : m = n - x
      BY <2>2
    <3>2. \A y \in I : n - x <= n - y
      BY <2>2, <3>1
    <3> QED BY <1>1, <3>2
  <2>4. Max(I) \in I
    BY <2>3 DEF Max
  <2>5. c \in I
    BY <1>2, <1>4, <2>4
  <2> HIDE DEF c
  <2>6. c # 0 /\ c \in 1..n /\ ms[c].role = "assistant" /\ ms[c] \in Given
    BY <2>5
  <2>7. LastAssistantIn(ms) = ms[c]
    BY <2>6 DEF LastAssistantIn, c
  <2>8. ms # <<>>
    BY <2>6
  <2> QED BY <2>6, <2>7, <2>8 DEF Answers
<1> QED BY <1>3, <1>4

\* A compaction that begins for a response that is no overflow does not take it out.
LEMMA BegunReady ==
    ASSUME {"overflow", "length"} \cap Stops = {}, CallsReady, pc \in [Prompts -> PC],
           compacting \in [Calls -> [retry : BOOLEAN, cut : Nat]],
           NEW p \in Prompts, NEW a \in Answers, NEW skip, NEW ms, NEW lg, ms # <<>>, Begun(p, a, skip, ms, lg)
    PROVE  /\ messages' # <<>> /\ phase' = phase /\ pc'[p] = "compact"
           /\ \A q \in Prompts : compacting'[q].retry = FALSE
<1>1. PICK verdict \in Verdicts(a, skip) : BeginCompaction(p, verdict, ms, lg)
  BY DEF Begun
<1>2. verdict # "recover"
  <2> SUFFICES ASSUME verdict = "recover"
               PROVE  FALSE
    OBVIOUS
  <2>1. a.stop = "overflow"
    BY <1>1, OnlyErrorsRecover
  <2> QED BY <2>1 DEF Answers, Given
<1>3. messages' = ms /\ phase' = phase /\ pc' = [pc EXCEPT ![p] = "compact"]
  BY <1>1, <1>2 DEF BeginCompaction, NoRunChange
<1>4. PICK cut : compacting' = [compacting EXCEPT ![p] = [retry |-> verdict = "recover", cut |-> cut]]
  BY <1>1 DEF BeginCompaction
<1>5. \A q \in Prompts : compacting'[q].retry = FALSE
  <2> DEFINE x == [retry |-> verdict = "recover", cut |-> cut]
  <2>1. x.retry = FALSE
    BY <1>2
  <2>2. compacting' = [compacting EXCEPT ![p] = x]
    BY <1>4
  <2> HIDE DEF x
  <2> QED BY <2>1, <2>2 DEF CallsReady, Calls
<1> QED BY <1>3, <1>5

\* A call leaves a transcript that can be continued, and is not rejected.
LEMMA CallReadyStep ==
    ASSUME Concurrent = FALSE, {"overflow", "length"} \cap Stops = {},
           RetryInv, SessionInv, SleepsAreRetries, ReadyInv, NEW p \in Prompts, BeginPrompt(p) \/ PromptStep(p)
    PROVE  ReadyInv'
<1>0. /\ messages \in Seq(Given) /\ log \in Seq(Given) /\ queue \in Seq(UserIds)
      /\ pendingBash \in Seq(BashResults) /\ RunsAreAwaited /\ Alone /\ RunReady /\ CallsReady
      /\ pc \in [Prompts -> PC] /\ p \in Calls
      /\ compacting \in [Calls -> [retry : BOOLEAN, cut : Nat]]
      /\ lastAssistant \in Answers \cup {None} /\ handled[p] \in Answers \cup {None}
  BY DEF SessionInv, TextOK, RetryInv, ControlOK, ReadyInv, RunsAreAwaited, Calls
<1>1. phase = "idle" /\ ~Behind'
  BY BetweenRuns, NoneBehind
<1>2. \A q \in Prompts : q # p => pc'[q] = pc[q] /\ pc[q] \in Settled
  <2>1. \A q \in Prompts : q # p => pc'[q] = pc[q]
    BY <1>0, CallFlushes DEF Flushed
  <2>2. CASE BeginPrompt(p)
    BY <2>1, <2>2 DEF BeginPrompt
  <2>3. CASE PromptStep(p)
    <3>1. pc[p] \notin Settled
      BY <2>3 DEF PromptStep, SubmitPrompt, NothingToHandle, PrepareRetry, HandleRun, RetryNow, RetryCancelled,
                  SleepOver, CompactionReturns, CompactionSucceeds, CompactionFails, Settled
    <3> QED BY <1>0, <2>1, <3>1 DEF Alone
  <2> QED BY <2>2, <2>3
\* It suffices to look at the run, at the call and at the compactions.
<1>3. ASSUME RunBegins, \A q \in Prompts : compacting'[q].retry = FALSE, pc'[p] # "rejected",
             pc'[p] = "sleep" => Ready(messages'), pc'[p] = "compact" => messages' # <<>>
      PROVE  ReadyInv'
  <2>1. RunReady'
    BY <1>1, <1>3 DEF RunReady, RunBegins
  <2>2. \A q \in Prompts : q # p => pc'[q] \notin {"sleep", "compact", "rejected"}
    BY <1>0, <1>2 DEF Settled, CallsReady, NothingRejected
  <2>3. CallsReady'
    BY <1>3, <2>2 DEF CallsReady, NothingRejected
  <2> QED BY <2>1, <2>3 DEF ReadyInv
<1>4. ASSUME Over(p)
      PROVE  \A q \in Prompts : compacting'[q].retry = FALSE
  <2> DEFINE x == [retry |-> FALSE, cut |-> 0]
  <2>1. x.retry = FALSE /\ (compacting' = compacting \/ compacting' = [compacting EXCEPT ![p] = x])
    BY <1>4 DEF Over
  <2> HIDE DEF x
  <2> QED BY <1>0, <2>1 DEF CallsReady, Calls
<1>5. ASSUME NEW ms \in Seq(Given), NEW lg, Over(p),
             \/ GoOn(p, ms, lg)
             \/ ContinueIfQueued(p, ms, lg) /\ ms # <<>>
             \/ Continue(p, ms, lg) /\ Ready(ms)
      PROVE  ReadyInv'
  BY <1>0, <1>1, <1>3, <1>4, <1>5, EndsWell
<1>6. ASSUME NEW a \in Answers, NEW skip, NEW ms, NEW lg, ms # <<>>, Begun(p, a, skip, ms, lg)
      PROVE  ReadyInv'
  BY <1>0, <1>1, <1>3, <1>6, BegunReady DEF RunBegins
<1>7. ASSUME NEW a \in Answers, messages # <<>>, CheckCompaction(p, a)
      PROVE  ReadyInv'
  <2>1. PICK verdict \in Verdicts(a, TRUE) :
          IF verdict # "none"
          THEN BeginCompaction(p, verdict, messages, log) /\ UNCHANGED pendingBash
          ELSE ContinueIfQueued(p, messages, log) /\ UNCHANGED <<recoveryTried, compacting, autoSlot>>
    BY <1>7 DEF CheckCompaction
  <2>2. CASE verdict # "none"
    <3>1. Begun(p, a, TRUE, messages, log)
      BY <2>1, <2>2 DEF Begun
    <3> QED BY <1>6, <1>7, <3>1
  <2>3. CASE verdict = "none"
    BY <1>0, <1>5, <1>7, <2>1, <2>3 DEF Over
  <2> QED BY <2>2, <2>3
<1>8. CASE BeginPrompt(p)
  <2> DEFINE ms == messages \o pendingBash
             lg == log \o pendingBash
             a  == LastAssistantIn(ms)
  <2>1. PICK verdict \in (IF a = None THEN {"none"} ELSE Verdicts(a, FALSE)) :
           IF verdict = "none"
           THEN /\ pc' = [pc EXCEPT ![p] = "build"]
                /\ messages' = ms /\ log' = lg
                /\ NoRunChange /\ UNCHANGED <<stage, recoveryTried, compacting, autoSlot>>
           ELSE BeginCompaction(p, verdict, ms, lg)
    BY <1>8 DEF BeginPrompt
  <2>2. CASE verdict = "none"
    <3>1. pc'[p] = "build" /\ phase' = "idle" /\ Over(p)
      BY <1>0, <1>1, <2>1, <2>2 DEF NoRunChange, Over
    <3> QED BY <1>3, <1>4, <3>1 DEF RunBegins
  <2>3. CASE verdict # "none"
    <3>1. ms \in Seq(Given)
      BY <1>0, Roles, Joined
    <3>2. a # None /\ Begun(p, a, FALSE, ms, lg)
      BY <2>1, <2>3 DEF Begun
    <3> HIDE DEF ms, lg
    <3>3. a \in Answers /\ ms # <<>>
      BY <3>1, <3>2, LastAssistantTyped
    <3> QED BY <1>6, <3>2, <3>3
  <2> QED BY <2>2, <2>3
<1>9. CASE SubmitPrompt(p)
  <2>1. phase' = "prompt" /\ inflight' = <<p>> /\ pc' = [pc EXCEPT ![p] = "running"] /\ compacting' = compacting
    BY <1>1, <1>9 DEF SubmitPrompt, StartRun
  <2>2. inflight' # <<>>
    BY <2>1
  <2> QED BY <1>0, <1>3, <1>4, <2>1, <2>2 DEF RunBegins, Over
<1>10. CASE NothingToHandle(p)
  BY <1>0, <1>5, <1>10 DEF NothingToHandle, Over
<1>11. CASE PrepareRetry(p)
  <2>1. Behind
    BY <1>11 DEF PrepareRetry, Behind
  <2>2. messages # <<>> /\ (EndsWith(messages, "assistant") => Ready(Front(messages)))
    BY <1>0, <2>1 DEF RunReady
  <2>3. Ready(messages')
    BY <1>11, <2>2 DEF PrepareRetry, WithoutTrailingAssistant, Ready
  <2>4. pc'[p] = "sleep" /\ phase' = "idle" /\ Over(p)
    BY <1>0, <1>1, <1>11 DEF PrepareRetry, NoRunChange, Over
  <2> QED BY <1>3, <1>4, <2>3, <2>4 DEF RunBegins
<1>12. CASE HandleRun(p)
  <2>1. Behind /\ lastAssistant # None /\ CheckCompaction(p, lastAssistant)
    BY <1>12 DEF HandleRun, Behind
  <2>2. messages # <<>>
    BY <1>0, <2>1 DEF RunReady
  <2> QED BY <1>0, <1>7, <2>1, <2>2
<1>13. CASE RetryNow(p)
  <2>1. Ready(messages) /\ Continue(p, messages, log) /\ compacting' = compacting
    BY <1>0, <1>13 DEF RetryNow, SleepOver, CallsReady
  <2> QED BY <1>0, <1>5, <2>1 DEF Over
<1>14. CASE RetryCancelled(p)
  <2>1. pc[p] = "sleep" /\ CheckCompaction(p, handled[p])
    BY <1>14 DEF RetryCancelled, SleepOver
  <2>2. messages # <<>>
    BY <1>0, <2>1 DEF CallsReady, Ready
  <2>3. handled[p] \in Answers
    BY <1>0, <2>1 DEF SleepsAreRetries
  <2> QED BY <1>7, <2>1, <2>2, <2>3
<1>15. CASE CompactionReturns(p)
  <2>1. Over(p)
    BY <1>15 DEF CompactionReturns, CompactionOver, Over
  <2>2. CASE CompactionFails(p)
    <3>1. pc[p] = "compact" /\ (GoOn(p, messages, log) \/ ContinueIfQueued(p, messages, log))
      BY <2>2 DEF CompactionFails
    <3>2. messages # <<>>
      BY <1>0, <3>1 DEF CallsReady
    <3> QED BY <1>0, <1>5, <2>1, <3>1, <3>2
  <2>3. CASE CompactionSucceeds(p)
    <3> DEFINE cut == compacting[p].cut
               x == Compaction(cut)
               lg == AppendCompaction(cut)
               rebuilt == BuildSessionContext(lg)
               kp == Kept(SubSeq(log, cut, Len(log)), Message)
    <3>1. cut \in 1..Len(log)
      <4>1. cut \in Nat /\ cut <= Len(log) /\ cut # 0 /\ Len(log) \in Nat
        BY <1>0, <2>3 DEF CompactionSucceeds, Compacts, SessionInv, TextOK
      <4> QED BY <4>1
    <3>2. compacting[p].retry = FALSE
      BY <1>0 DEF CallsReady
    <3>3. ContinueIfQueued(p, rebuilt, lg)
      BY <2>3, <3>2 DEF CompactionSucceeds
    <3>4. rebuilt \in Seq(Given)
      <4>1. lg \in Seq(Given)
        BY <1>0, <3>1, CompactedTyped DEF AppendCompaction
      <4> HIDE DEF lg
      <4> QED BY <4>1, BuildTyped
    <3>5. rebuilt # <<>>
      <4>1. rebuilt = <<x>> \o kp
        BY <1>0, <3>1, BuiltAnew DEF AppendCompaction
      <4>2. x \in Given
        BY <3>1, Made
      <4>3. kp \in Seq(Given)
        <5>1. SubSeq(log, cut, Len(log)) \in Seq(Given)
          BY <1>0, <3>1, Parts
        <5> QED BY <5>1, KeptElements
      <4> HIDE DEF x, kp, rebuilt
      <4> QED BY <4>1, <4>2, <4>3
    <3> HIDE DEF rebuilt, lg
    <3> QED BY <1>5, <2>1, <3>3, <3>4, <3>5
  <2> QED BY <1>15, <2>2, <2>3 DEF CompactionReturns
<1> QED BY <1>8, <1>9, <1>10, <1>11, <1>12, <1>13, <1>14, <1>15 DEF PromptStep

\* Every step does.
LEMMA ReadyStep ==
    ASSUME Concurrent = FALSE, MaxManual = 0, {"overflow", "length"} \cap Stops = {},
           RetryInv, SessionInv, SleepsAreRetries, ReadyInv, [Next]_vars
    PROVE  ReadyInv' /\ SleepsAreRetries'
<1>0. /\ messages \in Seq(Given) /\ log \in Seq(Given) /\ RunsAreAwaited /\ RunReady /\ CallsReady
      /\ pc \in [Prompts -> PC]
  BY DEF SessionInv, TextOK, RetryInv, ReadyInv, RunsAreAwaited, BashInv
<1>1. ReadyInv'
  <2>1. CASE RunStep
    BY <2>1, RunReadyStep, RunLeavesCalls DEF ReadyInv
  <2>2. CASE \E p \in Prompts : BeginPrompt(p) \/ PromptStep(p)
    BY <2>2, CallReadyStep
  <2>3. CASE BashEnds
    <3>1. PICK b \in Bashes :
            IF phase # "idle"
            THEN pendingBash' = Append(pendingBash, Bash(b)) /\ UNCHANGED <<messages, log>>
            ELSE messages' = Append(messages, Bash(b)) /\ log' = Append(log, Bash(b)) /\ UNCHANGED pendingBash
      BY <2>3 DEF BashEnds
    <3>2. UNCHANGED <<phase, inflight, pc, compacting>>
      BY <2>3 DEF BashEnds, NoRunChange, callVars
    <3>3. CASE phase # "idle"
      BY <1>0, <3>1, <3>2, <3>3
         DEF ReadyInv, RunReady, CallsReady, Behind, AfterTools, Ready, EndsWith, NothingRejected
    <3>4. CASE phase = "idle"
      <4>1. Bash(b) \in Given /\ Bash(b).role = "bash"
        BY Made, Roles
      <4>2. Ready(messages')
        BY <1>0, <3>1, <3>4, <4>1, ReadyAppended
      <4> QED BY <1>0, <3>2, <3>4, <4>2 DEF ReadyInv, RunReady, CallsReady, Ready, NothingRejected
    <3> QED BY <3>3, <3>4
  <2>4. CASE (\E p \in Prompts : QueuePrompt(p)) \/ Steer \/ (\E how \in Interrupt : Interrupted(how))
              \/ UNCHANGED vars
    <3>1. UNCHANGED <<phase, inflight, messages, log, compacting>>
      BY <2>4 DEF QueuePrompt, Steer, Interrupted, agentVars, sessionVars, callVars, vars
    <3>2. \A q \in Prompts : pc'[q] = pc[q] \/ pc'[q] = "done"
      BY <1>0, <2>4 DEF QueuePrompt, Steer, Interrupted, callVars, vars
    <3>3. Behind' => Behind
      BY <3>1, <3>2 DEF Behind
    <3>4. RunReady'
      BY <1>0, <3>1, <3>3 DEF RunReady, AfterTools, Ready, EndsWith
    <3>5. CallsReady'
      BY <1>0, <3>1, <3>2 DEF CallsReady, Ready, EndsWith, NothingRejected
    <3> QED BY <3>4, <3>5 DEF ReadyInv
  <2> QED BY <2>1, <2>2, <2>3, <2>4, NoManual DEF Next
<1>2. SleepsAreRetries'
  BY <1>0, SleepStep
<1> QED BY <1>1, <1>2

\* prompt() does not fail because its own retries and compactions, an abort, or bash results
\* left a transcript that agent.continue() refuses: each response was given for one that could
\* be continued, so what is left when it is taken out can be.  The hypothesis on Stops is
\* needed: what is rebuilt before an overflow is retried may end with a response that only an
\* earlier retry had taken out, or with a length stop.
THEOREM PromptsAreNotRejected ==
    ASSUME Concurrent = FALSE, MaxManual = 0, {"overflow", "length"} \cap Stops = {}
    PROVE  Spec => []NothingRejected
<1>1. Init => RetryInv /\ SessionInv /\ SleepsAreRetries /\ ReadyInv
  <2> SUFFICES ASSUME Init
               PROVE  RetryInv /\ SessionInv /\ SleepsAreRetries /\ ReadyInv
    OBVIOUS
  <2>1. ReadyInv
    <3>1. \A p \in Prompts : compacting[p].retry = FALSE
      BY DEF Init, Calls
    <3> QED BY <3>1 DEF Init, ReadyInv, RunReady, CallsReady, NothingRejected, Behind, Answered
  <2> QED BY <2>1, AloneInit DEF ContextInv
<1>2. RetryInv /\ SessionInv /\ SleepsAreRetries /\ ReadyInv /\ [Next]_vars => RetryInv' /\ SessionInv' /\ SleepsAreRetries' /\ ReadyInv'
  BY RetryStep, SessionInvStep, ReadyStep DEF RetryInv
<1>3. ReadyInv => NothingRejected
  BY DEF ReadyInv, CallsReady
<1> QED BY <1>1, <1>2, <1>3, PTL DEF Spec

-----------------------------------------------------------------------------
(* Rows of errors.                                                         *)

\* The row of errors with which the responses end has at most b errors, o of them overflows.
AtEnd(row, b, o) ==
    \A i \in 1..Len(row) : ErrorRow(row, i, Len(row)) =>
        Len(row) - i < b /\ Cardinality(Overflows(row, i, Len(row))) <= o

\* Overflows can be counted.
LEMMA OverflowsCounted ==
    ASSUME NEW row, NEW i \in Nat, NEW j \in Nat
    PROVE  IsFiniteSet(Overflows(row, i, j)) /\ Cardinality(Overflows(row, i, j)) \in Nat
<1>1. IsFiniteSet(i..j)
  BY FS_Interval
<1>2. Overflows(row, i, j) \in SUBSET (i..j)
  BY DEF Overflows
<1> QED BY <1>1, <1>2, FS_Subset, FS_CardinalityType

\* A row that is short is no longer than a greater bound.
LEMMA RowWeakened ==
    ASSUME NEW row \in Seq(Given), NEW b \in Nat, NEW o \in Nat, AtEnd(row, b, o),
           NEW c \in Nat, NEW q \in Nat, b <= c, o <= q
    PROVE  AtEnd(row, c, q)
<1>1. Len(row) \in Nat
  OBVIOUS
<1> SUFFICES ASSUME NEW i \in 1..Len(row), ErrorRow(row, i, Len(row))
             PROVE  Len(row) - i < c /\ Cardinality(Overflows(row, i, Len(row))) <= q
  BY DEF AtEnd
<1>2. Len(row) - i < b /\ Cardinality(Overflows(row, i, Len(row))) <= o
  BY DEF AtEnd
<1>3. Cardinality(Overflows(row, i, Len(row))) \in Nat
  BY <1>1, OverflowsCounted
<1> QED BY <1>1, <1>2, <1>3

\* A user or an answer that is no error ends the row before it.
LEMMA RowBroken ==
    ASSUME NEW row \in Seq(Given), RowsEnd(row), NEW xs \in Seq(Given), xs # <<>>,
           \A k \in 1..Len(xs) : ~IsErrorEntry(xs[k])
    PROVE  RowsEnd(row \o xs) /\ AtEnd(row \o xs, 0, 0)
<1> DEFINE t == row \o xs
           n == Len(row)
           m == Len(xs)
<1>1. /\ n \in Nat /\ m \in Nat \ {0} /\ t \in Seq(Given) /\ Len(t) = n + m
      /\ \A k \in 1..n : t[k] = row[k]
      /\ \A k \in 1..m : t[n + k] = xs[k]
  BY Joined
<1> HIDE DEF t, n, m
<1>2. ASSUME NEW k \in (n + 1)..Len(t)
      PROVE  ~IsErrorEntry(t[k])
  <2>1. k - n \in 1..m /\ n + (k - n) = k
    BY <1>1
  <2>2. t[k] = xs[k - n]
    BY <1>1, <2>1
  <2> QED BY <2>1, <2>2 DEF m
<1>3. ASSUME NEW i \in 1..Len(t), NEW j \in 1..Len(t), i <= j, ErrorRow(t, i, j)
      PROVE  j <= n
  <2> SUFFICES ASSUME j > n
               PROVE  FALSE
    BY <1>1
  <2>1. j \in i..j /\ j \in (n + 1)..Len(t)
    BY <1>1, <1>3
  <2> QED BY <1>2, <1>3, <2>1 DEF ErrorRow
<1>4. AtEnd(t, 0, 0)
  <2> SUFFICES ASSUME NEW i \in 1..Len(t), ErrorRow(t, i, Len(t))
               PROVE  FALSE
    BY DEF AtEnd
  <2>1. Len(t) \in 1..Len(t) /\ i <= Len(t)
    BY <1>1
  <2>2. Len(t) <= n
    BY <1>3, <2>1
  <2> QED BY <1>1, <2>2
<1>5. ASSUME NEW i \in 1..Len(t), NEW j \in 1..Len(t), i <= j, ErrorRow(t, i, j)
      PROVE  j - i < 2 * MaxRetries + 2 /\ Cardinality(Overflows(t, i, j)) <= 2
  <2>1. i \in 1..n /\ j \in 1..n
    BY <1>1, <1>3, <1>5
  <2>2. \A k \in i..j : t[k] = row[k]
    BY <1>1, <2>1
  <2>3. ErrorRow(row, i, j) /\ Overflows(t, i, j) = Overflows(row, i, j)
    BY <1>5, <2>2 DEF ErrorRow, Overflows
  <2> QED BY <1>5, <2>1, <2>3 DEF RowsEnd, n
<1> QED BY <1>4, <1>5 DEF RowsEnd, t

\* An error makes it longer by one.
LEMMA RowLonger ==
    ASSUME NEW row \in Seq(Given), RowsEnd(row), NEW b \in Nat, NEW o \in Nat, AtEnd(row, b, o),
           NEW x \in Given, NEW q \in Nat, o + (IF x.stop = "overflow" THEN 1 ELSE 0) <= q,
           b <= 2 * MaxRetries + 1, q <= 2
    PROVE  RowsEnd(Append(row, x)) /\ AtEnd(Append(row, x), b + 1, q)
<1> DEFINE t == Append(row, x)
           n == Len(row)
<1>1. n \in Nat /\ t \in Seq(Given) /\ Len(t) = n + 1 /\ t[n + 1] = x /\ \A k \in 1..n : t[k] = row[k]
  BY Appended
<1> HIDE DEF t, n
<1>2. ASSUME NEW i \in 1..n
      PROVE  Cardinality(Overflows(t, i, n + 1))
               = Cardinality(Overflows(row, i, n)) + (IF x.stop = "overflow" THEN 1 ELSE 0)
  <2> DEFINE A == Overflows(row, i, n)
             B == Overflows(t, i, n + 1)
  <2>1. IsFiniteSet(A)
    BY <1>1, OverflowsCounted
  <2>2. n + 1 \notin A
    BY <1>1 DEF Overflows
  <2>3. B = IF x.stop = "overflow" THEN A \cup {n + 1} ELSE A
    <3>1. \A k \in i..(n + 1) : k = n + 1 \/ (k \in i..n /\ k \in 1..n)
      BY <1>1
    <3>2. i..n \subseteq i..(n + 1) /\ n + 1 \in i..(n + 1) /\ i..n \subseteq 1..n
      BY <1>1
    <3> QED BY <1>1, <3>1, <3>2 DEF Overflows
  <2>4. Cardinality(A) \in Nat
    BY <1>1, OverflowsCounted
  <2> HIDE DEF A, B
  <2>5. CASE x.stop = "overflow"
    <3>1. Cardinality(A \cup {n + 1}) = Cardinality(A) + 1
      BY <2>1, <2>2, FS_AddElement
    <3> QED BY <2>3, <2>5, <3>1 DEF A, B
  <2>6. CASE x.stop # "overflow"
    BY <2>3, <2>4, <2>6 DEF A, B
  <2> QED BY <2>5, <2>6
<1>3. Cardinality(Overflows(t, n + 1, n + 1)) <= IF x.stop = "overflow" THEN 1 ELSE 0
  <2>1. CASE x.stop = "overflow"
    <3>1. Overflows(t, n + 1, n + 1) = {n + 1}
      BY <1>1, <2>1 DEF Overflows
    <3>2. Cardinality({n + 1}) = 1
      BY FS_Singleton
    <3>3. Cardinality(Overflows(t, n + 1, n + 1)) = 1
      BY <3>1, <3>2, Zenon
    <3> QED BY <2>1, <3>3
  <2>2. CASE x.stop # "overflow"
    <3>1. Overflows(t, n + 1, n + 1) = {}
      BY <1>1, <2>2 DEF Overflows
    <3>2. Cardinality(Overflows(t, n + 1, n + 1)) = 0
      BY <3>1, FS_EmptySet, Zenon
    <3> QED BY <2>2, <3>2
  <2> QED BY <2>1, <2>2
<1>4. ASSUME NEW i \in 1..(n + 1), ErrorRow(t, i, n + 1)
      PROVE  n + 1 - i < b + 1 /\ Cardinality(Overflows(t, i, n + 1)) <= q
  <2>1. CASE i = n + 1
    <3>1. Cardinality(Overflows(t, n + 1, n + 1)) \in Nat
      BY <1>1, OverflowsCounted
    <3> QED BY <1>1, <1>3, <2>1, <3>1
  <2>2. CASE i # n + 1
    <3>1. i \in 1..n
      BY <1>1, <2>2
    <3>2. ErrorRow(row, i, n)
      <4>1. \A k \in i..n : k \in i..(n + 1) /\ k \in 1..n
        BY <1>1, <3>1
      <4> QED BY <1>1, <1>4, <4>1 DEF ErrorRow
    <3>3. n - i < b /\ Cardinality(Overflows(row, i, n)) <= o
      BY <3>1, <3>2 DEF AtEnd, n
    <3>4. Cardinality(Overflows(row, i, n)) \in Nat
      BY <1>1, OverflowsCounted
    <3>5. Cardinality(Overflows(t, i, n + 1)) <= q
      BY <1>2, <3>1, <3>3, <3>4
    <3> QED BY <1>1, <3>1, <3>3, <3>5
  <2> QED BY <2>1, <2>2
<1>5. AtEnd(t, b + 1, q)
  BY <1>1, <1>4 DEF AtEnd
<1>6. ASSUME NEW i \in 1..Len(t), NEW j \in 1..Len(t), i <= j, ErrorRow(t, i, j)
      PROVE  j - i < 2 * MaxRetries + 2 /\ Cardinality(Overflows(t, i, j)) <= 2
  <2>1. CASE j = n + 1
    <3>1. n + 1 - i < b + 1 /\ Cardinality(Overflows(t, i, n + 1)) <= q
      BY <1>1, <1>4, <1>6, <2>1
    <3>2. Cardinality(Overflows(t, i, n + 1)) \in Nat
      BY <1>1, OverflowsCounted
    <3> QED BY <1>1, <2>1, <3>1, <3>2, SessionBounds
  <2>2. CASE j # n + 1
    <3>1. i \in 1..n /\ j \in 1..n
      BY <1>1, <1>6, <2>2
    <3>2. \A k \in i..j : t[k] = row[k]
      BY <1>1, <3>1
    <3>3. ErrorRow(row, i, j) /\ Overflows(t, i, j) = Overflows(row, i, j)
      BY <1>6, <3>2 DEF ErrorRow, Overflows
    <3> QED BY <1>6, <3>1, <3>3 DEF RowsEnd, n
  <2> QED BY <2>1, <2>2
<1> QED BY <1>5, <1>6 DEF RowsEnd, t

\* Of what is added to the log only users and answers are in a row.
LEMMA RowOfLog ==
    ASSUME NEW lg \in Seq(Given), NEW xs \in Seq(Given)
    PROVE  /\ Kept(lg, Turns) \in Seq(Given)
           /\ (\A k \in 1..Len(xs) : xs[k] \notin Turns) => Kept(lg \o xs, Turns) = Kept(lg, Turns)
           /\ (\A k \in 1..Len(xs) : xs[k] \in Turns) => Kept(lg \o xs, Turns) = Kept(lg, Turns) \o xs
<1>1. Kept(lg, Turns) \in Seq(Given) /\ Kept(xs, Turns) \in Seq(Given)
  BY KeptElements
<1>2. Kept(lg \o xs, Turns) = Kept(lg, Turns) \o Kept(xs, Turns)
  BY KeptConcat
<1> DEFINE r == Kept(lg, Turns)
           k == Kept(xs, Turns)
<1>3. ASSUME \A i \in 1..Len(xs) : xs[i] \notin Turns
      PROVE  k = <<>>
  <2>1. Range(k) = Range(xs) \cap Turns
    BY KeptElements
  <2>2. Range(xs) \cap Turns = {}
    BY <1>3 DEF Range
  <2> HIDE DEF k
  <2>3. k \in Seq(Given)
    BY <1>1 DEF k
  <2>4. ASSUME k # <<>>
        PROVE  k[1] \in Range(k)
    <3>1. 1 \in 1..Len(k)
      BY <2>3, <2>4
    <3> QED BY <2>3, <3>1 DEF Range
  <2> QED BY <2>1, <2>2, <2>4
<1>4. ASSUME \A i \in 1..Len(xs) : xs[i] \in Turns
      PROVE  k = xs
  <2>1. xs \in Seq(Turns)
    BY <1>4
  <2> QED BY <2>1, KeptOfAll
<1>5. r \o <<>> = r
  BY <1>1
<1> HIDE DEF r, k
<1>6. Kept(lg \o xs, Turns) = r \o k /\ r \in Seq(Given)
  BY <1>1, <1>2 DEF r, k
<1> QED BY <1>3, <1>4, <1>5, <1>6 DEF r

\* Results of tools and of bash commands, and compactions, are in no row.
LEMMA OutsideRows ==
    ASSUME NEW lg \in Seq(Given)
    PROVE  /\ \A bs \in Seq(BashResults) : Kept(lg \o bs, Turns) = Kept(lg, Turns)
           /\ \A e \in Given : e.role \notin {"user", "assistant"}
                 => Kept(Append(lg, e), Turns) = Kept(lg, Turns)
<1>1. ASSUME NEW bs \in Seq(BashResults)
      PROVE  Kept(lg \o bs, Turns) = Kept(lg, Turns)
  <2>1. bs \in Seq(Given) /\ \A k \in 1..Len(bs) : bs[k] \notin Turns
    BY Roles DEF Turns
  <2> QED BY <2>1, RowOfLog
<1>2. ASSUME NEW e \in Given, e.role \notin {"user", "assistant"}
      PROVE  Kept(Append(lg, e), Turns) = Kept(lg, Turns)
  BY <1>2, KeptAppended DEF Turns
<1> QED BY <1>1, <1>2

\* A step of a call leaves the rows as they are: it adds bash results and compactions only.
LEMMA CallLeavesRows ==
    ASSUME TextOK, RunsAreAwaited, NEW p \in Prompts, QueuePrompt(p) \/ BeginPrompt(p) \/ PromptStep(p)
    PROVE  Responses' = Responses
<1>0. log \in Seq(Given) /\ pendingBash \in Seq(BashResults)
  BY DEF TextOK
<1>1. Kept(log \o pendingBash, Turns) = Kept(log, Turns)
  BY <1>0, OutsideRows
<1>2. ASSUME NEW ms, Ended(ms, log)
      PROVE  Responses' = Responses
  BY <1>1, <1>2 DEF Ended, Responses
<1>3. ASSUME NEW a, NEW skip, NEW ms, NEW lg, Begun(p, a, skip, ms, lg),
             lg = log \/ lg = log \o pendingBash
      PROVE  Responses' = Responses
  <2>1. log' = lg
    BY <1>3 DEF Begun, BeginCompaction
  <2> QED BY <1>1, <1>3, <2>1 DEF Responses
<1>4. CASE CallCompacts(p)
  <2> DEFINE cut == compacting[p].cut
             lg == AppendCompaction(cut)
  <2>1. cut \in Nat \ {0}
    BY <1>4 DEF CallCompacts, TextOK, Calls
  <2>2. PICK ms : Ended(ms, lg)
    BY <1>4 DEF CallCompacts
  <2>3. Compaction(cut) \in Given /\ Compaction(cut).role = "compaction"
    BY <2>1, Made
  <2>4. lg \in Seq(Given) /\ Kept(lg, Turns) = Kept(log, Turns)
    BY <1>0, <2>3, Appended, OutsideRows DEF AppendCompaction
  <2>5. Kept(lg \o pendingBash, Turns) = Kept(lg, Turns)
    BY <1>0, <2>4, OutsideRows
  <2> HIDE DEF lg
  <2> QED BY <2>2, <2>4, <2>5 DEF Ended, Responses
<1>5. CASE CallEnds(p) \/ CallRetries(p)
  BY <1>2, <1>5 DEF CallEnds, CallRetries, Responses
<1>6. CASE CallChecksFirst(p) \/ CallChecks(p)
  BY <1>3, <1>6 DEF CallChecksFirst, CallChecks
<1> QED BY <1>4, <1>5, <1>6, CallTexts

\* Messages of users end the row before them, and the recovery from an overflow may be tried
\* again.
LEMMA UsersEndRow ==
    ASSUME log \in Seq(Given), connected, inflight \in Seq(UserIds), EmitUsers(inflight), RecoveryEnds
    PROVE  /\ RecoveryEnds'
           /\ inflight = <<>> => Responses' = Responses /\ recoveryTried' = recoveryTried
           /\ inflight # <<>> => AtEnd(Responses', 0, 0) /\ recoveryTried' = FALSE
<1> DEFINE xs == [i \in 1..Len(inflight) |-> User(inflight[i])]
           r == Kept(log, Turns)
<1>1. xs \in Seq(Given) /\ Len(xs) = Len(inflight) /\ \A i \in 1..Len(xs) : xs[i].role = "user"
  BY Made
<1>2. Len(inflight) \in Nat /\ (inflight # <<>> <=> Len(inflight) # 0)
  OBVIOUS
<1>3. log' = log \o xs
  BY DEF EmitUsers, Persist
<1>4. recoveryTried' = IF inflight # <<>> THEN FALSE ELSE recoveryTried
  BY DEF EmitUsers
<1> HIDE DEF xs
<1>5. \A i \in 1..Len(xs) : xs[i] \in Turns /\ ~IsErrorEntry(xs[i])
  BY <1>1, Roles DEF Turns, IsErrorEntry
<1>6. r \in Seq(Given) /\ Kept(log \o xs, Turns) = r \o xs
  BY <1>1, <1>5, RowOfLog
<1> HIDE DEF r
<1>7. Responses' = r \o xs /\ Responses = r
  BY <1>3, <1>6 DEF Responses, r
<1>8. CASE inflight = <<>>
  <2>1. xs = <<>>
    BY <1>1, <1>2, <1>8
  <2>2. Responses' = Responses
    BY <1>6, <1>7, <2>1
  <2> QED BY <1>4, <1>8, <2>2 DEF RecoveryEnds
<1>9. CASE inflight # <<>>
  <2>1. xs # <<>>
    BY <1>1, <1>2, <1>9
  <2>2. RowsEnd(r \o xs) /\ AtEnd(r \o xs, 0, 0)
    BY <1>1, <1>5, <1>6, <1>7, <2>1, RowBroken DEF RecoveryEnds
  <2> QED BY <1>4, <1>7, <1>9, <2>2 DEF RecoveryEnds
<1> QED BY <1>8, <1>9

\* What the row of errors at the end of the log may have been spent on: the recovery from an
\* overflow, when it has been tried, with the retries before it.
Spent == IF recoveryTried THEN MaxRetries + 1 ELSE 0
Tried == IF recoveryTried THEN 1 ELSE 0
Latest == IF lastAssistant.stop = "overflow" THEN 1 ELSE 0

\* Where the run will ask the model without another message of a user.
GoesOn ==
    \/ phase = "start" /\ queue = <<>>
    \/ phase = "inject" /\ inflight = <<>>
    \/ phase = "turn"
\* Where its latest response was no error.
Unbroken == {"tool", "turnEnd", "toolsEnd", "prepare", "compacting"}

RunRows ==
    /\ phase = "prompt" => inflight # <<>>
    /\ GoesOn => AtEnd(Responses, Spent + retryAttempt, Tried)
    /\ phase \in Unbroken => AtEnd(Responses, 0, 0)
    /\ phase = "ending" \/ (\E p \in Prompts : pc[p] = "post")
          => AtEnd(Responses, Spent + retryAttempt + 1, Tried + Latest)
CallRows ==
    \A p \in Prompts :
        /\ pc[p] = "sleep" => AtEnd(Responses, Spent + retryAttempt, Tried)
        /\ pc[p] = "compact" /\ compacting[p].retry => recoveryTried /\ AtEnd(Responses, MaxRetries + 1, 1)
RowInv ==
    /\ RecoveryEnds
    /\ AtEnd(Responses, Spent + MaxRetries + 1, Tried + 1)
    /\ RunRows /\ CallRows

\* The budgets are numbers, and within what is allowed.
LEMMA Budgets ==
    ASSUME ControlOK
    PROVE  /\ Spent \in Nat /\ Tried \in 0..1 /\ Latest \in 0..1
           /\ retryAttempt \in Nat /\ retryAttempt <= MaxRetries /\ MaxRetries \in Nat
           /\ Spent <= MaxRetries + 1
BY SessionBounds DEF ControlOK, Spent, Tried, Latest

\* So they are after a step.
LEMMA BudgetsNext ==
    ASSUME ControlOK'
    PROVE  /\ Spent' + retryAttempt' \in Nat /\ Tried' \in Nat
           /\ Spent' + retryAttempt' + 1 \in Nat /\ Tried' + Latest' \in Nat
           /\ Spent' + MaxRetries + 1 \in Nat /\ Tried' + 1 \in Nat
           /\ Spent' + retryAttempt' + 1 <= Spent' + MaxRetries + 1 /\ Tried' + Latest' <= Tried' + 1
<1>1. \A s, r, m \in Nat : r <= m => /\ s + r \in Nat /\ s + r + 1 \in Nat /\ s + m + 1 \in Nat
                                    /\ s + r + 1 <= s + m + 1
  OBVIOUS
<1>2. \A t, l \in {0, 1} : t \in Nat /\ t + l \in Nat /\ t + 1 \in Nat /\ t + l <= t + 1
  OBVIOUS
<1>3. retryAttempt' \in Nat /\ retryAttempt' <= MaxRetries /\ MaxRetries \in Nat
  BY SessionBounds DEF ControlOK
<1>4. Spent' \in Nat
  <2>1. Spent' \in {0, MaxRetries + 1} /\ MaxRetries + 1 \in Nat /\ 0 \in Nat
    BY <1>3 DEF Spent
  <2> QED BY <2>1
<1>5. Tried' \in {0, 1} /\ Latest' \in {0, 1}
  BY DEF Tried, Latest
<1> QED BY <1>1, <1>2, <1>3, <1>4, <1>5

\* A step that changes no row, no budget and no run keeps the invariant.
LEMMA RowsStay ==
    ASSUME RowInv, Responses' = Responses,
           UNCHANGED <<phase, inflight, recoveryTried, retryAttempt, lastAssistant, compacting>>,
           \A p \in Prompts : pc'[p] = pc[p] \/ pc'[p] = "done",
           GoesOn' => GoesOn
    PROVE  RowInv'
<1>1. RecoveryEnds'
  BY DEF RowInv, RecoveryEnds
<1>2. AtEnd(Responses, Spent + MaxRetries + 1, Tried + 1)'
  BY DEF RowInv, Spent, Tried
<1>3. RunRows'
  BY DEF RowInv, RunRows, Spent, Tried, Latest
<1>4. CallRows'
  BY DEF RowInv, CallRows, Spent, Tried
<1> QED BY <1>1, <1>2, <1>3, <1>4 DEF RowInv

\* While the run goes on no call sleeps or compacts.
LEMMA RowsOfRun ==
    ASSUME RetryInv, RunStep
    PROVE  CallRows' /\ (~RunEnds => \A q \in Prompts : pc'[q] # "post")
<1>0. RunsAreAwaited /\ Alone /\ pc \in [Prompts -> PC]
  BY DEF RetryInv, BashInv, RunsAreAwaited
<1>1. phase # "idle"
  BY DEF RunStep, EmitPrompt, InitialPoll, Inject, Respond, ToolEnds, GuardStops, PollAfterTurn,
         PrepareTurn, CompactBeforeTurn, TurnCompactionEnds, RunEnds
<1>2. \A q \in Prompts : pc[q] \notin {"sleep", "compact", "post"}
  BY <1>0, <1>1, NobodyIsBehind DEF RunsAreAwaited, Settled
<1>3. pc' = pc \/ (RunEnds /\ pc' = [pc EXCEPT ![owner] = "post"])
  BY DEF RunStep, EmitPrompt, InitialPoll, Inject, Respond, ToolEnds, GuardStops, PollAfterTurn,
         PrepareTurn, CompactBeforeTurn, TurnCompactionEnds, RunEnds, RunOnly, callVars
<1>4. \A q \in Prompts : pc'[q] \notin {"sleep", "compact"}
  BY <1>0, <1>2, <1>3
<1> QED BY <1>2, <1>3, <1>4 DEF CallRows

\* A row that is broken is within every budget.
LEMMA RowsBroken ==
    ASSUME ControlOK', log' \in Seq(Given), RecoveryEnds', CallRows', AtEnd(Responses, 0, 0)', phase' # "prompt"
    PROVE  RowInv'
<1>1. Responses' \in Seq(Given)
  BY RowOfLog DEF Responses
<1>2. \A c, q \in Nat : AtEnd(Responses', c, q)
  BY <1>1, RowWeakened
<1>3. /\ Spent' + MaxRetries + 1 \in Nat /\ Tried' + 1 \in Nat /\ Spent' + retryAttempt' \in Nat
      /\ Tried' \in Nat /\ Spent' + retryAttempt' + 1 \in Nat /\ Tried' + Latest' \in Nat
  BY BudgetsNext
<1>4. RunRows'
  BY <1>2, <1>3 DEF RunRows
<1>5. AtEnd(Responses, Spent + MaxRetries + 1, Tried + 1)'
  BY <1>2, <1>3
<1> QED BY <1>4, <1>5 DEF RowInv

\* The steps of the run keep to the budgets: an error that is answered is one more, and
\* everything else that is said ends the row.
LEMMA RunRowsStep ==
    ASSUME MaxManual = 0, RetryInv, SessionInv, SessionInv', RowInv, RunStep, [Next]_vars
    PROVE  RowInv'
<1>0. /\ log \in Seq(Given) /\ log' \in Seq(Given) /\ connected /\ inflight \in Seq(UserIds)
      /\ ControlOK /\ ControlOK' /\ Responses \in Seq(Given) /\ RecoveryEnds /\ RunRows
      /\ responses \in Nat /\ recoveryTried \in BOOLEAN
  BY NoManual, RowOfLog DEF SessionInv, TextOK, ControlOK, RowInv, Responses
<1>1. CallRows' /\ (~RunEnds => \A q \in Prompts : pc'[q] # "post")
  BY RowsOfRun
\* Users.
<1>2. CASE EmitPrompt \/ Inject
  <2>1. EmitUsers(inflight) /\ phase' \in {"start", "turn"}
    BY <1>2 DEF EmitPrompt, Inject
  <2>2. /\ RecoveryEnds'
        /\ inflight = <<>> => Responses' = Responses /\ recoveryTried' = recoveryTried
        /\ inflight # <<>> => AtEnd(Responses', 0, 0) /\ recoveryTried' = FALSE
    BY <1>0, <2>1, UsersEndRow
  <2>3. CASE inflight # <<>>
    BY <1>0, <1>1, <2>1, <2>2, <2>3, RowsBroken
  <2>4. CASE inflight = <<>>
    <3>1. Inject /\ GoesOn /\ phase' = "turn" /\ retryAttempt' = retryAttempt
      BY <1>0, <1>2, <2>4 DEF EmitPrompt, Inject, RunRows, GoesOn
    <3>2. AtEnd(Responses, Spent + retryAttempt, Tried)'
      BY <1>0, <2>2, <2>4, <3>1 DEF RunRows, Spent, Tried
    <3>3. AtEnd(Responses, Spent + MaxRetries + 1, Tried + 1)'
      BY <2>2, <2>4 DEF RowInv, Spent, Tried
    <3>4. ~RunEnds
      BY <3>1 DEF Inject, RunEnds
    <3>5. RunRows'
      BY <1>1, <3>1, <3>2, <3>4 DEF RunRows, Unbroken
    <3> QED BY <1>1, <2>2, <3>3, <3>5 DEF RowInv
  <2> QED BY <2>3, <2>4
\* A response.
<1>3. CASE Respond
  <2>1. PICK stop \in Stops \cup {"stop", "aborted"} :
           /\ newest' = Assistant(responses + 1, stop)
           /\ EmitAssistant(newest')
           /\ phase' = IF stop = "toolUse" THEN "tool"
                       ELSE IF IsError(stop) \/ stop = "aborted" THEN "ending" ELSE "turnEnd"
    BY <1>3 DEF Respond
  <2> DEFINE x == newest'
             row == Responses
  <2>2. /\ x \in Given /\ x.role = "assistant" /\ x.stop = stop
        /\ x \in Turns /\ (IsErrorEntry(x) <=> IsError(stop))
    BY <1>0, <2>1, Made, Roles DEF Answers, Turns, IsErrorEntry
  <2>3. log' = Append(log, x) /\ lastAssistant' = x
    BY <1>0, <2>1 DEF EmitAssistant, Persist
  <2>4. Responses' = Append(row, x)
    BY <1>0, <2>2, <2>3, KeptAppended DEF Responses
  <2>5. phase = "turn" /\ GoesOn /\ ~RunEnds
    BY <1>3 DEF Respond, GoesOn, RunEnds
  <2>6. AtEnd(row, Spent + retryAttempt, Tried) /\ row \in Seq(Given)
    BY <1>0, <2>5 DEF RunRows
  <2>7. CASE IsError(stop)
    <3>1. /\ phase' = "ending" /\ retryAttempt' = retryAttempt
          /\ recoveryTried' <=> recoveryTried
      BY <1>0, <2>1, <2>2, <2>7 DEF EmitAssistant, IsError
    <3>2. Spent' = Spent /\ Tried' = Tried /\ Latest' = IF x.stop = "overflow" THEN 1 ELSE 0
      BY <2>3, <3>1 DEF Spent, Tried, Latest
    <3>3. RowsEnd(Append(row, x)) /\ AtEnd(Append(row, x), Spent + retryAttempt + 1, Tried + Latest')
      <4> DEFINE b == Spent + retryAttempt
                 q == Tried + Latest'
      <4>1. /\ b \in Nat /\ b <= 2 * MaxRetries + 1 /\ Tried \in Nat /\ q \in Nat /\ q <= 2
            /\ Tried + (IF x.stop = "overflow" THEN 1 ELSE 0) <= q
        BY <1>0, <3>2, Budgets
      <4>2. AtEnd(row, b, Tried) /\ RowsEnd(row)
        BY <1>0, <2>6 DEF RecoveryEnds
      <4> HIDE DEF b, q, x, row
      <4>3. RowsEnd(Append(row, x)) /\ AtEnd(Append(row, x), b + 1, q)
        BY <2>2, <2>6, <4>1, <4>2, RowLonger
      <4> QED BY <4>3 DEF b, q
    <3>4. RecoveryEnds'
      BY <2>4, <3>3 DEF RecoveryEnds
    <3>5. AtEnd(Responses, Spent + retryAttempt + 1, Tried + Latest)'
      BY <2>4, <3>1, <3>2, <3>3
    <3>6. AtEnd(Responses, Spent + MaxRetries + 1, Tried + 1)'
      <4>1. /\ Spent' + retryAttempt' + 1 \in Nat /\ Tried' + Latest' \in Nat
            /\ Spent' + MaxRetries + 1 \in Nat /\ Tried' + 1 \in Nat
            /\ Spent' + retryAttempt' + 1 <= Spent' + MaxRetries + 1 /\ Tried' + Latest' <= Tried' + 1
        BY <1>0, BudgetsNext
      <4>2. Responses' \in Seq(Given)
        BY <1>0, RowOfLog DEF Responses
      <4> QED BY <3>5, <4>1, <4>2, RowWeakened
    <3>7. RunRows'
      BY <3>1, <3>5 DEF RunRows, GoesOn, Unbroken
    <3> QED BY <1>1, <3>4, <3>6, <3>7 DEF RowInv
  <2>8. CASE ~IsError(stop)
    <3> DEFINE xs == <<x>>
    <3>1. xs \in Seq(Given) /\ xs # <<>> /\ \A k \in 1..Len(xs) : ~IsErrorEntry(xs[k])
      BY <2>2, <2>8
    <3>2. row \o xs = Append(row, x)
      BY <2>6
    <3> HIDE DEF xs
    <3>3. RowsEnd(row \o xs) /\ AtEnd(row \o xs, 0, 0)
      BY <1>0, <2>6, <3>1, RowBroken DEF RecoveryEnds
    <3>4. RecoveryEnds' /\ AtEnd(Responses, 0, 0)'
      BY <2>4, <3>2, <3>3 DEF RecoveryEnds
    <3>5. phase' # "prompt"
      BY <2>1
    <3> QED BY <1>0, <1>1, <3>4, <3>5, RowsBroken
  <2> QED BY <2>7, <2>8
\* What is said of tools, and polls.
<1>4. CASE ToolEnds \/ GuardStops \/ PollAfterTurn \/ PrepareTurn \/ CompactBeforeTurn \/ TurnCompactionEnds
  <2>1. phase \in Unbroken /\ phase' # "prompt"
    BY <1>4 DEF ToolEnds, GuardStops, PollAfterTurn, PrepareTurn, CompactBeforeTurn, TurnCompactionEnds, Unbroken
  <2>2. Responses' = Responses
    <3>1. log' = log \/ \E e \in Given : e.role \notin {"user", "assistant"} /\ log' = Append(log, e)
      <4>1. CASE ToolEnds
        <5>1. ToolResult(responses) \in Given /\ ToolResult(responses).role = "toolResult"
          BY <1>0, Made
        <5>2. log' = Append(log, ToolResult(responses))
          BY <1>0, <4>1 DEF ToolEnds, Persist
        <5> QED BY <5>1, <5>2
      <4>2. CASE TurnCompactionEnds
        <5>1. CASE log' = log
          BY <5>1
        <5>2. CASE Compacts("run") /\ log' = AppendCompaction(compacting["run"].cut)
          <6>1. compacting["run"].cut \in Nat \ {0}
            BY <5>2 DEF Compacts, SessionInv, TextOK, Calls
          <6>2. Compaction(compacting["run"].cut) \in Given /\ Compaction(compacting["run"].cut).role = "compaction"
            BY <6>1, Made
          <6> QED BY <5>2, <6>2 DEF AppendCompaction
        <5> QED BY <4>2, <5>1, <5>2 DEF TurnCompactionEnds
      <4>3. CASE GuardStops \/ PollAfterTurn \/ PrepareTurn \/ CompactBeforeTurn
        BY <4>3 DEF GuardStops, PollAfterTurn, PrepareTurn, CompactBeforeTurn, sessionVars
      <4> QED BY <1>4, <4>1, <4>2, <4>3
    <3> QED BY <1>0, <3>1, OutsideRows DEF Responses
  <2>3. RecoveryEnds' /\ AtEnd(Responses, 0, 0)'
    BY <1>0, <2>1, <2>2 DEF RunRows, RecoveryEnds
  <2> QED BY <1>0, <1>1, <2>1, <2>3, RowsBroken
<1>5. CASE InitialPoll \/ RunEnds
  <2>1. Responses' = Responses /\ UNCHANGED <<recoveryTried, retryAttempt, lastAssistant>>
    BY <1>5 DEF InitialPoll, RunEnds, sessionVars, Responses
  <2>2. RecoveryEnds' /\ AtEnd(Responses, Spent + MaxRetries + 1, Tried + 1)'
    BY <2>1 DEF RowInv, RecoveryEnds, Spent, Tried
  <2>3. RunRows'
    <3>1. CASE InitialPoll
      <4>1. phase = "start" /\ phase' = "inject" /\ inflight' = Polled
        BY <3>1 DEF InitialPoll, Poll
      <4>2. ~RunEnds
        BY <4>1 DEF RunEnds
      <4>3. GoesOn' => GoesOn
        BY <1>0, <4>1 DEF GoesOn, Polled, ControlOK
      <4>4. GoesOn' => AtEnd(Responses, Spent + retryAttempt, Tried)'
        BY <1>0, <2>1, <4>3 DEF RunRows, Spent, Tried
      <4> QED BY <1>1, <4>1, <4>2, <4>4 DEF RunRows, Unbroken
    <3>2. CASE RunEnds
      <4>1. phase = "ending" /\ phase' = "idle"
        BY <3>2 DEF RunEnds
      <4>2. AtEnd(Responses, Spent + retryAttempt + 1, Tried + Latest)'
        BY <1>0, <2>1, <4>1 DEF RunRows, Spent, Tried, Latest
      <4> QED BY <4>1, <4>2 DEF RunRows, GoesOn, Unbroken
    <3> QED BY <1>5, <3>1, <3>2
  <2> QED BY <1>1, <2>2, <2>3 DEF RowInv
<1> QED BY <1>2, <1>3, <1>4, <1>5 DEF RunStep

\* A step of a call that ends starts a run that goes on with what is queued, or none; only
\* agent.continue() after a retry starts one that goes on without.
LEMMA EndsRow ==
    ASSUME RunsAreAwaited, phase = "idle", queue \in Seq(UserIds), NEW p \in Prompts, NEW ms, NEW lg,
           GoOn(p, ms, lg) \/ ContinueIfQueued(p, ms, lg) \/ Continue(p, ms, lg)
    PROVE  /\ phase' # "prompt" /\ pc'[p] \notin {"sleep", "compact"}
           /\ GoesOn' => Continue(p, ms, lg) /\ queue = <<>>
<1>1. pc \in [Prompts -> PC] /\ stage[p] \in Stage
  BY DEF RunsAreAwaited
<1>2. CASE GoOn(p, ms, lg)
  <2>1. pc' = [pc EXCEPT ![p] = "build"] \/ pc' = [pc EXCEPT ![p] = "done"]
    BY <1>1, <1>2 DEF GoOn, Leave, Stage
  <2>2. phase' = phase
    BY <1>1, <1>2 DEF GoOn, Leave, Stage, NoRunChange
  <2> QED BY <1>1, <2>1, <2>2 DEF GoesOn
<1>3. CASE Continue(p, ms, lg)
  <2>1. CASE phase # "idle" \/ ms = <<>> \/ (EndsWith(ms, "assistant") /\ queue = <<>>)
    <3>1. Leave(p, "rejected", ms, lg)
      BY <1>3, <2>1 DEF Continue
    <3> QED BY <1>1, <3>1 DEF Leave, NoRunChange, GoesOn
  <2>2. CASE ~(phase # "idle" \/ ms = <<>> \/ (EndsWith(ms, "assistant") /\ queue = <<>>))
    <3>1. pc' = [pc EXCEPT ![p] = "running"]
      BY <1>3, <2>2 DEF Continue, StartRun
    <3>2. CASE EndsWith(ms, "assistant")
      <4>1. phase' = "inject" /\ inflight' = Polled
        BY <1>3, <2>2, <3>2 DEF Continue, StartRun
      <4>2. Polled # <<>>
        BY <2>2, <3>2 DEF Polled
      <4> QED BY <1>1, <3>1, <4>1, <4>2 DEF GoesOn
    <3>3. CASE ~EndsWith(ms, "assistant")
      <4>1. phase' = "start" /\ queue' = queue
        BY <1>3, <2>2, <3>3 DEF Continue, StartRun
      <4> QED BY <1>1, <1>3, <3>1, <4>1 DEF GoesOn
    <3> QED BY <3>2, <3>3
  <2> QED BY <2>1, <2>2
<1>4. CASE ContinueIfQueued(p, ms, lg)
  BY <1>2, <1>3, <1>4 DEF ContinueIfQueued
<1> QED BY <1>2, <1>3, <1>4

\* A compaction that begins spends the recovery from an overflow, when it is one, and is
\* one only when that has not been tried.
LEMMA BegunRow ==
    ASSUME recoveryTried \in BOOLEAN, pc \in [Prompts -> PC],
           compacting \in [Calls -> [retry : BOOLEAN, cut : Nat]],
           NEW p \in Prompts, NEW a, NEW skip, NEW ms, NEW lg, Begun(p, a, skip, ms, lg)
    PROVE  /\ phase' = phase /\ pc'[p] = "compact"
           /\ \/ (recoveryTried' <=> recoveryTried) /\ compacting'[p].retry = FALSE
              \/ recoveryTried = FALSE /\ recoveryTried' = TRUE
<1>1. PICK verdict \in Verdicts(a, skip) \ {"none"} : BeginCompaction(p, verdict, ms, lg)
  BY DEF Begun
<1>2. phase' = phase /\ pc'[p] = "compact"
  BY <1>1 DEF BeginCompaction, NoRunChange
<1>3. recoveryTried' = (recoveryTried \/ verdict = "recover")
  BY <1>1 DEF BeginCompaction
<1>4. CASE verdict = "recover"
  <2>1. recoveryTried' = TRUE
    BY <1>3, <1>4
  <2>2. recoveryTried = FALSE
    <3> SUFFICES ASSUME recoveryTried
                 PROVE  FALSE
      OBVIOUS
    <3> QED BY <1>1, <1>4 DEF Verdicts
  <2> QED BY <1>2, <2>1, <2>2
<1>5. CASE verdict # "recover"
  <2>1. recoveryTried' <=> recoveryTried
    BY <1>3, <1>5
  <2>2. PICK cut : compacting' = [compacting EXCEPT ![p] = [retry |-> verdict = "recover", cut |-> cut]]
    BY <1>1 DEF BeginCompaction
  <2> DEFINE x == [retry |-> verdict = "recover", cut |-> cut]
  <2>3. x.retry = FALSE
    BY <1>5
  <2>4. compacting' = [compacting EXCEPT ![p] = x] /\ p \in Calls
    BY <2>2 DEF Calls
  <2> HIDE DEF x
  <2>5. compacting'[p].retry = FALSE
    BY <2>3, <2>4
  <2> QED BY <1>2, <2>1, <2>5
<1> QED BY <1>4, <1>5

\* The steps of a call keep to the budgets: a retry is one more, a recovery is the only one,
\* and other runs begin with a message of a user.
LEMMA CallRowsStep ==
    ASSUME Concurrent = FALSE, RetryInv, SessionInv, SleepsAreRetries, SessionInv', RowInv,
           NEW p \in Prompts, BeginPrompt(p) \/ PromptStep(p)
    PROVE  RowInv'
<1>0. /\ queue \in Seq(UserIds) /\ RunsAreAwaited /\ Alone /\ TextOK /\ ControlOK /\ ControlOK'
      /\ pc \in [Prompts -> PC] /\ compacting \in [Calls -> [retry : BOOLEAN, cut : Nat]]
      /\ recoveryTried \in BOOLEAN /\ Responses \in Seq(Given)
  BY RowOfLog DEF SessionInv, TextOK, RetryInv, ControlOK, RunsAreAwaited, Responses
<1>1. phase = "idle" /\ ~Behind' /\ Responses' = Responses
  BY <1>0, BetweenRuns, NoneBehind, CallLeavesRows
<1>2. \A q \in Prompts : q # p => pc'[q] = pc[q] /\ pc[q] \in Settled
  <2>1. \A q \in Prompts : q # p => pc'[q] = pc[q]
    BY <1>0, CallFlushes DEF Flushed
  <2>2. CASE BeginPrompt(p)
    BY <2>1, <2>2 DEF BeginPrompt
  <2>3. CASE PromptStep(p)
    <3>1. pc[p] \notin Settled
      BY <2>3 DEF PromptStep, SubmitPrompt, NothingToHandle, PrepareRetry, HandleRun, RetryNow, RetryCancelled,
                  SleepOver, CompactionReturns, CompactionSucceeds, CompactionFails, Settled
    <3> QED BY <1>0, <2>1, <3>1 DEF Alone
  <2> QED BY <2>2, <2>3
\* It suffices to look at the run, at the call and at the budgets.
<1>3. ASSUME phase' = "prompt" => inflight' # <<>>,
             AtEnd(Responses, Spent' + MaxRetries + 1, Tried' + 1),
             GoesOn' \/ pc'[p] = "sleep" => AtEnd(Responses, Spent' + retryAttempt', Tried'),
             pc'[p] = "compact" /\ compacting'[p].retry => recoveryTried' /\ AtEnd(Responses, MaxRetries + 1, 1)
      PROVE  RowInv'
  <2>1. RunRows'
    BY <1>1, <1>3 DEF RunRows, Behind, Answered, Unbroken
  <2>2. \A q \in Prompts : q # p => pc'[q] \notin {"sleep", "compact"}
    BY <1>2 DEF Settled
  <2>3. CallRows'
    BY <1>1, <1>3, <2>2 DEF CallRows
  <2>4. RecoveryEnds'
    BY <1>1 DEF RowInv, RecoveryEnds
  <2> QED BY <1>1, <1>3, <2>1, <2>3, <2>4 DEF RowInv
<1>4. AtEnd(Responses, Spent + MaxRetries + 1, Tried + 1)
  BY DEF RowInv
\* The recovery is as it was.
<1>5. ASSUME recoveryTried' <=> recoveryTried
      PROVE  Spent' = Spent /\ Tried' = Tried
  BY <1>5 DEF Spent, Tried
<1>6. ASSUME recoveryTried' <=> recoveryTried, phase' # "prompt", pc'[p] # "sleep",
             GoesOn' => AtEnd(Responses, Spent + retryAttempt', Tried),
             pc'[p] = "compact" => compacting'[p].retry = FALSE
      PROVE  RowInv'
  BY <1>3, <1>4, <1>5, <1>6
<1>7. ASSUME NEW ms, NEW lg, recoveryTried' = recoveryTried, GoOn(p, ms, lg) \/ ContinueIfQueued(p, ms, lg)
      PROVE  RowInv'
  <2>1. phase' # "prompt" /\ pc'[p] \notin {"sleep", "compact"}
    BY <1>0, <1>1, <1>7, EndsRow
  <2>2. ~GoesOn'
    <3> SUFFICES ASSUME GoesOn'
                 PROVE  FALSE
      OBVIOUS
    <3>1. CASE GoOn(p, ms, lg)
      BY <1>0, <1>1, <3>1 DEF GoOn, Leave, NoRunChange, GoesOn, RunsAreAwaited, Stage
    <3>2. CASE queue # <<>>
      BY <1>0, <1>1, <1>7, <3>2, EndsRow
    <3> QED BY <1>7, <3>1, <3>2 DEF ContinueIfQueued
  <2> QED BY <1>6, <1>7, <2>1, <2>2
<1>8. ASSUME NEW a, NEW skip, NEW ms, NEW lg, Begun(p, a, skip, ms, lg)
      PROVE  RowInv'
  <2>1. /\ phase' = phase /\ pc'[p] = "compact"
        /\ \/ (recoveryTried' <=> recoveryTried) /\ compacting'[p].retry = FALSE
           \/ recoveryTried = FALSE /\ recoveryTried' = TRUE
    BY <1>0, <1>8, BegunRow
  <2>2. phase' # "prompt" /\ ~GoesOn'
    BY <1>1, <2>1 DEF GoesOn
  <2>3. CASE (recoveryTried' <=> recoveryTried) /\ compacting'[p].retry = FALSE
    BY <1>6, <2>1, <2>2, <2>3
  <2>4. CASE recoveryTried = FALSE /\ recoveryTried' = TRUE
    <3>1. Spent = 0 /\ Tried = 0 /\ Spent' = MaxRetries + 1 /\ Tried' = 1
      BY <2>4 DEF Spent, Tried
    <3>2. AtEnd(Responses, 0 + MaxRetries + 1, 0 + 1)
      BY <1>4, <3>1
    <3>3. MaxRetries \in Nat
      BY SessionBounds
    <3>4. AtEnd(Responses, MaxRetries + 1, 1)
      <4>1. 0 + MaxRetries + 1 = MaxRetries + 1 /\ 0 + 1 = 1
        BY <3>3
      <4> QED BY <3>2, <4>1
    <3>5. AtEnd(Responses, MaxRetries + 1 + MaxRetries + 1, 1 + 1)
      <4>1. /\ MaxRetries + 1 \in Nat /\ 1 \in Nat /\ MaxRetries + 1 + MaxRetries + 1 \in Nat /\ 1 + 1 \in Nat
            /\ MaxRetries + 1 <= MaxRetries + 1 + MaxRetries + 1 /\ 1 <= 1 + 1
        BY <3>3
      <4> HIDE DEF AtEnd
      <4> QED BY <1>0, <3>4, <4>1, RowWeakened
    <3>6. AtEnd(Responses, Spent' + MaxRetries + 1, Tried' + 1)
      BY <3>1, <3>5
    <3> QED BY <1>3, <2>1, <2>2, <2>4, <3>4, <3>6
  <2> QED BY <2>1, <2>3, <2>4
<1>9. ASSUME NEW a, CheckCompaction(p, a)
      PROVE  RowInv'
  <2>1. PICK verdict \in Verdicts(a, TRUE) :
          IF verdict # "none"
          THEN BeginCompaction(p, verdict, messages, log) /\ UNCHANGED pendingBash
          ELSE ContinueIfQueued(p, messages, log) /\ UNCHANGED <<recoveryTried, compacting, autoSlot>>
    BY <1>9 DEF CheckCompaction
  <2>2. CASE verdict # "none"
    <3>1. Begun(p, a, TRUE, messages, log)
      BY <2>1, <2>2 DEF Begun
    <3> QED BY <1>8, <3>1
  <2>3. CASE verdict = "none"
    BY <1>7, <2>1, <2>3
  <2> QED BY <2>2, <2>3
<1>10. CASE BeginPrompt(p)
  <2> DEFINE ms == messages \o pendingBash
             lg == log \o pendingBash
             a  == LastAssistantIn(ms)
  <2>1. PICK verdict \in (IF a = None THEN {"none"} ELSE Verdicts(a, FALSE)) :
           IF verdict = "none"
           THEN /\ pc' = [pc EXCEPT ![p] = "build"]
                /\ messages' = ms /\ log' = lg
                /\ NoRunChange /\ UNCHANGED <<stage, recoveryTried, compacting, autoSlot>>
           ELSE BeginCompaction(p, verdict, ms, lg)
    BY <1>10 DEF BeginPrompt
  <2>2. CASE verdict = "none"
    <3>1. pc'[p] = "build" /\ phase' = "idle" /\ recoveryTried' = recoveryTried
      BY <1>0, <1>1, <2>1, <2>2 DEF NoRunChange
    <3> QED BY <1>6, <3>1 DEF GoesOn
  <2>3. CASE verdict # "none"
    <3>1. Begun(p, a, FALSE, ms, lg)
      BY <2>1, <2>3 DEF Begun
    <3> QED BY <1>8, <3>1
  <2> QED BY <2>2, <2>3
<1>11. CASE SubmitPrompt(p)
  <2>1. phase' = "prompt" /\ inflight' = <<p>> /\ pc' = [pc EXCEPT ![p] = "running"]
    BY <1>1, <1>11 DEF SubmitPrompt, StartRun
  <2>2. inflight' # <<>> /\ recoveryTried' = recoveryTried /\ pc'[p] = "running" /\ ~GoesOn'
    BY <1>0, <1>11, <2>1 DEF SubmitPrompt, GoesOn
  <2> QED BY <1>3, <1>4, <1>5, <2>2
<1>12. CASE NothingToHandle(p)
  BY <1>7, <1>12 DEF NothingToHandle
<1>13. CASE PrepareRetry(p)
  <2>1. /\ pc[p] = "post" /\ lastAssistant.stop = "retryable" /\ retryAttempt' = retryAttempt + 1
        /\ phase' = phase /\ pc'[p] = "sleep" /\ recoveryTried' = recoveryTried
    BY <1>0, <1>13 DEF PrepareRetry, MayRetry, IsRetryableError, NoRunChange
  <2>2. AtEnd(Responses, Spent + retryAttempt + 1, Tried + Latest)
    BY <2>1 DEF RowInv, RunRows
  <2>3. Latest = 0
    BY <2>1 DEF Latest
  <2>4. Spent + retryAttempt + 1 = Spent + (retryAttempt + 1) /\ Tried + 0 = Tried
    BY <1>0, Budgets
  <2>5. AtEnd(Responses, Spent + (retryAttempt + 1), Tried)
    BY <2>2, <2>3, <2>4
  <2>6. AtEnd(Responses, Spent' + retryAttempt', Tried')
    BY <1>5, <2>1, <2>5
  <2> QED BY <1>1, <1>3, <1>4, <1>5, <2>1, <2>6
<1>14. CASE HandleRun(p)
  BY <1>9, <1>14 DEF HandleRun
<1>15. CASE RetryNow(p)
  <2>1. /\ pc[p] = "sleep" /\ Continue(p, messages, log)
        /\ retryAttempt' = retryAttempt /\ recoveryTried' = recoveryTried
    BY <1>15 DEF RetryNow, SleepOver
  <2>2. AtEnd(Responses, Spent + retryAttempt, Tried)
    BY <2>1 DEF RowInv, CallRows
  <2>3. phase' # "prompt" /\ pc'[p] \notin {"sleep", "compact"}
    BY <1>0, <1>1, <2>1, EndsRow
  <2> QED BY <1>6, <2>1, <2>2, <2>3
<1>16. CASE RetryCancelled(p)
  BY <1>9, <1>16 DEF RetryCancelled
<1>17. CASE CompactionReturns(p)
  <2>1. recoveryTried' = recoveryTried /\ retryAttempt' = retryAttempt /\ pc[p] = "compact"
    BY <1>17 DEF CompactionReturns, CompactionSucceeds, CompactionFails
  <2>2. CASE ~compacting[p].retry \/ CompactionFails(p)
    BY <1>7, <1>17, <2>1, <2>2 DEF CompactionReturns, CompactionSucceeds, CompactionFails
  <2>3. CASE compacting[p].retry /\ CompactionSucceeds(p)
    <3>1. \E ms, lg : Continue(p, ms, lg)
      BY <2>3 DEF CompactionSucceeds
    <3>2. phase' # "prompt" /\ pc'[p] \notin {"sleep", "compact"}
      BY <1>0, <1>1, <3>1, EndsRow
    <3>3. recoveryTried /\ AtEnd(Responses, MaxRetries + 1, 1)
      BY <2>1, <2>3 DEF RowInv, CallRows
    <3>4. Spent = MaxRetries + 1 /\ Tried = 1
      BY <3>3 DEF Spent, Tried
    <3>5. AtEnd(Responses, Spent + retryAttempt, Tried)
      <4>1. /\ MaxRetries + 1 \in Nat /\ 1 \in Nat /\ Spent + retryAttempt \in Nat
            /\ MaxRetries + 1 <= Spent + retryAttempt /\ 1 <= 1
        BY <1>0, <3>4, Budgets
      <4> QED BY <1>0, <3>3, <3>4, <4>1, RowWeakened
    <3> QED BY <1>6, <2>1, <3>2, <3>5
  <2> QED BY <1>17, <2>2, <2>3 DEF CompactionReturns
<1> QED BY <1>10, <1>11, <1>12, <1>13, <1>14, <1>15, <1>16, <1>17 DEF PromptStep

\* Every step does.
LEMMA RowsStep ==
    ASSUME Concurrent = FALSE, MaxManual = 0, Interrupts \subseteq {"abort"},
           RetryInv, SessionInv, SessionInv', SleepsAreRetries, RowInv, [Next]_vars
    PROVE  RowInv'
<1>0. log \in Seq(Given) /\ queue \in Seq(UserIds) /\ pc \in [Prompts -> PC]
  BY DEF SessionInv, TextOK, ControlOK, RunsAreAwaited
<1>1. CASE RunStep
  BY <1>1, RunRowsStep
<1>2. CASE \E p \in Prompts : BeginPrompt(p) \/ PromptStep(p)
  BY <1>2, CallRowsStep
<1>3. ASSUME NEW p \in Prompts, QueuePrompt(p)
      PROVE  RowInv'
  <2>1. /\ UNCHANGED <<phase, inflight, log, recoveryTried, retryAttempt, lastAssistant, compacting>>
        /\ queue' = Append(queue, p) /\ pc' = [pc EXCEPT ![p] = "done"]
    BY <1>3 DEF QueuePrompt, sessionVars
  <2>2. queue' # <<>>
    BY <1>0, <2>1
  <2>3. GoesOn' => GoesOn
    BY <2>1, <2>2 DEF GoesOn
  <2>4. \A q \in Prompts : pc'[q] = pc[q] \/ pc'[q] = "done"
    BY <1>0, <2>1
  <2>5. Responses' = Responses
    BY <2>1 DEF Responses
  <2> QED BY <2>1, <2>3, <2>4, <2>5, RowsStay
<1>4. CASE Steer
  <2>1. /\ UNCHANGED <<phase, inflight, log, recoveryTried, retryAttempt, lastAssistant, compacting, pc>>
        /\ \E m : queue' = Append(queue, m)
    BY <1>4 DEF Steer, sessionVars, callVars
  <2>2. queue' # <<>>
    BY <1>0, <2>1
  <2>3. GoesOn' => GoesOn
    BY <2>1, <2>2 DEF GoesOn
  <2>4. Responses' = Responses
    BY <2>1 DEF Responses
  <2> QED BY <2>1, <2>3, <2>4, RowsStay
\* An abort leaves the queue as it is.
<1>5. CASE (\E how \in Interrupt : Interrupted(how)) \/ BashEnds \/ UNCHANGED vars
  <2>1. UNCHANGED <<phase, inflight, queue, recoveryTried, retryAttempt, lastAssistant, compacting, pc>>
    BY <1>5 DEF Interrupted, BashEnds, NoRunChange, sessionVars, callVars, agentVars, vars
  <2>2. Responses' = Responses
    <3>1. log' = log \/ \E b \in Bashes : log' = Append(log, Bash(b))
      BY <1>5 DEF Interrupted, BashEnds, sessionVars, vars
    <3>2. \A b \in Bashes : Bash(b) \in Given /\ Bash(b).role \notin {"user", "assistant"}
      BY Made, Roles
    <3> QED BY <1>0, <3>1, <3>2, OutsideRows DEF Responses
  <2>3. GoesOn' => GoesOn
    BY <2>1 DEF GoesOn
  <2> QED BY <2>1, <2>2, <2>3, RowsStay
<1> QED BY <1>1, <1>2, <1>3, <1>4, <1>5, NoManual DEF Next

\* Automatic retries and overflow recoveries end, although each restarts the other: a retry
\* that succeeds sets the one counter back, a compaction that recovers from an overflow is
\* followed by retries of its own, the flags are set back in three handlers, and a run may be
\* started by whichever call finds something to do.  At most 2 * maxRetries + 2 responses in a
\* row are errors, and two of them overflows.  Each hypothesis is needed: of two calls that
\* recover from an overflow at a time each retries when its compaction is over; compact()
\* keeps the session from hearing of the message of a user, so that the rows before and behind
\* it are one in the log; and when the queue is cleared under a run that was started for what
\* it held, that run asks the model once more for nothing.
THEOREM RecoveriesEnd ==
    ASSUME Concurrent = FALSE, MaxManual = 0, Interrupts \subseteq {"abort"}
    PROVE  Spec => []RecoveryEnds
<1>1. Init => RetryInv /\ SessionInv /\ SleepsAreRetries /\ RowInv
  <2> SUFFICES ASSUME Init
               PROVE  RetryInv /\ SessionInv /\ SleepsAreRetries /\ RowInv
    OBVIOUS
  <2>1. log = <<>> /\ <<>> \in Seq(Turns)
    BY DEF Init
  <2>2. Responses = <<>>
    BY <2>1, KeptOfAll DEF Responses
  <2>3. Len(Responses) = 0
    BY <2>2
  <2>4. RecoveryEnds /\ \A b, o : AtEnd(Responses, b, o)
    BY <2>3 DEF RecoveryEnds, RowsEnd, AtEnd
  <2>5. phase = "idle" /\ \A p \in Prompts : pc[p] = "idle"
    BY DEF Init
  <2>6. RowInv
    BY <2>4, <2>5 DEF RowInv, RunRows, CallRows, GoesOn, Unbroken
  <2> QED BY <2>6, AloneInit DEF ContextInv
<1>2. RetryInv /\ SessionInv /\ SleepsAreRetries /\ RowInv /\ [Next]_vars
        => RetryInv' /\ SessionInv' /\ SleepsAreRetries' /\ RowInv'
  <2> SUFFICES ASSUME RetryInv, SessionInv, SleepsAreRetries, RowInv, [Next]_vars
               PROVE  RetryInv' /\ SessionInv' /\ SleepsAreRetries' /\ RowInv'
    OBVIOUS
  <2>1. RetryInv' /\ SessionInv'
    BY RetryStep, SessionInvStep DEF RetryInv
  <2>2. SleepsAreRetries'
    BY SleepStep DEF SessionInv
  <2> QED BY <2>1, <2>2, RowsStep
<1>3. RowInv => RecoveryEnds
  BY DEF RowInv
<1> QED BY <1>1, <1>2, <1>3, PTL DEF Spec

=============================================================================
