# A TLA+ development of linc

linc is a terminal agent: a language model is called in turns, its tool calls are
executed, users and extensions steer it while it works, and everything said is
kept in a session file.  The modules here model the parts of the program in which
an order of events, a failed step or a restart can be wrong: the agent and its loop,
the session that wraps retries, compactions and aborts around it, the file a session
is kept in, the second orchestration layer (`AgentHarness`), and six smaller parts
with a protocol of their own.  TLC checks them on small instances; TLAPS proves nearly
every safety property of the passing runs for all instances, two refinements among
them.  Section 5 lists what is proved and the few properties that are not.

Paths below are relative to `packages/` of the repository.

## 1. Inventory

A process is single-threaded JavaScript.  Its concurrency is that of async
functions: between two awaits a function runs alone, at an await every other
caller, listener or timer may run.  The hazards are therefore states read before
an await and used after it, several callers inside the same async function, events
that arrive in an order nobody tested, and steps that throw half way.  Several
processes share the files under the user's directory: credentials and settings.

### Components that are modelled

| Component | State | Operations | What makes it correct |
|---|---|---|---|
| Agent (`agent/src/agent.ts`) | transcript, pending tool calls, two message queues with a drain mode each, the active run with its abort signal | `prompt`, `continue`, `steer`, `followUp`, `clearAllQueues`, `abort`, event reduction, failure handling | one run at a time; a message handed over is in one place until delivered; every run ends |
| Agent loop (`agent/src/agent-loop.ts`) | its own copy of the context, polled messages, the tool batch | turns, four polls of the queues, sequential and parallel execution of tool calls, cut by an abort | results follow their calls in source order; the model sees what the transcript shows; nothing polled is overwritten |
| AgentSession (`coding-agent/src/core/agent-session.ts`) | session log, retry counter, recovery flag, last response, deferred bash messages, abort controllers | `prompt`, post-run loop, `_prepareRetry`, `_checkCompaction`, `_runAutoCompaction`, `compact`, `abort`, `recordBashResult` | the transcript is the one a restart rebuilds; retries and recoveries end; nothing queued is left behind; bash results never separate a call from its result |
| Compaction (`coding-agent/src/core/compaction/`) | none | cut points, summaries | never cuts between a call and its result |
| Session tree and file (`coding-agent/src/core/session-manager.ts`) | entries by parent, leaf, labels, file, whether it was written | append, label, branch, compaction, new, open, fork, branched session | what was answered is on disk and comes back after a restart; no entry loses its ancestors; a branched session shows the conversation it was made from |
| Overflow detection (`ai/src/utils/overflow.ts`) | none | classifies a response | error, silent and length-stop overflows told apart |
| AgentHarness and its sessions (`agent/src/harness/agent-harness.ts`, `session/`) | phase, pending session writes, three queues, the run `abort` reaches, tree and leaf | `prompt`, `steer`, `followUp`, `nextTurn`, `appendMessage` and the setters that write, `abort`, `compact`, `navigateTree` | the model sees the branch; writes are flushed once and in order; a message is in one place; every call settles |
| EventStream (`ai/src/utils/event-stream.ts`, `providers/register-builtins.ts`) | queue, waiting readers, done, result | `push`, `end`, iteration, `result`, forwarding into a second stream | one channel in order and without loss; no reader waits behind the end |
| File mutation queue (`coding-agent/src/core/tools/file-mutation-queue.ts`, `edit.ts`, `write.ts`) | registration queue, tail per key | `withFileMutationQueue`, read and write under it | calls on one file run one at a time, in call order; no update is lost; keys are dropped |
| Model fallback (`coding-agent/src/linc/extensions/model-fallback.ts`) | the session's model and the last record | switch at a failing request, restore, the user's choice | the user's choice is used or will be restored |
| Auth storage (`coding-agent/src/core/auth-storage.ts`) | credentials in memory and in a locked file | `set`, `remove`, `login`, `reload`, `getApiKey` with refresh | a refresh token is used once; a write leaves the other provider alone |
| Settings manager (`coding-agent/src/core/settings-manager.ts`) | two scopes in memory and on disk, marks, queued writes, trust | setters, queued writes, `reload`, `setProjectTrusted` | a change stays marked until it is written; what others wrote is kept |
| RPC client and mode (`coding-agent/src/modes/rpc/`) | process, pending requests, listeners | `start`, `stop`, requests, `waitForIdle` | a request is settled by its own process |

`Agent` reports every event to its listeners and awaits them; `AgentSession` is
one of them.  `AgentSession` calls `prompt` and `continue` of the agent, appends
every finished message to the session (`SessionManager`), and between runs rewrites
the agent's transcript: a retry takes the error out, a compaction rebuilds it from
the log.  Callers reach the session at any moment: the RPC and interactive modes,
extensions, timers, finished bash commands.  `AgentHarness` is a separate layer over
the same agent loop with sessions of its own.  The loop reads its responses from an
`EventStream`; its edit and write tools run under the file mutation queue; a request
takes its key from `AuthStorage` and its model from the session, which the fallback
extension changes.

### Hard behaviours

The list, each at its line, with the properties that would catch it going wrong,
is `hazards` in `PROJECT.json`.  In short: four polls of two queues while callers
steer, follow up and clear; listeners that throw while a loop holds messages in
a local variable; parallel tools of a run that has failed; retries, overflow
recoveries and compactions that reset each other's counters; one session whose
fields two `prompt()` calls share; `compact()` that stops listening before the run
it aborts has ended; a session file that a failed write leaves torn; a leaf read
before an await and used behind it; a lock that is stolen from the living; a late
exit of a process that has been replaced.

### Not modelled

* Matter and vault extensions (`coding-agent/src/linc/`): a workspace copy and a vault
  copy of one document.  A model would have to say that an edit writes the local file
  and then uploads, that `session_start` may overwrite an unsynced workspace copy with
  the vault's, that the built-in edit tools sync outside the mutation queue, and that
  the editor command reads before it awaits the editor.  How the vault orders two
  uploads is not in the repository, and the promises that hold without it are thin;
  the hazard is listed without a property.
* Session runtime (`core/agent-session-runtime.ts`): replaces the session on new, resume
  and fork.  Planned as a composition with `AgentSession`.
* Extension runner: calls handlers in order; its effect on a run is the throws and blocks
  of `AgentRun` and `AgentHarness`.
* Model registry and resolver: lookup of configuration.
* Providers, OAuth protocols and the model catalogue: protocols of vendors; a response is
  its stop reason here.
* Bash executor and the text part of the tools, package manager and resource loader: file
  and process I/O.
* Interactive and print modes, terminal library: rendering over `AgentSession`.
* Skills over MCP: a remote client with little state of its own.

These make up most of the repository's lines (the generated model catalogue alone is
26,650, the interactive mode and the terminal library some 20,000).  They hold text,
layout, tables and I/O, whose model would restate them.

## 2. Modules

| Module | Kind | Content |
|---|---|---|
| `AgentRun` | component | agent and loop: detailed specification, properties |
| `MessageDelivery` | abstract | what the agent promises about messages |
| `MCAgentRun` | refinement | the mapping from `AgentRun` to `MessageDelivery` |
| `AgentRunProofs` | proofs | types, what the model sees, results and their calls |
| `DeliveryProofs` | proofs | where a message is, its order, the refinement of `MessageDelivery` |
| `AgentSession` | component | session around the agent's runs |
| `AgentSessionProofs` | proofs | types, deferred bash results, announced retries, results beside their calls, transcript and log, rejections, rows of errors |
| `SessionLog` | component | the tree of entries and its file, with failing writes and restarts |
| `SessionLogProofs` | proofs | what a file holds after failed writes, kills, forks and branches, and what a branched session shows |
| `AgentHarness` | component | harness, its session, its queues |
| `AgentHarnessProofs` | proofs | types, where a message is, what the model sees, pending writes, the branch |
| `EventStream` | component | two streams, a forwarder, readers |
| `EventChannel` | abstract | what both streams together promise; `EventStream` states the mapping |
| `FileMutation` | component | the mutation queue and the tools under it |
| `ModelFallback` | component | the fallback chain and its record |
| `AuthStorage` | component | the credential file of several processes |
| `RpcClient` | component | client of an agent process |
| `SettingsManager` | component | settings with marks and queued writes |
| `MCParts` | instance | six parts for one run of TLC |
| `StreamProofs` | proofs | both streams are one channel: the refinement of `EventChannel` |
| `PartsProofs` | proofs | types of the parts; mutation queue, fallback, RPC client, settings and credentials |
| `Subsequences` | operators | `Kept`, the elements of a sequence that are in a set |
| `RecursionFacts` | proofs | recursive functions, induction over numbers and sequences, facts about `Kept` |

### AgentRun

One action is the code between two awaits whose interleaving with callers can be
told apart.  `phase` says where the run is: `prompts` (the prompts are emitted),
`firstPoll`, `inject` (polled messages are emitted one by one), `respond` and
`streaming`, `tools`, `turnEnd`, `poll`, `prepare` (`prepareNextTurn`), `secondPoll`,
`followUps`, `agentEnd`, and `failing` (the executor has rejected).

* `steeringQueue`, `followUpQueue`, `messages`, `pendingToolCalls`, `aborted` are
  fields of `Agent`; `context`, `pending`, `skipPoll`, `hasMore` are the variables of
  `runLoop`; `calls` to `emitted` are those of `executeToolCalls`.
* `context` and `messages` are separate, as in the code: the loop pushes to its own
  array, `processEvents` to the agent's.  `messages` forgets nothing; `kept` says which of
  them the last compaction kept first, and `Transcript` is `_state.messages`: behind a
  compaction its summary and what it kept.  A run starts with a copy of it.
* `PrepareNextTurn` is the hook and what the loop does with its answer
  (`agent-loop.ts:176`): the loop keeps its context, or takes the one the hook returns.
  The hook is that of `AgentSession` (`CompactBeforeNextAssistantResponse`): a compaction
  that succeeds at any cut point, or fails, and a copy of the transcript behind it.
  `SecondPoll` is the poll behind it.  Compactions between runs, and errors that a retry takes
  out, are in `AgentSession`; `AgentHarness` has a hook of its own, modelled there.
* A batch is `parallel` or not.  In both, calls are prepared in order (`StartCall`,
  `AdmitCall`, `RefuseCall`, `BreakOnAbort`).  A sequential batch runs each call as
  it is admitted; a parallel one collects them in `waiting` and `StartBatch` starts
  all of them.  `ToolEnds` happens in any order.
* A throw of a listener, a hook or the stream is `Throws`, or `ToolListenerThrows`
  for the events of a call that executes.  `TearDown` is what the rejection does:
  local variables are lost (`dropped`), calls that execute go on as `orphans`.
  `RunFailure` is `handleRunFailure` and the `finally` block.  A second throw inside
  `handleRunFailure` is included.
* A message is a number, in the order of handing over, and `origin` says which call
  handed it over.  Text, images, token counts and tool arguments are abstracted.
  Which model answers, and whether `shouldStopAfterTurn` stops, is open.
* `discarded`, `dropped`, `runStart` and `outcome` are history.

### MessageDelivery and MCAgentRun

`MessageDelivery` knows sources, the set of messages of each that wait, the delivered
messages with their places in the transcript, and the ones given up.  Messages are
numbered as they are handed over, so the oldest of a set is its least.  `MCAgentRun`
maps the waiting messages of a source to those the loop has polled and those in its
queue.  Every step of `AgentRun`, whichever poll it makes, is then a hand-over, a
delivery of the oldest message of one source behind everything delivered, a giving up,
or a stutter.

### AgentSession

The run of the agent is modelled at the grain of its turns; its polls, its stop
conditions and its abort are those of `AgentRun`, its tool batches are one step.
Around it, `pc[p]` follows each `prompt()` call: `build` (between preflight and
`agent.prompt()`), `running`, `post` (`_handlePostAgentRun`), `sleep` (the backoff),
`compact` (`_runAutoCompaction`), `done`, `rejected`.  `stage[p]` tells the loop the
call is in: the compaction check before the prompt, the runs that check continues,
its own run.

* `EmitUsers`, `EmitAssistant` and `ToolEnds` contain `_handleAgentEvent`: the append
  to the log happens only while the session is `connected`.
* `Continue` is `agent.continue()` with both of its rejections.
* `Leave` is the `finally` block of `_runAgentPrompt`, which flushes deferred bash
  messages; the bash messages are appended to transcript and log at once.
* `Verdicts` is `_checkCompaction`.  Token counts are abstracted: whether a threshold
  is reached, and where the compaction cuts among the entries that are not tool
  results, is open (`CutPoints`).  A compaction may always fail.
* `BuildSessionContext` is the rebuilt transcript: summary, kept entries, the rest.
* `CompactCalled`, `ManualBegins`, `ManualSucceeds`, `ManualFails` are `compact()`.
* `Interrupted` is `clearQueue()`, `abort()`, or both as the RPC command does it.

Abstractions to know of:

* One `compact()` at a time.
* The tool loop guard may stop any turn with tool calls; its counting is not modelled.
* Follow-up queue and throwing listeners are in `AgentRun` only.
* `sendCustomMessage`, tree navigation, branch summaries, extension commands, model
  and thinking level changes, and the display copies of the queues are not modelled.
* Past `MaxResponses` the model answers `stop`; the bound limits how many answers
  are arbitrary and cuts no behaviour short.

### SessionLog

Entries are numbered as they are created and never change; `table` says what each is
and what its parent is.  The process holds `file`, `entries`, `leaf`, `labels` (the order
of the `Map` matters to a branched session) and `flushed`; `disk` maps a file to its
lines and to a tail that is closed, open (the newline is missing) or torn.

* `Persisted` is `_appendEntry` and `_persist`: nothing before the first response, then all
  lines into a file that must not exist (`"wx"`), afterwards one line at a time.
* Every write succeeds, throws half way (`WriteFails`, memory has changed already), or the
  process dies in it (`KilledInWrite`).  Appending behind an unfinished tail glues two
  lines into `Junk`, which `Load` skips, as `loadEntriesFromFile` does.
* `Open`, `ForkFrom`, `CreateBranchedSession`, `NewSession`, `MoveLeaf`, `BranchWithSummary`,
  `AppendLabelChange` are the operations of the same names.
* `Context` is `buildSessionContext`: the summary of the path's last compaction, and of the
  entries from its first kept one on those that are messages, which labels and other
  compactions are not.
* `hurt` is history: the files a failed or torn write has touched, and copies of them.
  What a damaged file still promises is in `SavedStaysSaved` and the first conjunct of
  `AnsweredIsSaved`; the rest is promised for undamaged files.

### AgentHarness

An append reads the leaf, awaits the file and moves the leaf (`session.ts`), so every
append is two steps: `ReadLeaf` and the commit.  `phase` guards the operations; `run[p]`
holds the local variables of a `prompt()` call and where it stands: `snapshot`, the
announcements, `append` (messages are emitted one by one), `flush` (pending writes),
`model`, the polls, `idle`, `final`.  `writer[w]` is an `appendMessage()` that found the
harness idle; one that finds it busy joins `pendingSessionWrites`.

* `runPromise` and `runAbortController` are the slots `waitForIdle()` and `abort()` use; a
  run clears them without looking whose they are, as the code does.
* `abort()` replaces the arrays of the queues; `generation` lets a drain put its messages
  back into the array it was given.
* Hooks, listeners and the storage may throw at each of their calls; the failure is then
  reported, and the report may throw as well.
* `Overlap` says whether a caller may start something before earlier promises settled.

### EventStream and EventChannel

The provider pushes into the inner stream, `Forward` pulls from it and pushes into the
outer one, readers iterate over the outer one.  `Pushed` and `End` are the two methods:
the oldest waiter gets an event, or the queue; the end wakes all waiters.  A reader that
was resumed runs later (`Resume`).  `log` is history.  `EventChannel` knows what was sent
and received; `ImplementsChannel` is the refinement, over both streams.

### FileMutation

`Turn` is the registration queue: a call resolves its real path when every call before
it has registered.  `Register` takes the tail of its key and puts the call in its place,
`Start` waits for that tail to settle, `Settle` is the `finally` block and drops the key if
the call is still its tail.  `Read` and `WriteFile` are the tools.  `alias` is a symbolic
link to `file`, `other` a file that does not exist at first, whose path is its own key.

### ModelFallback

`RequestFails` is the handler of a failing response, `Restore` that of the next run or
session start, `Pick` the user's choice and its `model_select`.  A handler that switches
the model awaits (`handler`) and appends its record afterwards (`Applied`).  The window may
end and the user may choose any model at any moment, within a run and within a handler; an
original that cannot be restored is `StartWithoutRestore`.  `Heard` is the choice that
`model_select` reports and the extension acts on.  `lost` is history: the user's last choice
has met one of three cases the handlers do not guard against (section 4).

### AuthStorage

A refresh takes the lock, reads the file, asks the server, which takes each token once,
and writes; `set()`, `remove()` and `reload()` are synchronous and give up on a lock that
is held.  `Steal` is a synchronous caller that takes a lock for stale which its holder
renews too late, `Notice` the holder's `onCompromised`, `Crash` may leave a lock and a torn
file behind, `Stale` frees the lock of the dead.  One such fault, or one lost answer, is
modelled per behaviour (`trouble`).

### RpcClient

The client starts and stops processes; the handlers of an exit and of stdin errors
belong to the process they were registered for.  `stop()` detaches from stdout, waits,
and empties the map.  A second `stop()` while the first waits is left out
(`rpc-client.ts:143`): it would wait beside it and empty the map once more.  `Skipped` is what `handleLine` leaves in the array of listeners when
each listener that hears the end removes itself during the iteration.

### SettingsManager

A setter changes memory, marks the field and queues a write of a snapshot; a write merges
the marked fields into the file as it then is and clears the marks of the scope.  Loads
and writes may fail; trust may be withdrawn while a write is queued.  `owed` is history: the
fields set and neither written nor given up; `GivenUp` says what a failing write gives up, whose
mark another one has taken.

### MCParts

The last six share no state.  `part`, chosen by the initial state, says which of them takes
steps, so the state space is the union of the six and not their product.  The chain of
models and its families are constants, to which `Parts.cfg` gives the values of the code's
table.  What the proofs assume of the constants is stated here, part by part, and TLC
evaluates it.

## 3. Runs

`CHECK_DEADLOCK FALSE` is set in every run because a system whose callers have used up
the bounds waits for the next call.  That nothing stops in the middle of a call is what
`RunSettles`, `CallsReturn`, `CallsSettle` and `WaitsEnd` say.

| Run | Question | Properties |
|---|---|---|
| `AgentRun_delivery` | Is every message delivered once, in order, in one place? | `ImplementsDelivery`, `EveryMessageHasOnePlace`, `OneAtATime`, `ModelSeesTranscript` |
| `AgentRun_tools` | Do batches end with their results in place, whatever interrupts them; does every run end, and is what was queued in time taken? | `TypeOK`, `ResultsFollowCalls`, `CallsAnswered`, `RunSettles`, `QueuedIsTaken` |
| `AgentSession_retry` | Do retries, aborts, compactions and bash results keep a transcript that can be continued? | `TypeOK`, `WillRetryTellsTruth`, `NothingRejected`, `ToolResultsStayAttached`, `NoBashForgotten` |
| `AgentSession_overflow` | Do retry and overflow recovery end when they alternate, and does the transcript stay that of the log? | `ContextMatchesLog`, `RecoveryEnds` |
| `AgentSession_live` | Do `prompt()` and `compact()` return, and is a steered message left behind? | `NoMessageLeftBehind`, `CallsReturn` |
| `SessionLog` | Does what was answered come back after failed writes, kills, forks and branches? | `TypeOK`, `AnsweredIsSaved`, `LineageKept`, `SavedStaysSaved`, `BranchedSessionKeepsPath` |
| `AgentHarness` | Do queues, pending writes and the session agree while calls interleave and hooks throw? | `TypeOK`, `OnePlace`, `ModelSeesSession`, `QueuedWritesInOrder`, `AppendsExtendBranch`, `CallsSettle` |
| `Parts` | File queue: mutual exclusion, no lost update, no leak.  Streams: one channel.  Fallback: the choice survives.  Credentials: refreshed once.  RPC: own process.  Settings: marked until written. | `TypesOK`, `InCallOrder`, `KeysAreDropped`, `NoLostUpdate`, `WaitsEnd`, `ImplementsChannel`, `PickSurvives`, `RefreshedOnce`, `RequestsOfOwnProcess`, `ChangesStayMarked`, `OthersAreKept` |
| `AgentSession_length` | violated: a completed response is not retried | `NothingRejected` |
| `AgentSession_bash_order` | violated: deferring keeps calls and results together | `ToolResultsStayAttached` |
| `SessionLog_branch` | violated: a branched session holds the path | `BranchedSessionIsPath` |
| `AgentHarness_settled` | violated: writes are flushed at operation settlement | `SettledIsFlushed` |

Every property of a passing run has a mutant of the modelled code that breaks it
(`mutants` in `PROJECT.json`); the mutated forms stand in the modules before the
definitions they change.

### Bounds and why they are enough

`AgentRun`: `MaxMessages` = 3 gives two messages of one queue and a third that races
them; two messages of each of two queues need four, but the queues share no state
except the pending list.  In the tool run `MaxToolTurns` = 2 lets a batch follow a batch,
`MaxCalls` = 2 lets one call of a batch end, throw or be cut while another executes.
`MaxFailures` = 1 is a throw at every point; two of them let a listener throw again
inside `handleRunFailure`, which then appends no failure message, and let a second run
fail behind the first.  `MaxKept` bounds where a compaction between two turns cuts: the
delivery run lets it cut anywhere (no transcript that is prepared has 9 entries), the tool run, whose
properties are about batches and not about what was forgotten, leaves it at 0: a hook that
returns a copy of the transcript.  The delivery run uses one-at-a-time queues, the mode in which
order and timing can go wrong; the tool run drains queues at once.

`AgentSession`: `MaxRetries` = 1 makes the last permitted retry the first one, so that
counting too far shows at once.  `MaxResponses` = 6 in the overflow run is more than
the longest row of errors the code can produce for one prompt (2 * maxRetries + 2 =
4, which `RecoveryEnds` says), with two answers left for a second prompt.  One bash command
meets every state of a prompt.  `MaxCompactions` = 2 in the overflow run gives a cut behind
a cut.  `Concurrent` = FALSE makes callers wait for a call that is between its runs; a
prompt that arrives during a run is queued as steering either way.  Only
`AgentSession_bash_order` lets two `prompt()` calls overlap freely.  `ContextMatchesLog` is
checked without `compact()`, `NoMessageLeftBehind` holds until it is called: with it, a
prompt in its preflight starts a run the session does not listen to (section 4).

`SessionLog`: a label within a path, a compaction that keeps from an earlier entry, and a
branch off it each need three entries.  Two files make a fork, a branched session and a
reopened one possible.  One fault: a second one adds a second damaged line to a file that
promises no more than before.  File names are symmetric.

`AgentHarness`: one call of each kind, so that each meets every await of each other; one
throw, one abort, one structural operation.  A run asks the model again for each message
that is steered or follows up, so `MaxTurns` = 0 still gives runs of several turns.

`Parts`: three calls are a chain with a middle, on a file, its alias and a file that comes
into being.  Two readers compete for a stream of up to two deltas and an end.  The chain of
models has two hops.  Two processes refresh, log in and write; two tokens are a refresh and
what a second refresh would need.  Two agent processes give an old and a new one, two
requests one for each.  Two fields, two changes and one failure let a queued write race
another one of either scope.  `Waiters` = 1 here and `Overlap` = FALSE in the harness exclude
what is known to break a property (section 4).

### Fairness

* `AgentRun`: weak fairness of `RunStep` and of `OrphanEnds`.  `RunStep` is the code of
  the run, the answer of the provider and the return of the tools.  The event loop
  runs every ready continuation, streams and tools settle.  That a tool settles is an
  assumption about the tool; the code gives a tool that hangs only the abort signal.
* `AgentSession`: weak fairness of `RunStep`, of `ManualStep` and of `PromptStep(p)` for
  each prompt, for the same reason; sleeps and summary requests end.
* `AgentHarness`: weak fairness of `CallStep` and of `RunStep(p)` for each call: files,
  hooks, listeners and the model answer.
* `Parts`: weak fairness of the steps of a call in the mutation queue, of each iteration
  over a stream, of the forwarder, and of the error a lazily loaded provider ends with.
  Nothing promises that a provider ends its stream, so nothing is fair that pushes.
* Callers and throwing listeners are never fair.

## 4. Findings

Four statements of the repository are violated by the code; `findings` quotes them.

1. `AgentSession_length`: a length-stop overflow is treated as an error overflow:
   compacted and retried.  The rebuilt transcript ends with the completed response,
   `agent.continue()` rejects and the rejection leaves `prompt()`.
2. `AgentSession_bash_order`: a second `prompt()` that is rejected flushes bash results
   deferred for the first one's run, between a call and its result.
3. `SessionLog_branch`: `createBranchedSession()` takes label entries out of a path and
   leaves the entries below them pointing there; the conversation above is lost to the
   model.
4. `AgentHarness_settled`: `compact()` and `navigateTree()` settle without flushing the
   writes made meanwhile.

### Observed without a run

Each can be reproduced by adding the property or the constant named to a cfg.

* `AgentRun`, `IdleMeansNoToolRuns`: a listener that throws during a parallel batch ends
  the run while other calls of the batch execute; `waitForIdle()` (`agent.ts:326`) resolves.
* `AgentSession`, `ResponsesAreSaved` with `MaxManual` > 0: `compact()` unsubscribes before it
  aborts (`agent-session.ts:1845`); the response of the aborted run, or of a prompt that was
  in its preflight, is missing from the session for good.
* `AgentSession`, `ClearingAbortLeavesIdle`: an abort with `clearQueue` (`rpc-mode.ts:428`) does
  not reach a prompt in its preflight.
* `AgentSession`, `NothingRejected` with `Stops` = {stop, retryable, overflow}: a retried error
  in front of an overflow error comes back as the tail of the rebuilt transcript
  (`agent-session.ts:2242` removes one message only).
* An aborted response counts as the success of a retry (`agent-session.ts:735`).  The comment
  at line 1170, that the loop drains both queues before `agent_end`, does not hold for runs
  that end in an error, an abort or at the tool loop guard; the code behind the comment
  delivers those messages, which `NoMessageLeftBehind` shows.
* `SessionLog`: after a first write that failed, the file exists and every later append of the
  session throws (`session-manager.ts:911` opens with `"wx"`).
* `AgentHarness` with `Overlap` = TRUE: a prompt made from an `agent_end` listener starts a
  second run (`agent-harness.ts:531`), whose slots the `finally` block of the first then
  clears (line 625).
* `FileMutation`: a dangling link and its target have two keys until the file exists; the
  instance has no dangling link.
* `ModelFallback`, `PickSurvives` without `~lost`, one behaviour for each case of `lost`.  A window
  that ends while a run goes on: the next hop takes the fallback for the original, against the
  comment at `extensions/model-fallback.ts:64` that a restore returns to what the user picked.
  A choice made while a fallback is being applied: the record of the fallback follows it.  A
  choice of the fallback itself, or of the model the session has: it is not acted on, and the
  original replaces it at the next restore.
* `RpcClient`, `WaitersHearTheEnd` with two waiters: the listener behind one that removes
  itself is skipped (`rpc-client.ts:501`).
* `AuthStorage`, `LoginIsStored`: `set()` gives up on the lock a refresh holds and records
  the error; the login is in memory only.
* `SettingsManager`, `ChangesStayMarked` with `owed` unchanged in `WriteFails`: a write that succeeds
  clears the marks of fields whose own write is still queued; if that one fails they are
  neither marked nor written.

## 5. Proofs

Each theorem is about the specification of one component, for every value of its
constants that the named assumptions allow.  The parts of `MCParts` are proved one by one
(`Streams!Spec`, `Auth!Spec`, ...); `PartsTakeTheirSteps` shows that in the run each of them
takes its own steps or stands still, so what is proved of a part holds there.

| Theorem | States | Assumes |
|---|---|---|
| `TypeCorrect` | `TypeOK` of `AgentRun` | `ModeAssumption`, `BoundAssumption` |
| `ModelSeesTranscriptAlways` | `ModelSeesTranscript` | the same |
| `ResultsAlwaysFollowCalls`, `CallsAlwaysAnswered` | `ResultsFollowCalls`, `CallsAnswered` | the same |
| `MessagesHaveOnePlace` | `EveryMessageHasOnePlace` | the same |
| `AgentImplementsDelivery` | `ImplementsDelivery` (refinement) | the same |
| `MessagesOneAtATime` | `OneAtATime` | the same |
| `BashResultsAreFlushed` | `NoBashForgotten` | nothing |
| `SessionTypes` | `TypeOK` of `AgentSession` | `SessionBounds`, `StopsAssumption` |
| `RetryIsAnnounced` | `WillRetryTellsTruth` | `SessionBounds`; `Concurrent` = FALSE, `MaxManual` = 0 |
| `ResultsStayAttached` | `ToolResultsStayAttached` | the same and `StopsAssumption` |
| `TranscriptMatchesLog` | `ContextMatchesLog` | the same; "length" not in `Stops` |
| `PromptsAreNotRejected` | `NothingRejected` | as `ResultsStayAttached`; neither "overflow" nor "length" in `Stops` |
| `RecoveriesEnd` | `RecoveryEnds` | as `ResultsStayAttached`; `Interrupts` a subset of {"abort"} |
| `LogTypes`, `LogKeepsLineage` | `TypeOK` of `SessionLog`, `LineageKept` | `SessionLogAssumption` |
| `LogSavesAnswers` | `AnsweredIsSaved` | the same |
| `LogKeepsSaved` | `SavedStaysSaved` (action property) | the same |
| `LogBranchesKeepPath` | `BranchedSessionKeepsPath` (action property) | the same |
| `HarnessTypes` | `TypeOK` of `AgentHarness` | `AgentHarnessAssumption`, `EntriesAssumption` |
| `HarnessHasOnePlace` | `OnePlace` (action property) | the same |
| `HarnessShowsSession` | `ModelSeesSession` | the same; `Overlap` = FALSE |
| `HarnessExtendsBranch` | `AppendsExtendBranch` (action property) | as `HarnessShowsSession` |
| `HarnessWritesInOrder` | `QueuedWritesInOrder` (action property) | as `HarnessShowsSession` |
| `PartsTakeTheirSteps` | `PartsSpec` implies the specification of each part | nothing |
| `PartsTypes` | `TypesOK` of `MCParts` | `FileMutationAssumption`, `StreamAssumption`, `ChainAssumption`, `RpcAssumption`, `AuthAssumption` |
| `MutualExclusion`, `NoKeyLeaks` | `InCallOrder`, `KeysAreDropped` | `FileMutationAssumption` |
| `NoUpdateIsLost` | `NoLostUpdate` | the same; `LinkedFileExists` |
| `StreamsAreOneChannel` | `ImplementsChannel` (refinement) | `StreamAssumption` |
| `UsersModelSurvives` | `PickSurvives` | `ChainAssumption` |
| `RequestsSettleByTheirProcess` | `RequestsOfOwnProcess` | `RpcAssumption` |
| `TokensAreRefreshedOnce` | `RefreshedOnce` | `AuthAssumption` |
| `FilesKeepOthers` | `OthersAreKept` (action property) | `AuthAssumption` |
| `ChangesAreNotForgotten` | `ChangesStayMarked` | nothing |

### The assumptions

`ModeAssumption` and `BoundAssumption` (the queue modes are the two of the code, bounds are
natural numbers), `SessionBounds`, `SessionLogAssumption`, `AgentHarnessAssumption`,
`RpcAssumption` and `StreamAssumption` only say that a bound is a number and a choice one of
those there are; `StopsAssumption` that `Stops` are kinds of responses.
`EntriesAssumption`, `FileMutationAssumption`, `AuthAssumption` and the rest of
`StreamAssumption` and `ChainAssumption` keep the values apart that the code keeps apart by
their type: a message is no write, a call no path, a process no state of a lock, a torn file
has no contents, `FALLBACK_CHAIN` names at least one model.

These hypotheses say more.  Each is what the run of TLC fixes too, and without it the
property fails:

* `LinkedFileExists`: a link leads to a file that exists at the start.  A dangling link has
  a key of its own until the file exists.
* `Overlap` = FALSE: nothing is started on a harness before earlier promises settled.  With
  two prompts that overlap, all three properties fail; `OnePlace` holds with any overlap.
* `Concurrent` = FALSE: callers wait for a `prompt()` call that is between its runs.
  Otherwise a second call's run may end first, and the call that looks at its own end
  second finds the other's response or none (`WillRetryTellsTruth`); a rejected call flushes
  what was deferred for the other's run (`ToolResultsStayAttached`, which
  `AgentSession_bash_order` shows); two calls that both recover from an overflow both
  retry, each with a fresh budget (`RecoveryEnds`).
* `MaxManual` = 0: while `compact()` has unsubscribed, a run may start of which the session
  hears only the end.  Then agent_end's flag is not computed, a result is saved without its
  call, a response stays out of the log, and the rows of errors around a message that was not
  saved join.
* "length" not in `Stops`: the recovery from a length stop leaves a transcript that ends with
  a response, which is not the log's and cannot be continued (`AgentSession_length`).
* "overflow" not in `Stops`, for `NothingRejected`: a retried error in front of an overflow
  comes back as the tail of the rebuilt transcript.
* `Interrupts` without `clearQueue`, for `RecoveryEnds`: it may take the message for which a
  continued run was started, which then asks the model again behind an error.

Section 4 says of the first two what happens in the code.  `NoBashForgotten` needs no such
hypothesis: `BashResultsAreFlushed` covers overlapping calls and `compact()`, which the run
does not.  Nor do `RefreshedOnce` and `OthersAreKept`: the faults of the lock that void their
promise are in their statement.

### The arguments

**Types of `AgentRun`.**  `TypeOK` is not inductive.  The message of a failing run takes its
stop reason from `outcome`, so `FailureOutcome` says that a failing run has one of the two
reasons; a new batch starts counting at zero, so `NoBatchOutsideTools` says that no batch is
left outside `executeToolCalls`.  `IndTypeOK` adds both.  One lemma per conjunct
(`QueuesInductive`, `TranscriptInductive`, `BatchInductive`, `ControlInductive`), one step per
action.  The interesting part is the batch: `emitted` never exceeds `prepared`, also when
`BreakOnAbort` shortens the batch.

**What the model sees.**  The two copies of the context are equal when the model is called
because of how they differ before: `ContextFollows` says that while the prompts are emitted
the context is ahead of the transcript by the prompts still pending, that in a batch the
transcript is ahead by the results emitted so far, and that in the other phases of a turn
they are equal.  `EmitKeepsConcat` and `EmitResultKeepsConcat` move one entry across;
`TranscriptGrows` says that an entry emitted lands at the end of a compacted transcript as of a
whole one.  The context that `prepareNextTurn` returns is the transcript, and nothing is
emitted until the loop has taken it.

**Results and calls.**  `ToolsInv` adds to `ResultsFollowCalls` where the results of the running
batch are (`BatchInTranscript`: directly behind its assistant message, as many as were emitted)
and that earlier assistant messages of the run are answered (`RunAnswered`).  `BatchKinds`
sorts the actions into four kinds that leave batches alone and the four that begin, cut, extend
or end one; the invariant is proved of these.

**Delivery.**  `OrderInv`: the queues and the pending list are increasing, their messages are of
the right source, and what is pending of a source is older than what is queued of it.
`PlaceInv`: queued, pending, delivered and given up are disjoint and hold every message, and
nothing is dropped before a run has failed.  `PendingPhase`: the loop holds messages only in three phases, which is why a poll
never overwrites any.  Again the actions are sorted into a handful of steps (`QuietStep`,
`HandOverStep`, `DrainStep`, `EmitStep`, `ClearStep`, `DropStep`), each of which keeps the
invariant and is a step or a stutter of `MessageDelivery`.  The order is what the refinement
needs: the head of the pending list is the least of what waits of its source, because of
`OrderInv`.  `OneAtATime` needs `TurnInv`: at most one message of a one-at-a-time source is
pending, and only while the turn has none of it; the first poll of a run is skipped if its
prompts were steered.

**Bash results.**  `BashInv`: an active run has a call that awaits it and is in a loop of runs
(`RunsAreAwaited`), and what is deferred is deferred for some call in such a loop, which does not
leave it without `Leave`.  The check before a prompt is in no such loop; a run that it
continues moves the call into one (`settle`).

**Types of the session.**  `SessionInv`: `ControlOK`, `CompactionsOK` and `TextOK`.  A compaction
that is under way holds a cut into a log that has grown since, so the invariant says of
the log that it only grows (`TextGrows`).  Four lemmas on what a step may do to transcript and
log (`RunTexts` and `CallTexts` sort the steps of runs and of calls) carry every later proof
about them.

**Retries.**  `RetryInv` adds that from its response to its end a run has the session's last
response (`ResponseIsLast`), and that only one call is under way (`Alone`): the flag and the
decision then look at the same response and the same counter.

**Tool results.**  `Attached` is the set of sequences in which every result follows its call.  It is
closed under joining, under taking parts that do not begin with a result, under dropping a
last response and under `Kept`; `ToolsInv` adds that the call of a batch in progress is last in
transcript and log (`CallIsLast`), and that compactions do not cut at a result
(`CutsAtNoResult`).

**Transcript and log.**  `Same(ms, lg)`: but for errors, the transcript is what the log rebuilds to.  The
retry and the recovery take the last message out, so the invariant must say what it is:
`TailIsLast` (a response at the end of the transcript is the one the call looks at) and
`SleepsAreRetries` (who sleeps has an error there).

**Rejections.**  `agent.continue()` accepts a transcript that is not empty and does not end with
a response.  `ReadyInv` says where the transcript of a run is of that form, and that behind a
response it is so without the response.

**Rows of errors.**  `RowInv` accounts for the errors at the end of the log: `AtEnd(row, b, o)` bounds
them by a budget `b` and the overflows among them by `o`.  While a run goes on, the budget is
what the retries of this row have used, and the whole of the first row when a recovery was
tried (`Spent`, `Tried`).  A response is one more (`RowLonger`) or ends the row (`RowBroken`); a
user's message ends it too, which is why it must be in the log.

**The session file.**  Entries are numbered in the order of their creation, and memory, file and
path each hold them in that order.  Two ascending sequences with the same elements are equal
(`OneAscending`), so what a file holds is a question about sets.  `LogInv`: the file of a session
holds nothing but lines of it (`Own`), whatever was cut or glued; an undamaged file is the
session from the first response on, and is closed under parents but for labels
(`Clean`, `Closed`).  A branched session leaves labels out and writes new ones behind: `ChainJoins` and
`ChainBehind` say that its entries still form a chain, `ChainResolved` that its labels are those it
was made from.  `AppendSurvives` says what an append leaves of a file that a failed write has
left open or torn.

What a branched session shows is again a question about sets.  Where no label has an entry of
the path below it, every entry of the new session is the parent of the next one
(`BehindInRow`), so that the session is its own branch (`RowIsBranch`).  Branch and session then
have the same compactions, the newest of them among them (`NewestIs`), and the same entries
but for labels; its first kept entry is on one as it is on the other unless it is a label.  So
the same entries are shown, in the order both are in (`SameContext`).

**Harness.**  `RunShape` says of a run what it carries where it stands, and `Stepped` what each of its
steps may do to the session, the pending writes and the queues.  From these two follow the four
parts of `HarnessInv`: one call works at a time (`Alone`), the leaf read before an append is
still the leaf (`LeafIsRead`), the context is the branch until the model has answered
(`ContextIsBranch`), and what was queued is in the tree or pending, in order (`WritesPlaced`).
That the branch grows by what is appended to it is a fact about `Path`, a recursive function
over the tree.

Where a message is does not need one call at a time.  `PlaceInv` says that the queues, what was
cleared or given up, the session and what each run carries have no message in common and none
twice, when a run has messages at hand (`Holding`), and that the message of a call that has not
reached its loop is nowhere yet.  Each step of a run is one of `Moves`: it moves messages
between these and adds at most the call's own; each step of a caller is one of `Shifts`.
A put-back relies on the generation it was drained in: it only goes to an array that
`abort()` has not replaced.

**Recursion.**  `Kept`, `Path`, `Branch` and `Resolved` are recursive functions.  That a function exists which
satisfies such an equation (`RecursionExists`), and only one (`RecursionAgrees`), is proved by a
least counterexample: the library's theorem on minimal elements of a well-founded relation has
no operator as a parameter.  `Induct` and `SequencesInduct` are induction with a set in place of a
predicate, which suffices wherever the predicate is a set's.

**File mutation queue.**  That a call which starts finds earlier calls of its key settled depends
on what it waits for.  `ChainInv` says that a queued call with an unsettled earlier call of its
key waits for one that is itself unsettled and not before it, `TailInv` that the tail of a key is
the last registered call of that key and not settled, `TicketsInv` that calls register in the
order of their tickets, `KeysInv` that a call keeps its key.  The interesting steps are
`Register`, which extends a chain, and `Settle`, which drops a key only from its tail.
`NoUpdateIsLost` adds `FileInv`: calls on one file have one key, and what a call has read is
still what the file holds.

**Streams.**  `StreamInv`: what a stream has accepted is what it has handed out and what it
queues; nobody waits beside a queue (`StreamOK`); an iteration told of the end leaves nothing
behind (`IterationOK`); nothing follows a completing event (`CompleteIsLast`); and the outer
stream has accepted what the forwarder took, but for the event it holds (`Forwarding`).
`push`, `end` and the iterator are proved once as operators on a stream (`Accepts`, `Ends`,
`Iterates`), and used for both.

**Fallback.**  `FallbackInv`: a handler that has switched the model will record that switch, with
the user's model as its original (`SwitchIsRecorded`), unless that model was lost before or
while it waits; between handlers it is `PickSurvives` itself.

**RPC.**  The property with the types it needs (`RpcInv`); each way a request settles changes the
map and the outcome of the same requests.

**Settings.**  For what others wrote, `OwnValues`: whatever is marked or queued has the value of
its process.  For what is owed, `OwedInv`: it is marked or carried by a queued write
(`OwedIsKept`); a field that is owed and marked is part of the last write of its scope
(`MarksAreQueued`), so that the success which takes the mark has written the field; until a write
succeeds while others are queued, all that is owed is marked (`OwedIsMarked`), so that a
failure leaves the mark, and later it gives up no more than it carries; a scope that could not be loaded and an untrusted project owe nothing.

**Credentials.**  `AuthInv`: a refresh that has not noticed a loss holds the lock, and an unlocked
file is not torn unless there was a fault (`LockInv`); without a fault, who asks presents the
token of the file, and who was answered will write one the server knows (`RefreshInv`).

### Only model-checked

* The liveness properties (`RunSettles`, `QueuedIsTaken`, `NoMessageLeftBehind`, `CallsReturn`,
  `CallsSettle`, `WaitsEnd`): temporal reasoning under fairness and `ENABLED` are out of the
  prover's reach here.

## 6. Plan

Modules, as far as they hold more than I/O: the session runtime composed with
`AgentSession`, the display copies of its queues, the cut points of a compaction as an
operator against a reference definition, the matter and vault extensions.
