---------------------------- MODULE AgentHarness ----------------------------
(***************************************************************************)
(* AgentHarness (agent/src/harness/agent-harness.ts) over the agent loop   *)
(* and a session: one phase guards the operations that change the session, *)
(* writes made meanwhile wait in pendingSessionWrites, queues feed the run *)
(* that is under way or the next one, and hooks and listeners may throw.   *)
(*                                                                         *)
(* An append to the session reads the leaf, awaits the file and then moves *)
(* the leaf (session.ts), so every append is two steps here.               *)
(***************************************************************************)
EXTENDS Naturals, FiniteSets, SequencesExt

CONSTANTS
    Prompts,    \* calls of prompt(), skill() or promptFromTemplate()
    Steers, FollowUps, NextTurns,   \* messages for the three queues
    Writes,     \* calls of appendMessage(), setModel() and the like
    Operations, \* structural operations called: "compact", "navigate"
    NoPrompt,
    QueueMode,
    MaxTurns,   \* bound on the responses of a run that ask for another one
    MaxThrows,  \* bound on hooks, listeners and storage calls that throw
    MaxAborts,
    MaxOperations,  \* bound on the calls of compact() and navigateTree()
    Overlap     \* may a call come before the promises of earlier ones settle

ASSUME AgentHarnessAssumption ==
    /\ NoPrompt \notin Prompts
    /\ QueueMode \in {"all", "one-at-a-time"}
    /\ Operations \subseteq {"compact", "navigate"}
    /\ MaxTurns \in Nat /\ MaxThrows \in Nat /\ MaxAborts \in Nat
    /\ MaxOperations \in Nat /\ Overlap \in BOOLEAN

VARIABLES
    phase,
    tree, leaf,           \* the session: entries [what, parent], and its leaf
    pendingSessionWrites,
    queued,               \* the writes put there, in order
    steerQueue, followUpQueue, nextTurnQueue,
    generation,           \* how often abort() replaced the queues' arrays
    runPromise,           \* the run waitForIdle() waits for
    runAbortController,   \* the run abort() reaches
    run,                  \* run[p]: the local state of a prompt() call
    writer,               \* writer[w]: an appendMessage() call that found the phase idle
    operation,            \* the structural operation under way
    aborting,             \* the abort() call under way
    cleared, dropped,     \* messages that abort() cleared, that a failure took along
    throws, aborts, operations

queues == <<steerQueue, followUpQueue, nextTurnQueue, generation>>
session == <<tree, leaf>>
pendings == <<pendingSessionWrites, queued>>
calls == <<writer, operation, aborting>>
marks == <<cleared, dropped>>
slots == <<runPromise, runAbortController>>
bounds == <<throws, aborts, operations>>
vars == <<phase, tree, leaf, pendingSessionWrites, queued, steerQueue, followUpQueue,
          nextTurnQueue, generation, runPromise, runAbortController, run, writer, operation,
          aborting, cleared, dropped, throws, aborts, operations>>

-----------------------------------------------------------------------------
(* The session.                                                            *)

\* What getBranch walks from an entry to the root.
Path(i) ==
    LET path[j \in 0..Len(tree)] == IF j = 0 THEN <<>> ELSE Append(path[tree[j].parent], tree[j].what)
    IN  path[i]

\* The context is a function of the branch, so two equal branches show the same.
Shown == Path(leaf)

\* Mutant: the leaf is set past the new entry.
CommitPast(what, parent) ==
    /\ tree' = Append(tree, [what |-> what, parent |-> parent])
    /\ leaf' = Len(tree) + 2

\* appendEntry of an entry that read its parent earlier.
Commit(what, parent) ==
    /\ tree' = Append(tree, [what |-> what, parent |-> parent])
    /\ leaf' = Len(tree) + 1

Holds(what) == \E i \in DOMAIN tree : tree[i].what = what

-----------------------------------------------------------------------------
(* The local state of a run: where it stands, where it goes when the       *)
(* messages in todo are emitted or the pending writes flushed, and the     *)
(* context of the loop.                                                    *)

Idle == [pc |-> "off", then |-> "off", todo |-> <<>>, polled |-> <<>>, context |-> <<>>,
         parent |-> 0, gen |-> 0, stage |-> "first", failing |-> 0, turns |-> 0,
         more |-> FALSE, aborted |-> FALSE]

\* flushPendingSessionWrites begins: with nothing to write it is over at once.
Flushing(r, then) ==
    IF pendingSessionWrites = <<>> THEN [r EXCEPT !.pc = then, !.then = "off"]
    ELSE [r EXCEPT !.pc = "flush", !.then = then]

\* What is polled is injected before the model is asked.
Injecting(r) ==
    IF r.polled = <<>> THEN [r EXCEPT !.pc = "model"]
    ELSE [r EXCEPT !.pc = "append", !.then = "model", !.todo = r.polled, !.polled = <<>>]

\* The loop behind a poll: it injects, prepares another turn, polls the
\* follow-ups or is done.
AfterPoll(r, stage, polled) ==
    LET s == [r EXCEPT !.polled = polled, !.stage = stage, !.gen = 0]
        again == polled # <<>> \/ (stage = "turn" /\ r.more)
    IN  CASE stage \in {"first", "prepared"} -> Injecting(s)
          [] stage \in {"turn", "followUp"} /\ again -> Flushing([s EXCEPT !.more = FALSE], "refresh")
          [] stage = "turn" /\ ~again -> [s EXCEPT !.pc = "pollFollowUp"]
          [] stage = "followUp" /\ ~again -> Flushing(s, "idle")

Over(p) == run[p].pc \in {"off", "done", "rejected"}

\* Every call made has settled.
Settled ==
    /\ \A p \in Prompts : Over(p)
    /\ \A w \in Writes : writer[w].pc # "reading"
    /\ operation = "none"

MayCall == Overlap \/ Settled

\* Calls are told apart by the order in which they are made.
NextCall(unused) == CHOOSE c \in unused : TRUE

At(p, pc) == run[p].pc = pc
Set(p, r) == run' = [run EXCEPT ![p] = r]
Goto(p, pc) == Set(p, [run[p] EXCEPT !.pc = pc])
Leave(p, pc) == Set(p, [Idle EXCEPT !.pc = pc])

Throw == throws < MaxThrows /\ throws' = throws + 1 /\ UNCHANGED <<aborts, operations>>

\* A rejection before the loop has started: prompt() catches and is idle.
Reject(p) == phase' = "idle" /\ runPromise' = NoPrompt /\ Leave(p, "rejected")

\* An error thrown in the loop, which takes its locals along: emitRunFailure, and after a second one the
\* finally block of executeTurn.
Failed(r) ==
    IF r.failing = 0
    THEN [Idle EXCEPT !.pc = "append", !.todo = <<"failure">>, !.then = "turnEnd", !.failing = 1]
    ELSE Flushing([Idle EXCEPT !.failing = 2], "final")

Messages == Prompts \cup Steers \cup FollowUps \cup NextTurns

\* Messages, writes and the other entries of a session are told apart.
ASSUME EntriesAssumption ==
    /\ Writes \cap (Messages \cup Operations \cup {"response", "result", "failure"}) = {}
    /\ Messages \cap (Operations \cup {"response", "result", "failure"}) = {}
    /\ Prompts \cap (Steers \cup FollowUps \cup NextTurns) = {}
    /\ Steers \cap (FollowUps \cup NextTurns) = {} /\ FollowUps \cap NextTurns = {}

Carried(r) == (Range(r.polled) \cup Range(r.todo)) \cap Messages

\* What the run has polled or was about to emit is local and goes with it.
RunThrows(p) ==
    /\ Throw
    /\ Set(p, Failed(run[p]))
    /\ dropped' = dropped \cup {m \in Carried(run[p]) : \A i \in DOMAIN tree' : tree'[i].what # m}

-----------------------------------------------------------------------------
(* prompt() up to the loop.                                                *)

Prompt(p) ==
    /\ At(p, "off") /\ p = NextCall({q \in Prompts : At(q, "off")})
    /\ phase = "idle" /\ MayCall
    /\ phase' = "turn" /\ runPromise' = p
    /\ Goto(p, "snapshot")
    /\ UNCHANGED <<session, pendings, queues, runAbortController, calls, marks, bounds>>

\* createTurnState, then the nextTurn queue is taken in the same tick.
Snapshot(p) ==
    /\ At(p, "snapshot")
    /\ \/ /\ Set(p, [run[p] EXCEPT !.context = Shown, !.polled = nextTurnQueue,
                        !.pc = IF nextTurnQueue = <<>> THEN "hook" ELSE "announce"])
          /\ nextTurnQueue' = <<>>
          /\ UNCHANGED <<phase, slots, bounds, dropped>>
       \/ Throw /\ Reject(p) /\ dropped' = dropped \cup {p}
          /\ UNCHANGED <<nextTurnQueue, runAbortController>>
    /\ UNCHANGED <<session, pendings, steerQueue, followUpQueue, generation, calls, cleared>>

\* emitQueueUpdate behind the splice of the nextTurn queue.
AnnounceNextTurn(p) ==
    /\ At(p, "announce")
    /\ \/ Goto(p, "hook") /\ UNCHANGED <<phase, slots, bounds, nextTurnQueue, dropped>>
       \/ Throw /\ Reject(p) /\ nextTurnQueue' = run[p].polled \o nextTurnQueue
          /\ dropped' = dropped \cup {p}
          /\ UNCHANGED runAbortController
    /\ UNCHANGED <<session, pendings, steerQueue, followUpQueue, generation, calls, cleared>>

\* before_agent_start, then the loop starts with the messages collected.
BeforeAgentStart(p) ==
    /\ At(p, "hook")
    /\ \/ /\ Set(p, [run[p] EXCEPT !.pc = "append", !.then = "poll", !.polled = <<>>,
                        !.todo = Append(run[p].polled, p)])
          /\ runAbortController' = p
          /\ UNCHANGED <<phase, runPromise, bounds, dropped>>
       \/ Throw /\ Reject(p) /\ dropped' = dropped \cup Range(run[p].polled) \cup {p}
          /\ UNCHANGED runAbortController
    /\ UNCHANGED <<session, pendings, queues, calls, cleared>>

-----------------------------------------------------------------------------
(* The loop, seen through handleAgentEvent.                                *)

\* message_end: the append reads the leaf ...
ReadLeaf(p) ==
    /\ At(p, "append")
    /\ Set(p, [run[p] EXCEPT !.pc = "commit", !.parent = leaf])
    /\ UNCHANGED <<phase, session, pendings, queues, slots, calls, marks, bounds>>

\* ... and writes; then the listeners run.
EmitMessage(p) ==
    LET rest == Tail(run[p].todo)
        emitted == [run[p] EXCEPT !.todo = rest, !.context = Append(@, Head(run[p].todo)),
                                  !.parent = 0, !.pc = IF rest = <<>> THEN run[p].then ELSE "append",
                                  !.then = IF rest = <<>> THEN "off" ELSE @]
    IN  /\ At(p, "commit")
        /\ \/ Commit(Head(run[p].todo), run[p].parent) /\ Set(p, emitted)
              /\ UNCHANGED <<bounds, dropped>>
           \/ Commit(Head(run[p].todo), run[p].parent) /\ RunThrows(p)
           \/ UNCHANGED session /\ RunThrows(p)
        /\ UNCHANGED <<phase, pendings, queues, slots, calls, cleared>>

Drained(queue) == IF QueueMode = "all" \/ queue = <<>> THEN queue ELSE <<Head(queue)>>
Undrained(queue) == IF QueueMode = "all" THEN <<>> ELSE SubSeq(queue, 2, Len(queue))

\* getSteeringMessages: drainQueuedMessages splices, then announces.
Poll(p, stage, taken) ==
    Set(p, IF taken = <<>> THEN AfterPoll(run[p], stage, <<>>)
           ELSE [run[p] EXCEPT !.pc = "announcePoll", !.polled = taken, !.stage = stage,
                               !.gen = generation])

PollSteering(p) ==
    /\ At(p, "poll")
    /\ Poll(p, run[p].stage, Drained(steerQueue)) /\ steerQueue' = Undrained(steerQueue)
    /\ UNCHANGED <<phase, session, pendings, followUpQueue, nextTurnQueue, generation, slots,
                   calls, marks, bounds>>

PollFollowUp(p) ==
    /\ At(p, "pollFollowUp")
    /\ Poll(p, "followUp", Drained(followUpQueue)) /\ followUpQueue' = Undrained(followUpQueue)
    /\ UNCHANGED <<phase, session, pendings, steerQueue, nextTurnQueue, generation, slots,
                   calls, marks, bounds>>

\* Mutant: what was polled is not put back.
PutBackForgotten(p) == UNCHANGED <<steerQueue, followUpQueue>>

\* A listener that throws here has the messages put back into the array they
\* came from, which the harness no longer holds if abort() replaced it.
PutBack(p) ==
    IF run[p].gen # generation THEN UNCHANGED <<steerQueue, followUpQueue>>
    ELSE IF run[p].stage = "followUp"
         THEN followUpQueue' = run[p].polled \o followUpQueue /\ UNCHANGED steerQueue
         ELSE steerQueue' = run[p].polled \o steerQueue /\ UNCHANGED followUpQueue

AnnouncePoll(p) ==
    /\ At(p, "announcePoll")
    /\ \/ Set(p, AfterPoll(run[p], run[p].stage, run[p].polled))
          /\ UNCHANGED <<steerQueue, followUpQueue, dropped, bounds>>
       \/ /\ PutBack(p) /\ Throw
          /\ Set(p, Failed(run[p]))
          /\ dropped' = IF run[p].gen = generation THEN dropped ELSE dropped \cup Range(run[p].polled)
    /\ UNCHANGED <<phase, session, pendings, nextTurnQueue, generation, slots, calls, cleared>>

\* Mutant: the next turn goes on with the context of the last.
RefreshedStale(r) == [r EXCEPT !.stage = "prepared"]
Refreshed(r) == [r EXCEPT !.context = Shown, !.stage = "prepared"]

\* prepareNextTurn behind its flush: a fresh snapshot from the session; a turn
\* that has nothing to inject yet polls once more.
Refresh(p) ==
    /\ At(p, "refresh")
    /\ \/ LET fresh == Refreshed(run[p])
          IN  Set(p, IF fresh.polled = <<>> THEN [fresh EXCEPT !.pc = "poll"] ELSE Injecting(fresh))
          /\ UNCHANGED <<bounds, dropped, session>>
       \/ UNCHANGED session /\ RunThrows(p)
    /\ UNCHANGED <<phase, pendings, queues, slots, calls, cleared>>

\* The response: final, one with a tool call and its result, or an error; an
\* aborted run gets no other.
Respond(p) ==
    /\ At(p, "model")
    /\ \/ /\ \E kind \in {"stop", "more", "error"} :
                /\ run[p].aborted => kind = "error"
                /\ kind = "more" => run[p].turns < MaxTurns
                /\ Set(p, [run[p] EXCEPT !.pc = "append",
                              !.todo = IF kind = "more" THEN <<"response", "result">> ELSE <<"response">>,
                              !.then = "turnEnd", !.more = (kind = "more"),
                              !.stage = IF kind = "error" THEN "over" ELSE "turn",
                              !.turns = IF kind = "more" THEN @ + 1 ELSE @])
          /\ UNCHANGED <<bounds, dropped, session>>
       \/ UNCHANGED session /\ RunThrows(p)
    /\ UNCHANGED <<phase, pendings, queues, slots, calls, cleared>>

\* turn_end: an error of a listener waits until the writes are flushed.
TurnEnd(p) ==
    /\ At(p, "turnEnd")
    /\ \E next \in {"savePoint", "turnThrows"} :
          /\ next = "turnThrows" => throws < MaxThrows
          /\ Set(p, Flushing(run[p], next))
    /\ UNCHANGED <<phase, session, pendings, queues, slots, calls, marks, bounds>>

SavePoint(p) ==
    /\ \/ At(p, "savePoint")
          /\ Set(p, IF run[p].failing > 0 \/ run[p].stage = "over" THEN Flushing(run[p], "idle")
                    ELSE [run[p] EXCEPT !.pc = "poll"])
          /\ UNCHANGED <<bounds, dropped, session>>
       \/ run[p].pc \in {"savePoint", "turnThrows"} /\ UNCHANGED session /\ RunThrows(p)
    /\ UNCHANGED <<phase, pendings, queues, slots, calls, cleared>>

\* flushPendingSessionWrites: peeks, appends, and only then shifts.
Flush(p) ==
    /\ At(p, "flush")
    /\ Set(p, IF pendingSessionWrites = <<>> THEN Flushing(run[p], run[p].then)
              ELSE [run[p] EXCEPT !.pc = "flushing", !.parent = leaf,
                                  !.todo = <<Head(pendingSessionWrites)>>])
    /\ UNCHANGED <<phase, session, pendings, queues, slots, calls, marks, bounds>>

FlushOne(p) ==
    /\ At(p, "flushing")
    /\ Commit(Head(run[p].todo), run[p].parent)
    /\ pendingSessionWrites' = IF pendingSessionWrites = <<>> THEN <<>> ELSE Tail(pendingSessionWrites)
    /\ LET written == [run[p] EXCEPT !.todo = <<>>, !.parent = 0]
       IN  Set(p, IF pendingSessionWrites' # <<>> THEN [written EXCEPT !.pc = "flush"]
                  ELSE [written EXCEPT !.pc = run[p].then, !.then = "off"])
    /\ UNCHANGED <<phase, queued, queues, slots, calls, marks, bounds>>

\* Mutant: a write that fails has left the queue.
FlushThrowsShifted(p) ==
    /\ At(p, "flushing") /\ Throw
    /\ Set(p, IF run[p].then = "final" THEN [Idle EXCEPT !.pc = "final", !.failing = 2]
              ELSE Failed(run[p]))
    /\ dropped' = dropped \cup Carried(run[p])
    /\ pendingSessionWrites' = Tail(pendingSessionWrites)
    /\ UNCHANGED <<phase, session, queued, queues, slots, calls, cleared>>

\* The file does not take the write, which stays pending; the flush of the
\* finally block has prompt() reject.
FlushThrows(p) ==
    /\ At(p, "flushing") /\ Throw
    /\ Set(p, IF run[p].then = "final" THEN [Idle EXCEPT !.pc = "final", !.failing = 2]
              ELSE Failed(run[p]))
    /\ dropped' = dropped \cup Carried(run[p])
    /\ UNCHANGED <<phase, session, pendings, queues, slots, calls, cleared>>

\* agent_end behind its flush: idle, and only then the listeners of agent_end
\* and settled.
BecomeIdle(p) ==
    /\ At(p, "idle")
    /\ phase' = "idle"
    /\ Goto(p, "listeners")
    /\ UNCHANGED <<session, pendings, queues, slots, calls, marks, bounds>>

ListenersReturn(p) ==
    /\ At(p, "listeners")
    /\ \/ Set(p, Flushing(run[p], "final")) /\ UNCHANGED <<bounds, dropped, session>>
       \/ UNCHANGED session /\ RunThrows(p)
    /\ UNCHANGED <<phase, pendings, queues, slots, calls, cleared>>

\* Mutant: the finally blocks do not run when the failure could not be reported.
FinishUnlessFailed(p) ==
    /\ At(p, "final") /\ run[p].failing < 2
    /\ runPromise' = NoPrompt /\ runAbortController' = NoPrompt
    /\ UNCHANGED phase /\ Leave(p, "done")
    /\ UNCHANGED <<session, pendings, queues, calls, marks, bounds>>

\* The finally blocks of executeTurn and prompt(): both slots are emptied,
\* whoever they belong to; a failure that could not be reported is caught.
Finish(p) ==
    /\ At(p, "final")
    /\ runPromise' = NoPrompt /\ runAbortController' = NoPrompt
    /\ IF run[p].failing = 2 THEN phase' = "idle" /\ Leave(p, "rejected")
       ELSE UNCHANGED phase /\ Leave(p, "done")
    /\ UNCHANGED <<session, pendings, queues, calls, marks, bounds>>

-----------------------------------------------------------------------------
(* What callers do at any moment.                                          *)

\* The next of the messages that nobody has handed over yet.
Unsent(source) ==
    LET unsent == {m \in source :
            /\ m \notin Range(steerQueue) \cup Range(followUpQueue) \cup Range(nextTurnQueue)
            /\ m \notin cleared \cup dropped /\ ~Holds(m)
            /\ \A p \in Prompts : m \notin Range(run[p].todo) \cup Range(run[p].polled)}
    IN  IF unsent = {} THEN {} ELSE {NextCall(unsent)}

Steer ==
    /\ phase # "idle"
    /\ \E m \in Unsent(Steers) : steerQueue' = Append(steerQueue, m)
    /\ UNCHANGED <<phase, session, pendings, followUpQueue, nextTurnQueue, generation, slots, run,
                   calls, marks, bounds>>

FollowUp ==
    /\ phase # "idle"
    /\ \E m \in Unsent(FollowUps) : followUpQueue' = Append(followUpQueue, m)
    /\ UNCHANGED <<phase, session, pendings, steerQueue, nextTurnQueue, generation, slots, run,
                   calls, marks, bounds>>

NextTurn ==
    /\ \E m \in Unsent(NextTurns) : nextTurnQueue' = Append(nextTurnQueue, m)
    /\ UNCHANGED <<phase, session, pendings, steerQueue, followUpQueue, generation, slots, run,
                   calls, marks, bounds>>

\* Mutant: an append is not queued while the harness is busy.
AppendMessageAtOnce(w) ==
    /\ writer[w].pc = "off" /\ w = NextCall({v \in Writes : writer[v].pc = "off"})
    /\ writer' = [writer EXCEPT ![w] = [pc |-> "reading", parent |-> leaf]]
    /\ UNCHANGED <<phase, session, pendings, queues, slots, run, operation, aborting, marks, bounds>>

\* appendMessage: at once when idle, queued otherwise.
AppendMessage(w) ==
    /\ writer[w].pc = "off" /\ w = NextCall({v \in Writes : writer[v].pc = "off"})
    /\ IF phase = "idle"
       THEN /\ MayCall
            /\ writer' = [writer EXCEPT ![w] = [pc |-> "reading", parent |-> leaf]]
            /\ UNCHANGED pendings
       ELSE /\ writer' = [writer EXCEPT ![w].pc = "done"]
            /\ pendingSessionWrites' = Append(pendingSessionWrites, w)
            /\ queued' = Append(queued, w)
    /\ UNCHANGED <<phase, session, queues, slots, run, operation, aborting, marks, bounds>>

AppendedDirectly(w) ==
    /\ writer[w].pc = "reading"
    /\ Commit(w, writer[w].parent)
    /\ writer' = [writer EXCEPT ![w].pc = "done"]
    /\ UNCHANGED <<phase, pendings, queues, slots, run, operation, aborting, marks, bounds>>

\* compact() and navigateTree() hold the phase until they return or throw.
StructuralCall(op) ==
    /\ op \in Operations /\ phase = "idle" /\ MayCall /\ operation = "none"
    /\ operations < MaxOperations /\ operations' = operations + 1
    /\ operation' = op
    /\ phase' = IF op = "compact" THEN "compaction" ELSE "branch_summary"
    /\ UNCHANGED <<session, pendings, queues, slots, run, writer, aborting, marks, throws, aborts>>

\* The session is written at the end: a compaction entry on the branch; or the
\* leaf moves to an entry, and a branch summary may be put on it.
StructuralReturn ==
    /\ operation # "none"
    /\ \/ operation = "compact" /\ Commit("compact", leaf) /\ UNCHANGED bounds
       \/ operation = "navigate" /\ UNCHANGED bounds
          /\ \E i \in 0..Len(tree) :
                \/ Commit("navigate", i)
                \/ leaf' = i /\ UNCHANGED tree
       \/ UNCHANGED session /\ Throw
    /\ operation' = "none" /\ phase' = "idle"
    /\ UNCHANGED <<pendings, queues, slots, run, writer, aborting, marks>>

\* abort(): the queues are replaced at once, then it waits for runPromise.
Abort ==
    /\ aborting = "none" /\ aborts < MaxAborts
    /\ cleared' = cleared \cup Range(steerQueue) \cup Range(followUpQueue)
    /\ steerQueue' = <<>> /\ followUpQueue' = <<>> /\ generation' = generation + 1
    /\ run' = [p \in Prompts |-> IF p = runAbortController THEN [run[p] EXCEPT !.aborted = TRUE]
                                 ELSE run[p]]
    /\ aborting' = "announce" /\ aborts' = aborts + 1
    /\ UNCHANGED <<phase, session, pendings, nextTurnQueue, slots, writer, operation, dropped, throws,
                   operations>>

AbortWaits ==
    /\ aborting = "announce"
    /\ aborting' = IF runPromise = NoPrompt THEN "none" ELSE runPromise
    /\ UNCHANGED <<phase, session, pendings, queues, slots, run, writer, operation, marks, bounds>>

AbortReturns ==
    /\ aborting \in Prompts /\ Over(aborting)
    /\ aborting' = "none"
    /\ UNCHANGED <<phase, session, pendings, queues, slots, run, writer, operation, marks, bounds>>

-----------------------------------------------------------------------------
Init ==
    /\ phase = "idle" /\ tree = <<>> /\ leaf = 0
    /\ pendingSessionWrites = <<>> /\ queued = <<>>
    /\ steerQueue = <<>> /\ followUpQueue = <<>> /\ nextTurnQueue = <<>> /\ generation = 0
    /\ runPromise = NoPrompt /\ runAbortController = NoPrompt
    /\ run = [p \in Prompts |-> Idle]
    /\ writer = [w \in Writes |-> [pc |-> "off", parent |-> 0]]
    /\ operation = "none" /\ aborting = "none"
    /\ cleared = {} /\ dropped = {}
    /\ throws = 0 /\ aborts = 0 /\ operations = 0

\* What the runtime owes once a call is made: timers, files, the model and the
\* listeners answer.
RunStep(p) ==
    \/ Snapshot(p) \/ AnnounceNextTurn(p) \/ BeforeAgentStart(p)
    \/ ReadLeaf(p) \/ EmitMessage(p) \/ PollSteering(p) \/ PollFollowUp(p) \/ AnnouncePoll(p)
    \/ Refresh(p) \/ Respond(p) \/ TurnEnd(p) \/ SavePoint(p) \/ Flush(p) \/ FlushOne(p)
    \/ FlushThrows(p) \/ BecomeIdle(p) \/ ListenersReturn(p) \/ Finish(p)

CallStep ==
    \/ \E w \in Writes : AppendedDirectly(w)
    \/ StructuralReturn \/ AbortWaits \/ AbortReturns

Next ==
    \/ \E p \in Prompts : Prompt(p) \/ RunStep(p)
    \/ \E w \in Writes : AppendMessage(w)
    \/ \E op \in Operations : StructuralCall(op)
    \/ Steer \/ FollowUp \/ NextTurn \/ Abort \/ CallStep

Spec == Init /\ [][Next]_vars

FairSpec == Spec /\ WF_vars(CallStep) /\ \A p \in Prompts : WF_vars(RunStep(p))

-----------------------------------------------------------------------------
(* Properties.                                                             *)

Entries == Messages \cup Writes \cup Operations \cup {"response", "result", "failure"}

\* The types of the variables.
TypeOK ==
    /\ phase \in {"idle", "turn", "compaction", "branch_summary"}
    /\ \A i \in DOMAIN tree : tree[i].what \in Entries /\ tree[i].parent \in 0..(i - 1)
    /\ leaf \in 0..Len(tree)
    /\ pendingSessionWrites \in Seq(Writes) /\ queued \in Seq(Writes)
    /\ steerQueue \in Seq(Steers) /\ followUpQueue \in Seq(FollowUps)
    /\ nextTurnQueue \in Seq(NextTurns)
    /\ {runPromise, runAbortController} \subseteq Prompts \cup {NoPrompt}
    /\ \A p \in Prompts : /\ Range(run[p].todo) \cup Range(run[p].polled) \subseteq Entries
                          /\ run[p].turns \in 0..MaxTurns /\ run[p].failing \in 0..2
    /\ cleared \cup dropped \subseteq Messages /\ throws \in 0..MaxThrows

\* Copies of a message in a queue, in a run and in the session.
Copies(m) ==
    LET times(s) == Cardinality({i \in DOMAIN s : s[i] = m})
    IN  times(steerQueue) + times(followUpQueue) + times(nextTurnQueue)
        + Cardinality({i \in DOMAIN tree : tree[i].what = m})
        + (IF m \in cleared \cup dropped THEN 1 ELSE 0)
        + Cardinality({p \in Prompts : m \in Carried(run[p])})

\* A queued message is in one place only: no drain, put-back or abort doubles it;
\* and without an abort or an error it never vanishes: it stays queued, is carried
\* by a run, or is in the session.
OnePlace ==
    [][\A m \in Messages :
          /\ Copies(m)' <= 1
          /\ m \in Steers \cup FollowUps \cup NextTurns => Copies(m)' >= Copies(m)]_vars

\* Every provider request shows the model the branch of the session, with all
\* that was written to it by then, and nothing else.
ModelSeesSession ==
    \A p \in Prompts : At(p, "model") /\ run[p].failing = 0 => run[p].context = Shown

\* The writes queued are those the session has of them, in its order, and then the
\* pending ones.
WrittenInOrder ==
    LET written[i \in 0..Len(tree)] ==
            IF i = 0 THEN <<>>
            ELSE IF tree[i].what \in Range(queued) THEN Append(written[i - 1], tree[i].what)
            ELSE written[i - 1]
    IN  queued = written[Len(tree)] \o pendingSessionWrites

\* Writes made while busy are written once each, in the order they were made; and
\* a run that got as far as its loop leaves none behind, unless even the report of
\* its failure failed, or the last flush.
QueuedWritesInOrder ==
    [][/\ WrittenInOrder'
       /\ \A p \in Prompts : At(p, "final") /\ run[p].failing < 2 /\ Over(p)'
            => pendingSessionWrites' = <<>>]_vars

\* No append is based on a leaf that another append has moved in the meantime,
\* which would drop that other entry from the branch: only navigateTree() leaves
\* the branch.
AppendsExtendBranch ==
    [][tree' # tree /\ operation # "navigate" => Last(tree').parent = leaf]_vars

\* "Pending session writes are always persisted. They are flushed at save points,
\* at operation settlement, and in failure cleanup" (agent/docs/agent-harness.md):
\* nothing is pending once every operation has settled.
SettledIsFlushed == Settled /\ phase = "idle" => pendingSessionWrites = <<>>

\* prompt() settles and abort() returns, whatever throws.
CallsSettle ==
    /\ \A p \in Prompts : At(p, "snapshot") ~> Over(p)
    /\ aborting # "none" ~> aborting = "none"

=============================================================================
