------------------------- MODULE AgentHarnessProofs -------------------------
(***************************************************************************)
(* Proofs about AgentHarness: its types and where each message is, for     *)
(* every order of calls; and for a harness whose calls do not overlap,     *)
(* that the model sees the session, that queued writes keep their order,   *)
(* and that appends stay on the branch. A run is described by RunShape     *)
(* (where it goes from where it stands) and each of its steps by Stepped,  *)
(* from which the four parts of the invariant follow. Of messages each     *)
(* step is one of Moves (a run's) or Shifts (a caller's).                  *)
(***************************************************************************)
EXTENDS AgentHarness, RecursionFacts, FiniteSetTheorems

PCs == {"off", "snapshot", "announce", "hook", "append", "commit", "poll", "pollFollowUp",
        "announcePoll", "refresh", "model", "turnEnd", "savePoint", "turnThrows", "flush",
        "flushing", "idle", "listeners", "final", "done", "rejected"}

RunRecord ==
    [pc : PCs, then : PCs, todo : Seq(Entries), polled : Seq(Messages), context : Seq(Entries),
     parent : Nat, gen : Nat, stage : {"first", "prepared", "turn", "followUp", "over"},
     failing : 0..2, turns : 0..MaxTurns, more : BOOLEAN, aborted : BOOLEAN]

\* Before the model is asked, and behind its response.
Ahead(r) == r.stage \in {"first", "prepared"}
Behind(r) == r.failing = 0 => r.stage \in {"turn", "over"}
Late(r) == r.failing = 0 => ~Ahead(r)

\* What a run emits.
Said == Messages \cup {"response", "result", "failure"}

\* Where a run goes from where it stands, and what it has with it.
RunShape(r) ==
    /\ r.pc \in {"off", "snapshot", "announce", "hook"} => r.stage = "first"
    /\ r.pc \in {"announce", "hook"} => r.polled \in Seq(NextTurns)
    /\ r.pc \in {"append", "commit"} =>
          /\ r.todo \in Seq(Said) /\ r.todo # <<>>
          /\ \/ r.then \in {"poll", "model"} /\ Ahead(r)
             \/ r.then = "turnEnd" /\ Behind(r)
    /\ r.pc = "poll" => r.stage \in {"first", "prepared", "turn"}
    /\ r.pc = "pollFollowUp" => r.stage = "turn"
    /\ r.pc = "announcePoll" =>
          /\ r.stage # "over"
          /\ r.polled \in Seq(IF r.stage = "followUp" THEN FollowUps ELSE Steers)
    /\ r.pc = "model" => Ahead(r)
    /\ r.pc \in {"turnEnd", "savePoint", "turnThrows"} => Behind(r)
    /\ r.pc = "refresh" => ~Ahead(r)
    /\ r.pc \in {"idle", "listeners", "final"} => Late(r)
    /\ r.pc \in {"flush", "flushing"} =>
          \/ r.then \in {"savePoint", "turnThrows"} /\ Behind(r)
          \/ r.then = "refresh" /\ ~Ahead(r)
          \/ r.then \in {"idle", "final"} /\ Late(r)
    /\ r.pc = "flushing" => r.todo # <<>>

\* A run in the midst of its steps, and one that comes from it by a step.
Good(r) == r \in RunRecord /\ RunShape(r)
From(s, r) ==
    Good(s) /\ s.parent \in {0, r.parent} /\ s.context = r.context /\ s.failing = r.failing

\* A run in the midst of its loop.
Going(r) ==
    \/ r.pc \in {"append", "poll", "pollFollowUp", "announcePoll", "refresh", "model", "idle"}
    \/ r.pc = "flush" /\ r.then \in {"refresh", "idle"}

Node == [what : Entries, parent : Nat]

SessionTypes ==
    /\ tree \in Seq(Node) /\ \A i \in 1..Len(tree) : tree[i].parent \in 0..(i - 1)
    /\ leaf \in 0..Len(tree)

WriteTypes == pendingSessionWrites \in Seq(Writes) /\ queued \in Seq(Writes)

QueueTypes ==
    /\ steerQueue \in Seq(Steers) /\ followUpQueue \in Seq(FollowUps)
    /\ nextTurnQueue \in Seq(NextTurns) /\ generation \in Nat

SlotTypes ==
    runPromise \in Prompts \cup {NoPrompt} /\ runAbortController \in Prompts \cup {NoPrompt}

RunTypes ==
    /\ run \in [Prompts -> RunRecord]
    /\ \A p \in Prompts : RunShape(run[p]) /\ run[p].parent \in 0..Len(tree)

CallTypes ==
    /\ writer \in [Writes -> [pc : {"off", "reading", "done"}, parent : Nat]]
    /\ \A w \in Writes : writer[w].parent \in 0..Len(tree)
    /\ operation \in Operations \cup {"none"}

MarkTypes ==
    /\ phase \in {"idle", "turn", "compaction", "branch_summary"}
    /\ cleared \subseteq Messages /\ dropped \subseteq Messages /\ throws \in 0..MaxThrows

\* The types of the variables, and what the state of a run says about its locals.
Types ==
    /\ SessionTypes /\ WriteTypes /\ QueueTypes /\ SlotTypes /\ RunTypes /\ CallTypes /\ MarkTypes

\* One call at a time.
Alone ==
    /\ \A p, q \in Prompts : ~Over(p) /\ ~Over(q) => p = q
    /\ \A p \in Prompts : ~Over(p) => operation = "none" /\ \A w \in Writes : writer[w].pc # "reading"
    /\ operation # "none" => \A w \in Writes : writer[w].pc # "reading"
    /\ \A v, w \in Writes : writer[v].pc = "reading" /\ writer[w].pc = "reading" => v = w

\* Who is about to write has read the leaf that the session still has.
LeafIsRead ==
    /\ \A p \in Prompts : run[p].pc \in {"commit", "flushing"} => run[p].parent = leaf
    /\ \A w \in Writes : writer[w].pc = "reading" => writer[w].parent = leaf

\* A run on its way to a request, from its snapshot on.
Reading(r) == r.failing = 0 /\ Ahead(r) /\ r.pc \notin {"off", "snapshot", "done", "rejected"}

\* Until the request it holds the branch.
ContextIsBranch == \A p \in Prompts : Reading(run[p]) => run[p].context = Shown

\* Where a run that failed may stand.
FailingShape(r) ==
    r.failing > 0 =>
        \/ r.pc \in {"append", "commit"} /\ r.then = "turnEnd"
        \/ r.pc \in {"flush", "flushing"} /\ r.then # "refresh"
        \/ r.pc \in {"turnEnd", "savePoint", "turnThrows", "idle", "listeners", "final"}

\* A run that has reported its end, or is about to leave.
Ends(r) ==
    /\ r.failing < 2
    /\ r.pc \in {"listeners", "final"} \/ (r.pc \in {"flush", "flushing"} /\ r.then = "final")

\* The writes: which are where, and what a run that flushes them holds.
WritesPlaced ==
    /\ WrittenInOrder
    /\ \A w \in Writes : writer[w].pc = "off" => ~Holds(w)
    /\ \A w \in Writes : writer[w].pc # "done" => w \notin Range(queued)
    /\ \A p \in Prompts :
          /\ FailingShape(run[p])
          /\ run[p].pc = "flushing" => /\ pendingSessionWrites # <<>>
                                       /\ run[p].todo = <<Head(pendingSessionWrites)>>
          /\ Ends(run[p]) => phase = "idle"
          /\ run[p].pc = "final" /\ run[p].failing < 2 => pendingSessionWrites = <<>>

-----------------------------------------------------------------------------
(* Operators on a run.                                                     *)

\* Messages are entries of the session.
LEMMA MessagesAreEntries ==
    /\ Prompts \subseteq Messages /\ Steers \subseteq Messages /\ FollowUps \subseteq Messages
    /\ NextTurns \subseteq Messages /\ Messages \subseteq Entries /\ Writes \subseteq Entries
    /\ Operations \subseteq Entries /\ {"response", "result", "failure"} \subseteq Entries
BY DEF Messages, Entries

\* A run that has not begun is well formed.
LEMMA IdleGood == Good(Idle)
BY AgentHarnessAssumption DEF Good, RunRecord, RunShape, Idle, PCs

\* A run record with some of its fields set.
LEMMA Updated ==
    ASSUME NEW r \in RunRecord, NEW pc \in PCs, NEW then \in PCs, NEW todo \in Seq(Entries)
    PROVE  /\ \A polled \in Seq(Messages) :
                 [r EXCEPT !.pc = pc, !.then = then, !.todo = todo, !.polled = polled] \in RunRecord
           /\ \A failing \in 0..2 :
                 [r EXCEPT !.pc = pc, !.todo = todo, !.then = then, !.failing = failing] \in RunRecord
           /\ \A failing \in 0..2 : [r EXCEPT !.failing = failing] \in RunRecord
           /\ \A failing \in 0..2 : [r EXCEPT !.pc = pc, !.failing = failing] \in RunRecord
BY DEF RunRecord

\* A flush keeps a run well formed where its continuation is.
LEMMA FlushingGood ==
    ASSUME NEW r \in RunRecord, NEW then,
           \/ then \in {"savePoint", "turnThrows"} /\ Behind(r)
           \/ then = "refresh" /\ ~Ahead(r)
           \/ then \in {"idle", "final"} /\ Late(r)
    PROVE  /\ From(Flushing(r, then), r) /\ Flushing(r, then).stage = r.stage
           /\ \/ /\ pendingSessionWrites = <<>> /\ Flushing(r, then).pc = then
              \/ /\ pendingSessionWrites # <<>> /\ Flushing(r, then).pc = "flush"
                 /\ Flushing(r, then).then = then
<1> DEFINE s == Flushing(r, then)
<1>1. then \in PCs /\ "flush" \in PCs /\ "off" \in PCs
  BY DEF PCs
<1>2. s \in RunRecord
  BY <1>1 DEF Flushing, RunRecord
<1>3. /\ s.stage = r.stage /\ s.failing = r.failing /\ s.parent = r.parent
      /\ s.context = r.context
      /\ \/ pendingSessionWrites = <<>> /\ s.pc = then
         \/ pendingSessionWrites # <<>> /\ s.pc = "flush" /\ s.then = then
  BY DEF Flushing, RunRecord
<1>4. RunShape(s)
  <2> HIDE DEF s
  <2> QED BY <1>3 DEF RunShape, Behind, Late, Ahead
<1> QED BY <1>2, <1>3, <1>4 DEF From, Good

\* So does the injection of what was polled,
LEMMA InjectingGood ==
    ASSUME NEW r \in RunRecord, Ahead(r)
    PROVE  /\ From(Injecting(r), r) /\ Injecting(r).stage = r.stage
           /\ Injecting(r).pc \in {"append", "model"}
<1>1. r.polled \in Seq(Entries)
  BY MessagesAreEntries DEF RunRecord
<1>2. CASE r.polled = <<>>
  BY <1>2 DEF Injecting, From, Good, RunRecord, RunShape, PCs, Ahead
<1>3. CASE r.polled # <<>>
  <2> DEFINE s == [r EXCEPT !.pc = "append", !.then = "model", !.todo = r.polled, !.polled = <<>>]
  <2>1. "append" \in PCs /\ "model" \in PCs /\ <<>> \in Seq(Messages)
    BY DEF PCs
  <2>2. s \in RunRecord
    BY <1>1, <2>1, Updated
  <2>3. /\ s.stage = r.stage /\ s.parent = r.parent /\ s.pc = "append" /\ s.then = "model"
        /\ s.todo # <<>> /\ s.todo = r.polled /\ s.context = r.context /\ s.failing = r.failing
    BY <1>3 DEF RunRecord
  <2>5. s.todo \in Seq(Said)
    BY <2>3 DEF RunRecord, Said
  <2>4. RunShape(s)
    <3> HIDE DEF s
    <3> QED BY <2>3, <2>5 DEF RunShape, Ahead
  <2> QED BY <1>3, <2>2, <2>3, <2>4 DEF Injecting, From, Good
<1> QED BY <1>2, <1>3

\* and whatever follows a poll,
LEMMA AfterPollGood ==
    ASSUME NEW r \in RunRecord, NEW stage \in {"first", "prepared", "turn", "followUp"},
           NEW polled \in Seq(Messages)
    PROVE  /\ From(AfterPoll(r, stage, polled), r) /\ AfterPoll(r, stage, polled).stage = stage
           /\ Going(AfterPoll(r, stage, polled))
<1> DEFINE s == [r EXCEPT !.polled = polled, !.stage = stage, !.gen = 0]
           again == polled # <<>> \/ (stage = "turn" /\ r.more)
<1>1. /\ s \in RunRecord /\ s.stage = stage /\ s.parent = r.parent /\ s.context = r.context
      /\ s.failing = r.failing
  BY DEF RunRecord
<1>2. CASE stage \in {"first", "prepared"}
  <2>1. /\ From(Injecting(s), s) /\ Injecting(s).stage = s.stage
        /\ Injecting(s).pc \in {"append", "model"}
    BY <1>1, <1>2, InjectingGood DEF Ahead
  <2>2. AfterPoll(r, stage, polled) = Injecting(s)
    BY <1>2 DEF AfterPoll
  <2> HIDE DEF s
  <2> QED BY <1>1, <1>2, <2>1, <2>2 DEF From, Going
<1>3. CASE stage \in {"turn", "followUp"} /\ again
  <2> DEFINE t == [s EXCEPT !.more = FALSE]
  <2>1. /\ t \in RunRecord /\ t.stage = stage /\ t.parent = r.parent /\ t.context = r.context
        /\ t.failing = r.failing
    BY <1>1 DEF RunRecord
  <2>2. /\ From(Flushing(t, "refresh"), t) /\ Flushing(t, "refresh").stage = t.stage
        /\ Going(Flushing(t, "refresh"))
    <3> HIDE DEF t
    <3> QED BY <1>3, <2>1, FlushingGood DEF Ahead, Going
  <2>3. AfterPoll(r, stage, polled) = Flushing(t, "refresh")
    BY <1>3 DEF AfterPoll
  <2> HIDE DEF t
  <2> QED BY <2>1, <2>2, <2>3 DEF From
<1>4. CASE stage = "turn" /\ ~again
  <2>1. AfterPoll(r, stage, polled) = [s EXCEPT !.pc = "pollFollowUp"]
    BY <1>4 DEF AfterPoll
  <2> DEFINE t == [s EXCEPT !.pc = "pollFollowUp"]
  <2>2. "pollFollowUp" \in PCs
    BY DEF PCs
  <2>3. t \in RunRecord
    BY <1>1, <2>2 DEF RunRecord
  <2>4. /\ t.pc = "pollFollowUp" /\ t.stage = s.stage /\ t.parent = s.parent
        /\ t.context = s.context /\ t.failing = s.failing
    BY <1>1 DEF RunRecord
  <2>5. RunShape(t)
    BY <1>1, <1>4, <2>4 DEF RunShape
  <2>6. AfterPoll(r, stage, polled) = t
    BY <2>1
  <2> HIDE DEF t, s
  <2> QED BY <1>1, <1>4, <2>3, <2>4, <2>5, <2>6 DEF From, Good, Going
<1>5. CASE stage = "followUp" /\ ~again
  <2>2. AfterPoll(r, stage, polled) = Flushing(s, "idle")
    BY <1>5 DEF AfterPoll
  <2> HIDE DEF s
  <2>1. /\ From(Flushing(s, "idle"), s) /\ Flushing(s, "idle").stage = s.stage
        /\ Going(Flushing(s, "idle"))
    BY <1>1, <1>5, FlushingGood DEF Late, Ahead, Going
  <2> QED BY <1>1, <2>1, <2>2 DEF From
<1> QED BY <1>2, <1>3, <1>4, <1>5

\* and the report of a failure.
LEMMA FailedGood ==
    ASSUME NEW r \in RunRecord
    PROVE  /\ Good(Failed(r)) /\ Failed(r).parent = 0 /\ Failed(r).failing \in {1, 2}
           /\ ~Ends(Failed(r)) /\ FailingShape(Failed(r))
           /\ Failed(r).pc \in {"append", "flush", "final"}
<1>1. CASE r.failing = 0
  <2>1. /\ <<"failure">> \in Seq(Entries) /\ <<"failure">> # <<>>
        /\ <<"failure">> \in Seq(Said)
    BY MessagesAreEntries DEF Said
  <2> DEFINE s == [Idle EXCEPT !.pc = "append", !.todo = <<"failure">>, !.then = "turnEnd",
                              !.failing = 1]
  <2>2. "append" \in PCs /\ "turnEnd" \in PCs
    BY DEF PCs
  <2>3. s \in RunRecord
    <3>1. Idle \in RunRecord /\ 1 \in 0..2
      BY IdleGood DEF Good
    <3> QED BY <2>1, <2>2, <3>1, Updated
  <2>4. /\ s.pc = "append" /\ s.then = "turnEnd" /\ s.failing = 1 /\ s.todo # <<>>
        /\ s.parent = 0 /\ s.todo \in Seq(Said)
    BY <2>1 DEF Idle
  <2>5. RunShape(s)
    <3> HIDE DEF s
    <3> QED BY <2>4 DEF RunShape, Behind
  <2>6. Failed(r) = s
    BY <1>1 DEF Failed
  <2> HIDE DEF s
  <2> QED BY <2>3, <2>4, <2>5, <2>6 DEF Good, Ends, FailingShape
<1>2. CASE r.failing # 0
  <2> DEFINE s == [Idle EXCEPT !.failing = 2]
  <2>1. s \in RunRecord
    <3>1. Idle \in RunRecord /\ 2 \in 0..2
      BY IdleGood DEF Good
    <3>2. "off" \in PCs /\ <<>> \in Seq(Entries)
      BY DEF PCs
    <3> QED BY <3>1, <3>2, Updated
  <2>5. s.failing = 2 /\ s.parent = 0
    BY DEF Idle
  <2>2. Failed(r) = Flushing(s, "final")
    BY <1>2 DEF Failed
  <2>3. /\ From(Flushing(s, "final"), s) /\ Flushing(s, "final").pc \in {"flush", "final"}
        /\ Flushing(s, "final").pc = "flush" => Flushing(s, "final").then = "final"
    <3> HIDE DEF s
    <3> QED BY <2>1, <2>5, FlushingGood DEF Late
  <2> HIDE DEF s
  <2> QED BY <2>5, <2>2, <2>3 DEF From, Ends, FailingShape
<1> QED BY <1>1, <1>2

\* A call that settles leaves no local state.
LEMMA IdleIsGood ==
    ASSUME NEW pc \in {"done", "rejected"}
    PROVE  Good([Idle EXCEPT !.pc = pc]) /\ [Idle EXCEPT !.pc = pc].parent = 0
<1> DEFINE s == [Idle EXCEPT !.pc = pc]
<1>1. s \in RunRecord
  <2>1. Idle \in RunRecord /\ pc \in PCs
    BY IdleGood DEF Good, PCs
  <2> QED BY <2>1 DEF RunRecord
<1>2. s.pc = pc /\ s.parent = 0
  BY DEF Idle
<1>3. RunShape(s)
  <2> HIDE DEF s
  <2> QED BY <1>2 DEF RunShape
<1> QED BY <1>1, <1>2, <1>3 DEF Good

-----------------------------------------------------------------------------
(* Types.                                                                  *)

\* A commit adds an entry and moves the leaf to it.
LEMMA CommitTyped ==
    ASSUME SessionTypes, NEW what \in Entries, NEW parent \in 0..Len(tree), Commit(what, parent)
    PROVE  /\ SessionTypes' /\ Len(tree) <= Len(tree')
           /\ Len(tree') = Len(tree) + 1 /\ leaf' = Len(tree')
           /\ \A i \in 1..Len(tree) : tree'[i] = tree[i]
           /\ tree'[Len(tree')] = [what |-> what, parent |-> parent]
<1> DEFINE e == [what |-> what, parent |-> parent]
<1>1. e \in Node /\ e.parent = parent
  BY DEF SessionTypes, Node
<1>2. tree' = Append(tree, e) /\ leaf' = Len(tree) + 1 /\ tree \in Seq(Node) /\ Len(tree) \in Nat
  BY DEF Commit, SessionTypes
<1> HIDE DEF e
<1>3. /\ tree' \in Seq(Node) /\ Len(tree') = Len(tree) + 1 /\ tree'[Len(tree) + 1] = e
      /\ \A i \in 1..Len(tree) : tree'[i] = tree[i]
  BY <1>1, <1>2
<1>4. \A i \in 1..Len(tree') : tree'[i].parent \in 0..(i - 1)
  BY <1>1, <1>2, <1>3 DEF SessionTypes
<1> QED BY <1>2, <1>3, <1>4 DEF SessionTypes, e

\* The run that takes a step is in good shape behind it, and the others are as they were.
LEMMA RunsTyped ==
    ASSUME Types, SessionTypes', Len(tree) <= Len(tree'),
           NEW p \in Prompts, NEW r, Set(p, r), Good(r), r.parent \in 0..Len(tree')
    PROVE  RunTypes' /\ run'[p] = r /\ \A q \in Prompts \ {p} : run'[q] = run[q]
<1>1. run' = [run EXCEPT ![p] = r] /\ run \in [Prompts -> RunRecord] /\ r \in RunRecord
  BY DEF Set, Types, RunTypes, Good
<1>2. run' \in [Prompts -> RunRecord] /\ run'[p] = r /\ \A q \in Prompts \ {p} : run'[q] = run[q]
  BY <1>1
<1>3. Len(tree) \in Nat /\ Len(tree') \in Nat
  BY DEF Types, SessionTypes
<1>4. ASSUME NEW q \in Prompts
      PROVE  RunShape(run'[q]) /\ run'[q].parent \in 0..Len(tree')
  <2>1. CASE q = p
    BY <1>2, <2>1 DEF Good
  <2>2. CASE q # p
    <3>1. run'[q] = run[q] /\ RunShape(run[q]) /\ run[q].parent \in 0..Len(tree)
      BY <1>2, <2>2 DEF Types, RunTypes
    <3> QED BY <1>3, <3>1
  <2> QED BY <2>1, <2>2
<1> QED BY <1>2, <1>4 DEF RunTypes

\* The calls do not look at what is new in the session.
LEMMA CallsTyped ==
    ASSUME Types, SessionTypes', Len(tree) <= Len(tree'), UNCHANGED calls
    PROVE  CallTypes'
<1>1. Len(tree) \in Nat /\ Len(tree') \in Nat
  BY DEF Types, SessionTypes
<1> QED BY <1>1 DEF Types, CallTypes, calls

\* A run that throws.
LEMMA RunThrowsTyped ==
    ASSUME Types, SessionTypes', Len(tree) <= Len(tree'), NEW p \in Prompts, RunThrows(p)
    PROVE  RunTypes' /\ dropped' \subseteq Messages /\ throws' \in 0..MaxThrows
<1>1. run[p] \in RunRecord
  BY DEF Types, RunTypes
<1>2. Good(Failed(run[p])) /\ Failed(run[p]).parent = 0
  BY <1>1, FailedGood
<1>3. Failed(run[p]).parent \in 0..Len(tree')
  BY <1>2 DEF SessionTypes
<1>4. RunTypes'
  BY <1>2, <1>3, RunsTyped DEF RunThrows
<1>5. dropped' \subseteq Messages
  BY DEF RunThrows, Carried, Types, MarkTypes
<1>6. throws' \in 0..MaxThrows
  BY AgentHarnessAssumption DEF RunThrows, Throw, Types, MarkTypes
<1> QED BY <1>4, <1>5, <1>6

\* A step of the run that leaves the session alone.
LEMMA RunStepTyped ==
    ASSUME Types, UNCHANGED session, NEW p \in Prompts, NEW r, Set(p, r), Good(r),
           r.parent \in {0, run[p].parent, leaf}
    PROVE  RunTypes' /\ SessionTypes'
<1>1. SessionTypes' /\ Len(tree) <= Len(tree') /\ Len(tree) \in Nat /\ tree' = tree
  BY DEF Types, SessionTypes, session
<1>2. r.parent \in 0..Len(tree')
  BY <1>1 DEF Types, SessionTypes, RunTypes
<1> QED BY <1>1, <1>2, RunsTyped

-----------------------------------------------------------------------------
(* The branches of the session.                                            *)

\* The branches of all entries of a tree, as Path defines them.
PathOf(t) ==
    CHOOSE path : path = [j \in 0..Len(t) |-> IF j = 0 THEN <<>> ELSE Append(path[t[j].parent], t[j].what)]

Trees == {t \in Seq(Node) : \A i \in 1..Len(t) : t[i].parent \in 0..(i - 1)}

\* A branch of the session is one of its tree.
LEMMA PathIsPathOf == \A i : Path(i) = PathOf(tree)[i]
BY DEF Path, PathOf

Parents(t) == [j \in 1..Len(t) |-> t[j].parent]
Appends(t) == [j \in 1..Len(t) |-> [s \in Seq(Entries) |-> Append(s, t[j].what)]]

\* There are such branches, and each is a sequence of entries.
LEMMA PathOfExists ==
    ASSUME NEW t \in Trees
    PROVE  /\ PathOf(t) \in [0..Len(t) -> Seq(Entries)]
           /\ PathOf(t)[0] = <<>>
           /\ \A j \in 1..Len(t) : PathOf(t)[j] = Append(PathOf(t)[t[j].parent], t[j].what)
           /\ Recursive(PathOf(t), Len(t), <<>>, Parents(t), Appends(t))
<1>1. t \in Seq(Node) /\ Len(t) \in Nat /\ \A j \in 1..Len(t) : t[j].parent \in 0..(j - 1)
  BY DEF Trees
<1>2. \A j \in 1..Len(t) : t[j].what \in Entries
  <2>1. \A j \in 1..Len(t) : t[j] \in Node
    BY <1>1
  <2> QED BY <2>1 DEF Node
<1>3. \A j \in 1..Len(t) : Parents(t)[j] = t[j].parent
  BY DEF Parents
<1>4. \A j \in 1..Len(t), s \in Seq(Entries) :
          Appends(t)[j][s] = Append(s, t[j].what) /\ Append(s, t[j].what) \in Seq(Entries)
  BY <1>2 DEF Appends
<1>5. PICK f \in [0..Len(t) -> Seq(Entries)] : Recursive(f, Len(t), <<>>, Parents(t), Appends(t))
  <2>1. <<>> \in Seq(Entries)
    OBVIOUS
  <2>2. \A j \in 1..Len(t) : Parents(t)[j] \in 0..(j - 1)
    BY <1>1, <1>3
  <2>3. \A j \in 1..Len(t), s \in Seq(Entries) : Appends(t)[j][s] \in Seq(Entries)
    BY <1>4
  <2> QED BY <1>1, <2>1, <2>2, <2>3, RecursionExists
<1> DEFINE step(path) == [j \in 0..Len(t) |-> IF j = 0 THEN <<>> ELSE Append(path[t[j].parent], t[j].what)]
<1>6. ASSUME NEW j \in 0..Len(t)
      PROVE  f[j] = IF j = 0 THEN <<>> ELSE Append(f[t[j].parent], t[j].what)
  <2>1. f[j] = IF j = 0 THEN <<>> ELSE Appends(t)[j][f[Parents(t)[j]]]
    BY <1>5 DEF Recursive
  <2>2. CASE j = 0
    BY <2>1, <2>2
  <2>3. CASE j # 0
    <3>1. j \in 1..Len(t) /\ Parents(t)[j] = t[j].parent /\ t[j].parent \in 0..Len(t)
      BY <1>1, <1>3, <2>3
    <3>2. f[t[j].parent] \in Seq(Entries)
      BY <3>1
    <3> QED BY <1>4, <2>1, <2>3, <3>1, <3>2
  <2> QED BY <2>2, <2>3
<1>7. f = step(f)
  <2>1. f = [j \in 0..Len(t) |-> f[j]]
    OBVIOUS
  <2> QED BY <1>6, <2>1
<1>8. PathOf(t) = step(PathOf(t))
  BY <1>7 DEF PathOf
<1> DEFINE g == PathOf(t)
<1>9. \A j \in 0..Len(t) : g[j] = IF j = 0 THEN <<>> ELSE Append(g[t[j].parent], t[j].what)
  <2> HIDE DEF g
  <2> QED BY <1>8 DEF g
<1>10. \A j \in 0..Len(t) : g[j] = f[j]
  <2> DEFINE T == {k \in 0..Len(t) : g[k] # f[k]}
  <2> SUFFICES ASSUME T # {} PROVE FALSE
    OBVIOUS
  <2>1. PICK k \in T : \A j \in T : k <= j
    <3>1. T \in SUBSET Nat /\ T # {}
      OBVIOUS
    <3> HIDE DEF T
    <3> QED BY <3>1, Least
  <2>2. k # 0
    BY <1>6, <1>9, <2>1
  <2>3. t[k].parent \in 0..(k - 1) /\ t[k].parent \in 0..Len(t)
    BY <1>1, <2>1, <2>2
  <2>4. g[t[k].parent] = f[t[k].parent]
    BY <2>1, <2>3
  <2> QED BY <1>6, <1>9, <2>1, <2>2, <2>4
<1>11. DOMAIN g = 0..Len(t) /\ g = [j \in 0..Len(t) |-> g[j]]
  <2> HIDE DEF g
  <2> QED BY <1>8 DEF g
<1>12. g = f
  <2> HIDE DEF g
  <2> QED BY <1>10, <1>11
<1>13. 0 \in 0..Len(t) /\ \A j \in 1..Len(t) : j \in 0..Len(t) /\ j # 0
  BY <1>1
<1> QED BY <1>5, <1>6, <1>12, <1>13

\* A new entry leaves the branches of the others as they are.
LEMMA PathOfAppend ==
    ASSUME NEW t \in Trees, NEW u \in Trees, Len(u) = Len(t) + 1,
           \A j \in 1..Len(t) : u[j] = t[j]
    PROVE  /\ \A j \in 0..Len(t) : PathOf(u)[j] = PathOf(t)[j]
           /\ PathOf(u)[Len(u)] = Append(PathOf(t)[u[Len(u)].parent], u[Len(u)].what)
<1>1. t \in Seq(Node) /\ u \in Seq(Node) /\ Len(t) \in Nat /\ Len(u) \in Nat
  BY DEF Trees
<1>2. /\ Recursive(PathOf(t), Len(t), <<>>, Parents(t), Appends(t))
      /\ Recursive(PathOf(u), Len(u), <<>>, Parents(u), Appends(u))
      /\ PathOf(t) \in [0..Len(t) -> Seq(Entries)]
  BY PathOfExists
<1>3. \A j \in 1..Len(t) : Parents(t)[j] \in 0..(j - 1) /\ Parents(u)[j] = Parents(t)[j]
  BY <1>1 DEF Parents, Trees
<1>4. ASSUME NEW j \in 1..Len(t)
      PROVE  Appends(u)[j][PathOf(t)[Parents(t)[j]]] = Appends(t)[j][PathOf(t)[Parents(t)[j]]]
  <2>1. j \in 1..Len(u) /\ u[j] = t[j]
    BY <1>1
  <2>2. Appends(u)[j] = Appends(t)[j]
    BY <2>1 DEF Appends
  <2> QED BY <2>2
<1>5. \A j \in 0..Len(t) : PathOf(u)[j] = PathOf(t)[j]
  <2>1. Len(t) <= Len(u)
    BY <1>1
  <2> DEFINE n == Len(t)
             m == Len(u)
             first == <<>>
             f == PathOf(t)
             g == PathOf(u)
             before == Parents(t)
             later == Parents(u)
             step == Appends(t)
             move == Appends(u)
  <2>2. n \in Nat /\ m \in Nat /\ n <= m
    BY <1>1, <2>1
  <2>3. Recursive(f, n, first, before, step) /\ Recursive(g, m, first, later, move)
    BY <1>2
  <2>4. \A j \in 1..n : before[j] \in 0..(j - 1) /\ later[j] = before[j]
    BY <1>3
  <2>5. \A j \in 1..n : move[j][f[before[j]]] = step[j][f[before[j]]]
    BY <1>4
  <2> HIDE DEF n, m, first, f, g, before, later, step, move
  <2>6. \A j \in 0..n : g[j] = f[j]
    BY <2>2, <2>3, <2>4, <2>5, RecursionAgrees
  <2> QED BY <2>6 DEF n, f, g
<1>6. Len(u) \in 1..Len(u) /\ u[Len(u)].parent \in 0..Len(t)
  BY <1>1 DEF Trees
<1> QED BY <1>5, <1>6, PathOfExists

\* The branch shown is one of entries.
LEMMA ShownTyped == SessionTypes => Shown \in Seq(Entries)
<1> SUFFICES ASSUME SessionTypes PROVE Shown \in Seq(Entries)
  OBVIOUS
<1>1. tree \in Trees /\ leaf \in 0..Len(tree)
  BY DEF SessionTypes, Trees
<1>2. Shown = PathOf(tree)[leaf]
  BY PathIsPathOf DEF Shown
<1> QED BY <1>1, <1>2, PathOfExists

\* A commit at the leaf shows one entry more.
LEMMA CommitShows ==
    ASSUME SessionTypes, NEW what \in Entries, Commit(what, leaf)
    PROVE  Shown' = Append(Shown, what)
<1>1. tree \in Trees /\ leaf \in 0..Len(tree)
  BY DEF SessionTypes, Trees
<1>2. /\ SessionTypes' /\ Len(tree') = Len(tree) + 1 /\ leaf' = Len(tree')
      /\ \A i \in 1..Len(tree) : tree'[i] = tree[i]
      /\ tree'[Len(tree')] = [what |-> what, parent |-> leaf]
  BY <1>1, CommitTyped
<1>3. tree' \in Trees
  BY <1>2 DEF SessionTypes, Trees
<1>4. Shown = PathOf(tree)[leaf]
  BY PathIsPathOf DEF Shown
<1>5. Shown' = PathOf(tree')[leaf']
  BY DEF Shown, Path, PathOf
<1> QED BY <1>1, <1>2, <1>3, <1>4, <1>5, PathOfAppend

-----------------------------------------------------------------------------
(* The steps of a run keep the types.                                      *)

\* What is left alone keeps its types.
LEMMA Frames ==
    ASSUME Types
    PROVE  /\ UNCHANGED pendings => WriteTypes'
           /\ UNCHANGED queues => QueueTypes'
           /\ UNCHANGED slots => SlotTypes'
           /\ UNCHANGED <<phase, marks, throws>> => MarkTypes'
           /\ UNCHANGED session => SessionTypes' /\ Len(tree) <= Len(tree')
           /\ UNCHANGED <<session, calls>> => CallTypes'
<1>1. UNCHANGED session => SessionTypes' /\ Len(tree) <= Len(tree')
  BY DEF Types, SessionTypes, session
<1>2. UNCHANGED <<session, calls>> => CallTypes'
  BY <1>1, CallsTyped
<1>3. UNCHANGED queues => QueueTypes'
  BY DEF Types, QueueTypes, queues
<1>4. UNCHANGED pendings => WriteTypes'
  BY DEF Types, WriteTypes, pendings
<1>5. UNCHANGED slots => SlotTypes'
  BY DEF Types, SlotTypes, slots
<1>6. UNCHANGED <<phase, marks, throws>> => MarkTypes'
  BY DEF Types, MarkTypes, marks
<1> QED BY <1>1, <1>2, <1>3, <1>4, <1>5, <1>6

\* A run that only goes on to another place.
LEMMA GoneTo ==
    ASSUME NEW r \in RunRecord, NEW pc \in PCs, NEW s, s = [r EXCEPT !.pc = pc]
    PROVE  /\ s \in RunRecord /\ s.pc = pc /\ s.then = r.then /\ s.todo = r.todo
           /\ s.polled = r.polled /\ s.context = r.context /\ s.parent = r.parent
           /\ s.stage = r.stage /\ s.failing = r.failing
BY DEF RunRecord

\* The locals of a run.
LEMMA RunOf ==
    ASSUME Types, NEW p \in Prompts
    PROVE  run[p] \in RunRecord /\ RunShape(run[p]) /\ run[p].parent \in 0..Len(tree)
BY DEF Types, RunTypes

\* Types are kept by a rejection before the loop.
LEMMA RejectTyped ==
    ASSUME Types, UNCHANGED session, NEW p \in Prompts, Reject(p)
    PROVE  RunTypes' /\ runPromise' = NoPrompt /\ phase' = "idle"
<1> DEFINE s == [Idle EXCEPT !.pc = "rejected"]
<1>1. Good(s) /\ s.parent = 0
  BY IdleIsGood
<1>2. Set(p, s)
  BY DEF Reject, Leave
<1> HIDE DEF s
<1> QED BY <1>1, <1>2, RunStepTyped DEF Reject

\* Types are kept by the first step of prompt().
LEMMA PromptTyped ==
    ASSUME Types, NEW p \in Prompts, Prompt(p)
    PROVE  Types'
<1> USE DEF Prompt
<1> DEFINE s == [run[p] EXCEPT !.pc = "snapshot"]
<1>1. "snapshot" \in PCs /\ run[p] \in RunRecord /\ RunShape(run[p]) /\ run[p].pc = "off"
  BY RunOf DEF PCs, At
<1>2. s \in RunRecord /\ s.pc = "snapshot" /\ s.stage = run[p].stage /\ s.parent = run[p].parent
  BY <1>1, GoneTo
<1>3. Set(p, s)
  BY DEF Goto
<1> HIDE DEF s
<1>4. Good(s)
  BY <1>1, <1>2 DEF Good, RunShape
<1>5. UNCHANGED session
  OBVIOUS
<1>6. RunTypes'
  BY <1>2, <1>3, <1>4, <1>5, RunStepTyped
<1>7. MarkTypes' /\ SlotTypes'
  BY DEF Types, MarkTypes, SlotTypes, marks, bounds
<1> QED BY <1>5, <1>6, <1>7, Frames DEF Types

\* Types are kept by the snapshot of the session.
LEMMA SnapshotTyped ==
    ASSUME Types, NEW p \in Prompts, Snapshot(p)
    PROVE  Types'
<1> USE DEF Snapshot
<1>1. UNCHANGED session /\ UNCHANGED calls /\ UNCHANGED pendings /\ UNCHANGED cleared
      /\ steerQueue' = steerQueue /\ followUpQueue' = followUpQueue /\ generation' = generation
  OBVIOUS
<1>2. run[p] \in RunRecord /\ RunShape(run[p]) /\ run[p].pc = "snapshot"
  BY RunOf DEF At
<1>3. CASE Set(p, [run[p] EXCEPT !.context = Shown, !.polled = nextTurnQueue,
                        !.pc = IF nextTurnQueue = <<>> THEN "hook" ELSE "announce"])
           /\ nextTurnQueue' = <<>> /\ UNCHANGED <<phase, slots, bounds, dropped>>
  <2> DEFINE to == IF nextTurnQueue = <<>> THEN "hook" ELSE "announce"
             s == [run[p] EXCEPT !.context = Shown, !.polled = nextTurnQueue, !.pc = to]
  <2>1. to \in {"hook", "announce"} /\ {"hook", "announce"} \subseteq PCs
    BY DEF PCs
  <2>2. Shown \in Seq(Entries) /\ nextTurnQueue \in Seq(Messages) /\ nextTurnQueue \in Seq(NextTurns)
    BY ShownTyped, MessagesAreEntries DEF Types, QueueTypes
  <2>3. Set(p, s)
    BY <1>3
  <2> HIDE DEF to
  <2>4. /\ s \in RunRecord /\ s.pc = to /\ s.polled = nextTurnQueue /\ s.stage = run[p].stage
        /\ s.parent = run[p].parent
    BY <1>2, <2>1, <2>2 DEF RunRecord
  <2> HIDE DEF s
  <2>5. Good(s)
    BY <1>2, <2>1, <2>2, <2>4 DEF Good, RunShape
  <2>6. RunTypes'
    BY <1>1, <2>3, <2>4, <2>5, RunStepTyped
  <2>7. MarkTypes' /\ SlotTypes' /\ QueueTypes'
    BY <1>1, <1>3 DEF Types, MarkTypes, SlotTypes, QueueTypes, slots, bounds
  <2> QED BY <1>1, <2>6, <2>7, Frames DEF Types
<1>4. CASE Throw /\ Reject(p) /\ dropped' = dropped \cup {p} /\ UNCHANGED <<nextTurnQueue, runAbortController>>
  <2>1. RunTypes' /\ runPromise' = NoPrompt /\ phase' = "idle"
    BY <1>1, <1>4, RejectTyped
  <2>2. MarkTypes' /\ SlotTypes' /\ QueueTypes'
    BY <1>1, <1>4, <2>1, AgentHarnessAssumption, MessagesAreEntries
    DEF Types, MarkTypes, SlotTypes, QueueTypes, Throw
  <2> QED BY <1>1, <2>1, <2>2, Frames DEF Types
<1> QED BY <1>3, <1>4

\* Types are kept by the announcement of the taken nextTurn queue.
LEMMA AnnounceNextTurnTyped ==
    ASSUME Types, NEW p \in Prompts, AnnounceNextTurn(p)
    PROVE  Types'
<1> USE DEF AnnounceNextTurn
<1>1. UNCHANGED session /\ UNCHANGED calls /\ UNCHANGED pendings /\ UNCHANGED cleared
      /\ steerQueue' = steerQueue /\ followUpQueue' = followUpQueue /\ generation' = generation
  OBVIOUS
<1>2. run[p] \in RunRecord /\ RunShape(run[p]) /\ run[p].pc = "announce"
  BY RunOf DEF At
<1>3. CASE Goto(p, "hook") /\ UNCHANGED <<phase, slots, bounds, nextTurnQueue, dropped>>
  <2> DEFINE s == [run[p] EXCEPT !.pc = "hook"]
  <2>1. "hook" \in PCs /\ Set(p, s)
    BY <1>3 DEF PCs, Goto
  <2>2. /\ s \in RunRecord /\ s.pc = "hook" /\ s.stage = run[p].stage /\ s.parent = run[p].parent
        /\ s.polled = run[p].polled
    BY <1>2, <2>1, GoneTo
  <2> HIDE DEF s
  <2>3. Good(s)
    BY <1>2, <2>2 DEF Good, RunShape
  <2>4. RunTypes'
    BY <1>1, <2>1, <2>2, <2>3, RunStepTyped
  <2>5. MarkTypes' /\ SlotTypes' /\ QueueTypes'
    BY <1>1, <1>3 DEF Types, MarkTypes, SlotTypes, QueueTypes, slots, bounds
  <2> QED BY <1>1, <2>4, <2>5, Frames DEF Types
<1>4. CASE /\ Throw /\ Reject(p) /\ nextTurnQueue' = run[p].polled \o nextTurnQueue
           /\ dropped' = dropped \cup {p} /\ UNCHANGED runAbortController
  <2>1. RunTypes' /\ runPromise' = NoPrompt /\ phase' = "idle"
    BY <1>1, <1>4, RejectTyped
  <2>2. run[p].polled \in Seq(NextTurns)
    BY <1>2 DEF RunShape
  <2>3. QueueTypes'
    BY <1>1, <1>4, <2>2 DEF Types, QueueTypes
  <2>4. MarkTypes' /\ SlotTypes'
    BY <1>1, <1>4, <2>1, AgentHarnessAssumption, MessagesAreEntries
    DEF Types, MarkTypes, SlotTypes, Throw
  <2> QED BY <1>1, <2>1, <2>3, <2>4, Frames DEF Types
<1> QED BY <1>3, <1>4

\* Types are kept by before_agent_start.
LEMMA BeforeAgentStartTyped ==
    ASSUME Types, NEW p \in Prompts, BeforeAgentStart(p)
    PROVE  Types'
<1> USE DEF BeforeAgentStart
<1>1. UNCHANGED session /\ UNCHANGED calls /\ UNCHANGED pendings /\ UNCHANGED cleared /\ UNCHANGED queues
  OBVIOUS
<1>2. run[p] \in RunRecord /\ RunShape(run[p]) /\ run[p].pc = "hook"
  BY RunOf DEF At
<1>3. CASE Set(p, [run[p] EXCEPT !.pc = "append", !.then = "poll", !.polled = <<>>,
                        !.todo = Append(run[p].polled, p)])
           /\ runAbortController' = p /\ UNCHANGED <<phase, runPromise, bounds, dropped>>
  <2> DEFINE todo == Append(run[p].polled, p)
             none == <<>>
             s == [run[p] EXCEPT !.pc = "append", !.then = "poll", !.polled = none, !.todo = todo]
  <2>1. Set(p, s)
    BY <1>3
  <2>2. run[p].polled \in Seq(Messages) /\ p \in Messages
    BY <1>2, MessagesAreEntries DEF RunRecord
  <2>3. todo \in Seq(Messages) /\ todo # <<>>
    BY <2>2
  <2>4. todo \in Seq(Said) /\ todo \in Seq(Entries) /\ none \in Seq(Messages)
    BY <2>3, MessagesAreEntries DEF Said
  <2>5. "append" \in PCs /\ "poll" \in PCs
    BY DEF PCs
  <2> HIDE DEF todo, none
  <2>6. s \in RunRecord
    BY <1>2, <2>4, <2>5 DEF RunRecord
  <2>7. /\ s.pc = "append" /\ s.then = "poll" /\ s.todo = todo /\ s.stage = run[p].stage
        /\ s.parent = run[p].parent
    BY <1>2 DEF RunRecord
  <2> HIDE DEF s
  <2>8. Good(s)
    BY <1>2, <2>3, <2>4, <2>6, <2>7 DEF Good, RunShape, Ahead
  <2>9. RunTypes'
    BY <1>1, <2>1, <2>7, <2>8, RunStepTyped
  <2>10. MarkTypes' /\ SlotTypes'
    BY <1>1, <1>3 DEF Types, MarkTypes, SlotTypes, bounds
  <2> QED BY <1>1, <2>9, <2>10, Frames DEF Types
<1>4. CASE /\ Throw /\ Reject(p) /\ dropped' = dropped \cup Range(run[p].polled) \cup {p}
           /\ UNCHANGED runAbortController
  <2>1. RunTypes' /\ runPromise' = NoPrompt /\ phase' = "idle"
    BY <1>1, <1>4, RejectTyped
  <2>2. Range(run[p].polled) \subseteq Messages
    BY <1>2 DEF RunRecord, Range
  <2>3. MarkTypes' /\ SlotTypes'
    BY <1>1, <1>4, <2>1, <2>2, AgentHarnessAssumption, MessagesAreEntries
    DEF Types, MarkTypes, SlotTypes, Throw
  <2> QED BY <1>1, <2>1, <2>3, Frames DEF Types
<1> QED BY <1>3, <1>4

\* Types are kept by an append that reads the leaf.
LEMMA ReadLeafTyped ==
    ASSUME Types, NEW p \in Prompts, ReadLeaf(p)
    PROVE  Types'
<1> USE DEF ReadLeaf
<1> DEFINE s == [run[p] EXCEPT !.pc = "commit", !.parent = leaf]
<1>1. UNCHANGED <<session, pendings, queues, slots, calls, marks, phase, throws>> /\ Set(p, s)
  BY DEF bounds
<1>2. run[p] \in RunRecord /\ RunShape(run[p]) /\ run[p].pc = "append" /\ "commit" \in PCs
  BY RunOf DEF At, PCs
<1>3. leaf \in Nat
  BY DEF Types, SessionTypes
<1>4. /\ s \in RunRecord /\ s.pc = "commit" /\ s.then = run[p].then /\ s.todo = run[p].todo
      /\ s.stage = run[p].stage /\ s.failing = run[p].failing /\ s.parent = leaf
  BY <1>2, <1>3 DEF RunRecord
<1> HIDE DEF s
<1>5. Good(s)
  BY <1>2, <1>4 DEF Good, RunShape, Ahead, Behind
<1>6. RunTypes'
  BY <1>1, <1>4, <1>5, RunStepTyped
<1> QED BY <1>1, <1>6, Frames DEF Types

\* What a run that emits a message is behind it.
Emitted(r) ==
    LET rest == Tail(r.todo)
    IN  [r EXCEPT !.todo = rest, !.context = Append(@, Head(r.todo)),
                  !.parent = 0, !.pc = IF rest = <<>> THEN r.then ELSE "append",
                  !.then = IF rest = <<>> THEN "off" ELSE @]

\* A message emitted.
LEMMA EmittedGood ==
    ASSUME NEW r \in RunRecord, RunShape(r), r.pc = "commit"
    PROVE  /\ Good(Emitted(r)) /\ Emitted(r).parent = 0
           /\ Emitted(r).stage = r.stage /\ Emitted(r).failing = r.failing
           /\ Emitted(r).pc \in {"append", "poll", "model", "turnEnd"}
           /\ Emitted(r).then \in {"off", r.then}
           /\ Emitted(r).context = Append(r.context, Head(r.todo))
           /\ Head(r.todo) \in Said /\ Head(r.todo) \in Entries
<1> DEFINE rest == Tail(r.todo)
           pc == IF rest = <<>> THEN r.then ELSE "append"
           then == IF rest = <<>> THEN "off" ELSE r.then
           context == Append(r.context, Head(r.todo))
           s == [r EXCEPT !.todo = rest, !.context = context, !.parent = 0, !.pc = pc, !.then = then]
<1>1. r.todo \in Seq(Said) /\ r.todo # <<>> /\ r.todo \in Seq(Entries) /\ r.context \in Seq(Entries)
  BY DEF RunShape, RunRecord
<1>2. rest \in Seq(Said) /\ rest \in Seq(Entries) /\ Head(r.todo) \in Said /\ Head(r.todo) \in Entries
  BY <1>1
<1>3. context \in Seq(Entries)
  BY <1>1, <1>2
<1>4. pc \in {"append", "poll", "model", "turnEnd"} /\ then \in {"off", r.then} /\ {pc, then} \subseteq PCs
  BY DEF PCs, RunShape, RunRecord
<1>5. s = Emitted(r)
  BY DEF Emitted
<1>6. pc = "append" => rest # <<>> /\ then = r.then
  BY DEF RunShape
<1>7. pc # "append" => pc = r.then
  OBVIOUS
<1> HIDE DEF pc, then, rest, context
<1>8. s \in RunRecord
  BY <1>2, <1>3, <1>4 DEF RunRecord
<1>9. /\ s.pc = pc /\ s.then = then /\ s.todo = rest /\ s.parent = 0 /\ s.stage = r.stage
      /\ s.failing = r.failing /\ s.context = context
  BY DEF RunRecord
<1> HIDE DEF s
<1>10. RunShape(s)
  BY <1>2, <1>4, <1>6, <1>7, <1>9 DEF RunShape, Ahead, Behind
<1> QED BY <1>2, <1>4, <1>5, <1>8, <1>9, <1>10 DEF Good, context

\* Types are kept by message_end.
LEMMA EmitMessageTyped ==
    ASSUME Types, NEW p \in Prompts, EmitMessage(p)
    PROVE  Types'
<1>1. run[p] \in RunRecord /\ RunShape(run[p]) /\ run[p].pc = "commit" /\ run[p].parent \in 0..Len(tree)
  BY RunOf DEF At, EmitMessage
<1>2. /\ Good(Emitted(run[p])) /\ Emitted(run[p]).parent = 0 /\ Head(run[p].todo) \in Entries
  BY <1>1, EmittedGood
<1>3. UNCHANGED <<phase, pendings, queues, slots, calls, cleared>>
  BY DEF EmitMessage
<1>4. CASE Commit(Head(run[p].todo), run[p].parent) /\ Set(p, Emitted(run[p])) /\ UNCHANGED <<bounds, dropped>>
  <2>1. SessionTypes' /\ Len(tree) <= Len(tree')
    <3>1. SessionTypes
      BY DEF Types
    <3> QED BY <1>1, <1>2, <1>4, <3>1, CommitTyped
  <2>2. 0 \in 0..Len(tree')
    BY <2>1 DEF SessionTypes
  <2>3. RunTypes'
    BY <1>2, <1>4, <2>1, <2>2, RunsTyped
  <2>4. CallTypes'
    BY <1>3, <2>1, CallsTyped
  <2>5. UNCHANGED <<phase, marks, throws>>
    BY <1>3, <1>4 DEF marks, bounds
  <2> QED BY <1>3, <2>1, <2>3, <2>4, <2>5, Frames DEF Types
<1>5. CASE /\ RunThrows(p)
           /\ Commit(Head(run[p].todo), run[p].parent) \/ UNCHANGED session
  <2>1. SessionTypes' /\ Len(tree) <= Len(tree')
    <3>1. CASE UNCHANGED session
      BY <3>1, Frames
    <3>2. CASE Commit(Head(run[p].todo), run[p].parent)
      <4>1. SessionTypes
        BY DEF Types
      <4> QED BY <1>1, <1>2, <3>2, <4>1, CommitTyped
    <3> QED BY <1>5, <3>1, <3>2
  <2>2. RunTypes' /\ dropped' \subseteq Messages /\ throws' \in 0..MaxThrows
    BY <1>5, <2>1, RunThrowsTyped
  <2>3. MarkTypes'
    BY <1>3, <2>2 DEF Types, MarkTypes
  <2>4. CallTypes'
    BY <1>3, <2>1, CallsTyped
  <2> QED BY <1>3, <2>1, <2>2, <2>3, <2>4, Frames DEF Types
<1>6. Set(p, Emitted(run[p])) \/ RunThrows(p)
  BY DEF EmitMessage, Emitted
<1> QED BY <1>4, <1>5 DEF EmitMessage, Emitted

\* A run that throws where the session is not touched.
LEMMA ThrowTyped ==
    ASSUME Types, NEW p \in Prompts, RunThrows(p),
           UNCHANGED <<phase, session, pendings, queues, slots, calls, cleared>>
    PROVE  Types'
<1>1. UNCHANGED session /\ SessionTypes' /\ Len(tree) <= Len(tree')
  BY Frames
<1>2. RunTypes' /\ dropped' \subseteq Messages /\ throws' \in 0..MaxThrows
  BY <1>1, RunThrowsTyped
<1>3. MarkTypes'
  BY <1>2 DEF Types, MarkTypes
<1> QED BY <1>1, <1>2, <1>3, Frames DEF Types

\* A step of a run that only sets its locals.
LEMMA LocalTyped ==
    ASSUME Types, NEW p \in Prompts, NEW r, Set(p, r), Good(r), r.parent \in {0, run[p].parent, leaf},
           UNCHANGED <<phase, session, pendings, queues, slots, calls, marks, bounds>>
    PROVE  Types'
<1>1. UNCHANGED session /\ UNCHANGED <<phase, marks, throws>>
  BY DEF bounds
<1>2. RunTypes' /\ SessionTypes'
  BY <1>1, RunStepTyped
<1> QED BY <1>1, <1>2, Frames DEF Types

\* What a poll takes, and what it leaves.
LEMMA DrainedTyped ==
    ASSUME NEW S, NEW queue \in Seq(S)
    PROVE  Drained(queue) \in Seq(S) /\ Undrained(queue) \in Seq(S)
<1>1. queue # <<>> => Head(queue) \in S /\ <<Head(queue)>> \in Seq(S)
  OBVIOUS
<1>2. SubSeq(queue, 2, Len(queue)) \in Seq(S) /\ <<>> \in Seq(S)
  OBVIOUS
<1> QED BY <1>1, <1>2 DEF Drained, Undrained

\* A run behind a poll.
Polling(r, stage, taken) ==
    IF taken = <<>> THEN AfterPoll(r, stage, <<>>)
    ELSE [r EXCEPT !.pc = "announcePoll", !.polled = taken, !.stage = stage, !.gen = generation]

\* A poll, empty or not.
LEMMA PollingGood ==
    ASSUME Types, NEW r \in RunRecord, NEW stage \in {"first", "prepared", "turn", "followUp"},
           NEW taken \in Seq(IF stage = "followUp" THEN FollowUps ELSE Steers)
    PROVE  /\ From(Polling(r, stage, taken), r) /\ Polling(r, stage, taken).stage = stage
           /\ Going(Polling(r, stage, taken))
<1>1. CASE taken = <<>>
  <2>1. <<>> \in Seq(Messages)
    OBVIOUS
  <2> QED BY <1>1, <2>1, AfterPollGood DEF Polling
<1>2. CASE taken # <<>>
  <2> DEFINE pc == "announcePoll"
             s == [r EXCEPT !.pc = pc, !.polled = taken, !.stage = stage, !.gen = generation]
  <2>1. pc \in PCs /\ generation \in Nat /\ taken \in Seq(Messages)
    BY MessagesAreEntries DEF PCs, Types, QueueTypes
  <2>2. pc = "announcePoll"
    OBVIOUS
  <2> HIDE DEF pc
  <2>3. s \in RunRecord
    BY <2>1 DEF RunRecord
  <2>4. /\ s.pc = pc /\ s.polled = taken /\ s.stage = stage /\ s.parent = r.parent
        /\ s.context = r.context /\ s.failing = r.failing
    BY DEF RunRecord
  <2>5. Polling(r, stage, taken) = s
    BY <1>2, <2>2 DEF Polling
  <2> HIDE DEF s
  <2>6. RunShape(s)
    BY <2>2, <2>4 DEF RunShape
  <2> QED BY <2>2, <2>3, <2>4, <2>5, <2>6 DEF From, Good, Going
<1> QED BY <1>1, <1>2

\* Types are kept by the steering poll.
LEMMA PollSteeringTyped ==
    ASSUME Types, NEW p \in Prompts, PollSteering(p)
    PROVE  Types'
<1> USE DEF PollSteering
<1> DEFINE stage == run[p].stage
           taken == Drained(steerQueue)
           s == Polling(run[p], stage, taken)
<1>1. run[p] \in RunRecord /\ RunShape(run[p]) /\ run[p].pc = "poll"
  BY RunOf DEF At
<1>2. stage \in {"first", "prepared", "turn"}
  BY <1>1 DEF RunShape
<1>3. taken \in Seq(Steers) /\ Undrained(steerQueue) \in Seq(Steers)
  BY DrainedTyped DEF Types, QueueTypes
<1>4. Set(p, s)
  BY DEF Poll, Polling
<1> HIDE DEF stage, taken
<1>5. From(s, run[p])
  <2>1. taken \in Seq(IF stage = "followUp" THEN FollowUps ELSE Steers)
    BY <1>2, <1>3
  <2> QED BY <1>1, <1>2, <2>1, PollingGood
<1> HIDE DEF s
<1>6. RunTypes'
  BY <1>4, <1>5, RunStepTyped DEF From
<1>7. QueueTypes'
  BY <1>3 DEF Types, QueueTypes
<1>8. UNCHANGED <<phase, marks, throws>>
  BY DEF bounds
<1> QED BY <1>6, <1>7, <1>8, Frames DEF Types

\* Types are kept by the follow-up poll.
LEMMA PollFollowUpTyped ==
    ASSUME Types, NEW p \in Prompts, PollFollowUp(p)
    PROVE  Types'
<1> USE DEF PollFollowUp
<1> DEFINE stage == "followUp"
           taken == Drained(followUpQueue)
           s == Polling(run[p], stage, taken)
<1>1. run[p] \in RunRecord
  BY RunOf
<1>2. taken \in Seq(FollowUps) /\ Undrained(followUpQueue) \in Seq(FollowUps)
  BY DrainedTyped DEF Types, QueueTypes
<1>3. Set(p, s) /\ stage = "followUp"
  BY DEF Poll, Polling
<1> HIDE DEF stage, taken
<1>4. From(s, run[p])
  <2>1. taken \in Seq(IF stage = "followUp" THEN FollowUps ELSE Steers)
    BY <1>2, <1>3
  <2> QED BY <1>1, <1>3, <2>1, PollingGood
<1> HIDE DEF s
<1>5. RunTypes'
  BY <1>3, <1>4, RunStepTyped DEF From
<1>6. QueueTypes'
  BY <1>2 DEF Types, QueueTypes
<1>7. UNCHANGED <<phase, marks, throws>>
  BY DEF bounds
<1> QED BY <1>5, <1>6, <1>7, Frames DEF Types

\* Types are kept by the announcement of a poll, put-back included.
LEMMA AnnouncePollTyped ==
    ASSUME Types, NEW p \in Prompts, AnnouncePoll(p)
    PROVE  Types'
<1> USE DEF AnnouncePoll
<1>1. UNCHANGED session /\ UNCHANGED calls /\ UNCHANGED pendings /\ UNCHANGED cleared /\ UNCHANGED slots
      /\ nextTurnQueue' = nextTurnQueue /\ generation' = generation /\ phase' = phase
  OBVIOUS
<1>2. run[p] \in RunRecord /\ RunShape(run[p]) /\ run[p].pc = "announcePoll"
  BY RunOf DEF At
<1>3. run[p].polled \in Seq(Messages) /\ Range(run[p].polled) \subseteq Messages
  BY <1>2 DEF RunRecord, Range
<1>4. /\ run[p].stage \in {"first", "prepared", "turn", "followUp"}
      /\ run[p].polled \in Seq(IF run[p].stage = "followUp" THEN FollowUps ELSE Steers)
  BY <1>2 DEF RunShape, RunRecord
<1>5. CASE Set(p, AfterPoll(run[p], run[p].stage, run[p].polled))
           /\ UNCHANGED <<steerQueue, followUpQueue, dropped, bounds>>
  <2>1. From(AfterPoll(run[p], run[p].stage, run[p].polled), run[p])
    BY <1>2, <1>3, <1>4, AfterPollGood
  <2>2. RunTypes'
    BY <1>1, <1>5, <2>1, RunStepTyped DEF From
  <2>3. UNCHANGED queues /\ UNCHANGED <<phase, marks, throws>>
    BY <1>1, <1>5 DEF queues, marks, bounds
  <2> QED BY <1>1, <2>2, <2>3, Frames DEF Types
<1>6. CASE /\ PutBack(p) /\ Throw /\ Set(p, Failed(run[p]))
           /\ dropped' = IF run[p].gen = generation THEN dropped ELSE dropped \cup Range(run[p].polled)
  <2>1. Good(Failed(run[p])) /\ Failed(run[p]).parent = 0
    BY <1>2, FailedGood
  <2>2. RunTypes'
    BY <1>1, <1>6, <2>1, RunStepTyped
  <2>3. QueueTypes'
    <3>1. CASE run[p].gen # generation
      BY <1>1, <1>6, <3>1 DEF PutBack, Types, QueueTypes
    <3>2. CASE run[p].gen = generation /\ run[p].stage = "followUp"
      <4>1. run[p].polled \in Seq(FollowUps)
        BY <1>4, <3>2
      <4>2. followUpQueue' = run[p].polled \o followUpQueue /\ steerQueue' = steerQueue
        BY <1>6, <3>2 DEF PutBack
      <4>3. run[p].polled \o followUpQueue \in Seq(FollowUps)
        BY <4>1 DEF Types, QueueTypes
      <4> QED BY <1>1, <4>2, <4>3 DEF Types, QueueTypes
    <3>3. CASE run[p].gen = generation /\ run[p].stage # "followUp"
      <4>1. run[p].polled \in Seq(Steers)
        BY <1>4, <3>3
      <4>2. steerQueue' = run[p].polled \o steerQueue /\ followUpQueue' = followUpQueue
        BY <1>6, <3>3 DEF PutBack
      <4>3. run[p].polled \o steerQueue \in Seq(Steers)
        BY <4>1 DEF Types, QueueTypes
      <4> QED BY <1>1, <4>2, <4>3 DEF Types, QueueTypes
    <3> QED BY <3>1, <3>2, <3>3
  <2>4. MarkTypes'
    BY <1>1, <1>3, <1>6, AgentHarnessAssumption DEF Types, MarkTypes, Throw
  <2> QED BY <1>1, <2>2, <2>3, <2>4, Frames DEF Types
<1> QED BY <1>5, <1>6

\* The next turn: a run behind prepareNextTurn.
Prepared(r) ==
    LET fresh == Refreshed(r)
    IN  IF fresh.polled = <<>> THEN [fresh EXCEPT !.pc = "poll"] ELSE Injecting(fresh)

\* The next turn.
LEMMA PreparedGood ==
    ASSUME NEW r \in RunRecord, Shown \in Seq(Entries)
    PROVE  /\ Good(Prepared(r)) /\ Prepared(r).parent \in {0, r.parent} /\ Prepared(r).failing = r.failing
           /\ Prepared(r).context = Shown /\ Prepared(r).stage = "prepared" /\ Going(Prepared(r))
<1> DEFINE fresh == Refreshed(r)
<1>1. /\ fresh \in RunRecord /\ fresh.stage = "prepared" /\ fresh.context = Shown
      /\ fresh.failing = r.failing /\ fresh.parent = r.parent
  BY DEF Refreshed, RunRecord
<1> HIDE DEF fresh
<1>2. CASE fresh.polled = <<>>
  <2> DEFINE s == [fresh EXCEPT !.pc = "poll"]
  <2>1. "poll" \in PCs
    BY DEF PCs
  <2>2. /\ s \in RunRecord /\ s.pc = "poll" /\ s.stage = fresh.stage /\ s.context = fresh.context
        /\ s.failing = fresh.failing /\ s.parent = fresh.parent
    BY <1>1, <2>1, GoneTo
  <2>3. Prepared(r) = s
    BY <1>2 DEF Prepared, fresh
  <2> HIDE DEF s
  <2>4. RunShape(s)
    BY <1>1, <2>2 DEF RunShape
  <2> QED BY <1>1, <2>2, <2>3, <2>4 DEF Good, Going
<1>3. CASE fresh.polled # <<>>
  <2>1. Prepared(r) = Injecting(fresh)
    BY <1>3 DEF Prepared, fresh
  <2>2. /\ From(Injecting(fresh), fresh) /\ Injecting(fresh).stage = fresh.stage
        /\ Injecting(fresh).pc \in {"append", "model"}
    BY <1>1, InjectingGood DEF Ahead
  <2> QED BY <1>1, <2>1, <2>2 DEF From, Going
<1> QED BY <1>2, <1>3

\* Types are kept by prepareNextTurn.
LEMMA RefreshTyped ==
    ASSUME Types, NEW p \in Prompts, Refresh(p)
    PROVE  Types'
<1>1. UNCHANGED <<phase, pendings, queues, slots, calls, cleared>>
  BY DEF Refresh
<1>2. CASE Set(p, Prepared(run[p])) /\ UNCHANGED <<bounds, dropped, session>>
  <2>1. run[p] \in RunRecord /\ Shown \in Seq(Entries)
    BY RunOf, ShownTyped DEF Types
  <2>2. Good(Prepared(run[p])) /\ Prepared(run[p]).parent \in {0, run[p].parent}
    BY <2>1, PreparedGood
  <2>3. UNCHANGED <<phase, session, pendings, queues, slots, calls, marks, bounds>>
    BY <1>1, <1>2 DEF marks
  <2> QED BY <1>2, <2>2, <2>3, LocalTyped
<1>3. CASE UNCHANGED session /\ RunThrows(p)
  BY <1>1, <1>3, ThrowTyped
<1> QED BY <1>2, <1>3 DEF Refresh, Prepared

\* What a response leaves to be emitted.
Responded(r, kind) ==
    [r EXCEPT !.pc = "append",
              !.todo = IF kind = "more" THEN <<"response", "result">> ELSE <<"response">>,
              !.then = "turnEnd", !.more = (kind = "more"),
              !.stage = IF kind = "error" THEN "over" ELSE "turn",
              !.turns = IF kind = "more" THEN @ + 1 ELSE @]

\* The response and its tool result.
LEMMA RespondedGood ==
    ASSUME NEW r \in RunRecord, NEW kind \in {"stop", "more", "error"},
           kind = "more" => r.turns < MaxTurns
    PROVE  /\ From(Responded(r, kind), r) /\ Responded(r, kind).stage \in {"over", "turn"}
           /\ Going(Responded(r, kind))
<1> DEFINE pc == "append"
           then == "turnEnd"
           todo == IF kind = "more" THEN <<"response", "result">> ELSE <<"response">>
           more == (kind = "more")
           stage == IF kind = "error" THEN "over" ELSE "turn"
           turns == IF kind = "more" THEN r.turns + 1 ELSE r.turns
           s == [r EXCEPT !.pc = pc, !.todo = todo, !.then = then, !.more = more, !.stage = stage,
                          !.turns = turns]
<1>1. pc \in PCs /\ then \in PCs
  BY DEF PCs
<1>2. todo \in Seq(Said) /\ todo \in Seq(Entries) /\ todo # <<>>
  <2>1. CASE kind = "more"
    BY <2>1, MessagesAreEntries DEF Said
  <2>2. CASE kind # "more"
    BY <2>2, MessagesAreEntries DEF Said
  <2> QED BY <2>1, <2>2
<1>3. more \in BOOLEAN /\ stage \in {"over", "turn"} /\ turns \in 0..MaxTurns
  <2>1. turns \in 0..MaxTurns
    BY AgentHarnessAssumption DEF RunRecord
  <2> QED BY <2>1
<1>4. Responded(r, kind) = s /\ pc = "append" /\ then = "turnEnd"
  BY DEF Responded
<1> HIDE DEF pc, then, todo, more, stage, turns
<1>5. s \in RunRecord
  BY <1>1, <1>2, <1>3 DEF RunRecord
<1>6. /\ s.pc = pc /\ s.then = then /\ s.todo = todo /\ s.stage = stage /\ s.parent = r.parent
      /\ s.context = r.context /\ s.failing = r.failing
  BY DEF RunRecord
<1> HIDE DEF s
<1>7. RunShape(s)
  BY <1>2, <1>3, <1>4, <1>6 DEF RunShape, Behind
<1> QED BY <1>3, <1>4, <1>5, <1>6, <1>7 DEF From, Good, Going

\* Types are kept by the response.
LEMMA RespondTyped ==
    ASSUME Types, NEW p \in Prompts, Respond(p)
    PROVE  Types'
<1>1. UNCHANGED <<phase, pendings, queues, slots, calls, cleared>>
  BY DEF Respond
<1>2. CASE /\ \E kind \in {"stop", "more", "error"} :
                  /\ kind = "more" => run[p].turns < MaxTurns
                  /\ Set(p, Responded(run[p], kind))
           /\ UNCHANGED <<bounds, dropped, session>>
  <2>1. PICK kind \in {"stop", "more", "error"} :
            (kind = "more" => run[p].turns < MaxTurns) /\ Set(p, Responded(run[p], kind))
    BY <1>2
  <2>2. run[p] \in RunRecord
    BY RunOf
  <2>3. From(Responded(run[p], kind), run[p])
    BY <2>1, <2>2, RespondedGood
  <2>4. UNCHANGED <<phase, session, pendings, queues, slots, calls, marks, bounds>>
    BY <1>1, <1>2 DEF marks
  <2> QED BY <2>1, <2>3, <2>4, LocalTyped DEF From
<1>3. CASE UNCHANGED session /\ RunThrows(p)
  BY <1>1, <1>3, ThrowTyped
<1> QED BY <1>2, <1>3 DEF Respond, Responded

\* Types are kept by turn_end.
LEMMA TurnEndTyped ==
    ASSUME Types, NEW p \in Prompts, TurnEnd(p)
    PROVE  Types'
<1>1. UNCHANGED <<phase, session, pendings, queues, slots, calls, marks, bounds>>
  BY DEF TurnEnd
<1>2. PICK next \in {"savePoint", "turnThrows"} : Set(p, Flushing(run[p], next))
  BY DEF TurnEnd
<1>3. run[p] \in RunRecord /\ Behind(run[p])
  BY RunOf DEF TurnEnd, At, RunShape
<1>4. From(Flushing(run[p], next), run[p])
  BY <1>2, <1>3, FlushingGood
<1> QED BY <1>1, <1>2, <1>4, LocalTyped DEF From

\* Types are kept by the save point.
LEMMA SavePointTyped ==
    ASSUME Types, NEW p \in Prompts, SavePoint(p)
    PROVE  Types'
<1>1. UNCHANGED <<phase, pendings, queues, slots, calls, cleared>>
  BY DEF SavePoint
<1>2. run[p] \in RunRecord /\ RunShape(run[p])
  BY RunOf
<1>3. CASE /\ At(p, "savePoint") /\ (run[p].failing > 0 \/ run[p].stage = "over")
           /\ Set(p, Flushing(run[p], "idle")) /\ UNCHANGED <<bounds, dropped, session>>
  <2>1. Late(run[p])
    BY <1>2, <1>3 DEF Late, Ahead, RunRecord
  <2>2. From(Flushing(run[p], "idle"), run[p])
    BY <1>2, <2>1, FlushingGood
  <2>3. UNCHANGED <<phase, session, pendings, queues, slots, calls, marks, bounds>>
    BY <1>1, <1>3 DEF marks
  <2> QED BY <1>3, <2>2, <2>3, LocalTyped DEF From
<1>4. CASE /\ At(p, "savePoint") /\ ~(run[p].failing > 0 \/ run[p].stage = "over")
           /\ Set(p, [run[p] EXCEPT !.pc = "poll"]) /\ UNCHANGED <<bounds, dropped, session>>
  <2> DEFINE s == [run[p] EXCEPT !.pc = "poll"]
  <2>1. "poll" \in PCs
    BY DEF PCs
  <2>2. /\ s \in RunRecord /\ s.pc = "poll" /\ s.stage = run[p].stage /\ s.parent = run[p].parent
    BY <1>2, <2>1, GoneTo
  <2>3. Set(p, s)
    BY <1>4
  <2> HIDE DEF s
  <2>4. run[p].stage = "turn"
    BY <1>2, <1>4 DEF RunShape, Behind, At, RunRecord
  <2>5. Good(s)
    BY <2>2, <2>4 DEF Good, RunShape
  <2>6. UNCHANGED <<phase, session, pendings, queues, slots, calls, marks, bounds>>
    BY <1>1, <1>4 DEF marks
  <2> QED BY <2>2, <2>3, <2>5, <2>6, LocalTyped
<1>5. CASE UNCHANGED session /\ RunThrows(p)
  BY <1>1, <1>5, ThrowTyped
<1> QED BY <1>3, <1>4, <1>5 DEF SavePoint

\* A run that is about to write the first of the pending writes.
Writing(r) == [r EXCEPT !.pc = "flushing", !.parent = leaf, !.todo = <<Head(pendingSessionWrites)>>]

\* A pending write that is about to be written,
LEMMA WritingGood ==
    ASSUME NEW r \in RunRecord, RunShape(r), r.pc = "flush", Types, pendingSessionWrites # <<>>
    PROVE  /\ Good(Writing(r)) /\ Writing(r).parent = leaf /\ Writing(r).context = r.context
           /\ Writing(r).failing = r.failing /\ Writing(r).stage = r.stage
           /\ Writing(r).pc = "flushing" /\ Writing(r).then = r.then
           /\ Writing(r).todo = <<Head(pendingSessionWrites)>>
<1> DEFINE pc == "flushing"
           todo == <<Head(pendingSessionWrites)>>
           s == [r EXCEPT !.pc = pc, !.parent = leaf, !.todo = todo]
<1>1. pc \in PCs /\ pc = "flushing"
  BY DEF PCs
<1>2. Head(pendingSessionWrites) \in Entries
  BY MessagesAreEntries DEF Types, WriteTypes
<1>3. todo \in Seq(Entries) /\ todo # <<>> /\ leaf \in Nat
  BY <1>2 DEF Types, SessionTypes
<1>4. Writing(r) = s
  BY DEF Writing
<1> HIDE DEF pc, todo
<1>5. s \in RunRecord
  BY <1>1, <1>3 DEF RunRecord
<1>6. /\ s.pc = pc /\ s.parent = leaf /\ s.todo = todo /\ s.then = r.then /\ s.context = r.context
      /\ s.failing = r.failing /\ s.stage = r.stage
  BY DEF RunRecord
<1> HIDE DEF s
<1>7. RunShape(s)
  BY <1>1, <1>3, <1>6 DEF RunShape, Behind, Late, Ahead
<1> QED BY <1>1, <1>4, <1>5, <1>6, <1>7 DEF Good, todo

\* Types are kept by a flush that peeks.
LEMMA FlushTyped ==
    ASSUME Types, NEW p \in Prompts, Flush(p)
    PROVE  Types'
<1>1. UNCHANGED <<phase, session, pendings, queues, slots, calls, marks, bounds>>
  BY DEF Flush
<1>2. run[p] \in RunRecord /\ RunShape(run[p]) /\ run[p].pc = "flush"
  BY RunOf DEF Flush, At
<1>3. CASE pendingSessionWrites = <<>>
  <2>1. Set(p, Flushing(run[p], run[p].then))
    BY <1>3 DEF Flush
  <2>2. From(Flushing(run[p], run[p].then), run[p])
    <3> DEFINE then == run[p].then
    <3>1. \/ then \in {"savePoint", "turnThrows"} /\ Behind(run[p])
          \/ then = "refresh" /\ ~Ahead(run[p])
          \/ then \in {"idle", "final"} /\ Late(run[p])
      BY <1>2 DEF RunShape
    <3> HIDE DEF then
    <3>2. From(Flushing(run[p], then), run[p])
      BY <1>2, <3>1, FlushingGood
    <3> QED BY <3>2 DEF then
  <2> QED BY <1>1, <2>1, <2>2, LocalTyped DEF From
<1>4. CASE pendingSessionWrites # <<>>
  <2>1. Set(p, Writing(run[p]))
    BY <1>4 DEF Flush, Writing
  <2> QED BY <1>1, <1>2, <1>4, <2>1, WritingGood, LocalTyped
<1> QED BY <1>3, <1>4

\* A run that has written it.
Wrote(r, more) ==
    LET written == [r EXCEPT !.todo = <<>>, !.parent = 0]
    IN  IF more THEN [written EXCEPT !.pc = "flush"] ELSE [written EXCEPT !.pc = r.then, !.then = "off"]

\* and that was.
LEMMA WroteGood ==
    ASSUME NEW r \in RunRecord, RunShape(r), r.pc = "flushing", NEW more \in BOOLEAN
    PROVE  /\ Good(Wrote(r, more)) /\ Wrote(r, more).parent = 0
           /\ Wrote(r, more).context = r.context
           /\ Wrote(r, more).failing = r.failing /\ Wrote(r, more).stage = r.stage
           /\ \/ more /\ Wrote(r, more).pc = "flush" /\ Wrote(r, more).then = r.then
              \/ ~more /\ Wrote(r, more).pc = r.then
           /\ r.then \in {"savePoint", "turnThrows", "refresh", "idle", "final"}
<1> DEFINE pc == IF more THEN "flush" ELSE r.then
           then == IF more THEN r.then ELSE "off"
           none == <<>>
           w == [r EXCEPT !.todo = none, !.parent = 0]
           s == [w EXCEPT !.pc = pc, !.then = then]
<1>1. r.then \in {"savePoint", "turnThrows", "refresh", "idle", "final"}
  BY DEF RunShape
<1>2. pc \in PCs /\ then \in PCs /\ none \in Seq(Entries)
  BY <1>1 DEF PCs
<1>3. w \in RunRecord
  BY <1>2 DEF RunRecord
<1>4. /\ w.parent = 0 /\ w.context = r.context /\ w.failing = r.failing /\ w.stage = r.stage
      /\ w.then = r.then
  BY DEF RunRecord
<1>5. Wrote(r, more) = s
  <2>1. CASE more
    <3>1. Wrote(r, more) = [w EXCEPT !.pc = "flush"]
      BY <2>1 DEF Wrote
    <3>2. pc = "flush" /\ then = w.then
      BY <1>4, <2>1
    <3> HIDE DEF w, then, pc
    <3>3. [w EXCEPT !.pc = pc, !.then = then] = [w EXCEPT !.pc = "flush"]
      BY <1>3, <3>2 DEF RunRecord
    <3> QED BY <3>1, <3>3 DEF s
  <2>2. CASE ~more
    BY <2>2 DEF Wrote
  <2> QED BY <2>1, <2>2
<1>6. (more /\ pc = "flush" /\ then = r.then) \/ (~more /\ pc = r.then)
  <2>1. CASE more
    BY <2>1
  <2>2. CASE ~more
    BY <2>2
  <2> QED BY <2>1, <2>2
<1> HIDE DEF w, pc, then, none
<1>7. s \in RunRecord
  BY <1>2, <1>3 DEF RunRecord
<1>8. /\ s.pc = pc /\ s.then = then /\ s.parent = w.parent /\ s.context = w.context
      /\ s.failing = w.failing /\ s.stage = w.stage
  BY <1>3 DEF RunRecord
<1> HIDE DEF s
<1>9. RunShape(s)
  BY <1>1, <1>4, <1>6, <1>8 DEF RunShape, Behind, Late, Ahead
<1> QED BY <1>1, <1>4, <1>5, <1>6, <1>7, <1>8, <1>9 DEF Good

\* Types are kept by a flush that writes.
LEMMA FlushOneTyped ==
    ASSUME Types, NEW p \in Prompts, FlushOne(p)
    PROVE  Types'
<1> DEFINE what == Head(run[p].todo)
           r == Wrote(run[p], pendingSessionWrites' # <<>>)
<1>1. run[p] \in RunRecord /\ RunShape(run[p]) /\ run[p].pc = "flushing" /\ run[p].parent \in 0..Len(tree)
  BY RunOf DEF FlushOne, At
<1>2. what \in Entries
  BY <1>1 DEF RunShape, RunRecord
<1>3. SessionTypes' /\ Len(tree) <= Len(tree') /\ 0 \in 0..Len(tree')
  <2>1. SessionTypes /\ Commit(what, run[p].parent)
    BY DEF Types, FlushOne
  <2> HIDE DEF what
  <2>2. SessionTypes' /\ Len(tree) <= Len(tree')
    BY <1>1, <1>2, <2>1, CommitTyped
  <2> QED BY <2>2 DEF SessionTypes
<1>4. Set(p, r)
  BY DEF FlushOne, Wrote
<1>5. Good(r) /\ r.parent = 0
  BY <1>1, WroteGood
<1> HIDE DEF r
<1>6. RunTypes'
  BY <1>3, <1>4, <1>5, RunsTyped
<1>7. WriteTypes'
  BY DEF Types, WriteTypes, FlushOne
<1>8. CallTypes' /\ UNCHANGED <<phase, queues, slots, marks, throws>>
  BY <1>3, CallsTyped DEF FlushOne, bounds
<1> QED BY <1>3, <1>6, <1>7, <1>8, Frames DEF Types

\* A run whose last flush throws.
LEMMA LastGood ==
    LET s == [Idle EXCEPT !.pc = "final", !.failing = 2]
    IN  Good(s) /\ s.parent = 0 /\ s.pc = "final" /\ s.failing = 2
<1> DEFINE s == [Idle EXCEPT !.pc = "final", !.failing = 2]
<1>1. Idle \in RunRecord /\ "final" \in PCs /\ 2 \in 0..2 /\ "off" \in PCs /\ <<>> \in Seq(Entries)
  BY IdleGood DEF Good, PCs
<1>2. s \in RunRecord
  BY <1>1, Updated
<1>3. s.pc = "final" /\ s.parent = 0 /\ s.failing = 2
  BY DEF Idle
<1> HIDE DEF s
<1>4. RunShape(s)
  BY <1>3 DEF RunShape, Late
<1>5. Good(s) /\ s.parent = 0 /\ s.pc = "final" /\ s.failing = 2
  BY <1>2, <1>3, <1>4 DEF Good
<1> QED BY <1>5 DEF s

\* Types are kept by a flush that throws.
LEMMA FlushThrowsTyped ==
    ASSUME Types, NEW p \in Prompts, FlushThrows(p)
    PROVE  Types'
<1> DEFINE r == IF run[p].then = "final" THEN [Idle EXCEPT !.pc = "final", !.failing = 2]
                ELSE Failed(run[p])
<1>1. Set(p, r) /\ UNCHANGED <<phase, session, pendings, queues, slots, calls, cleared>>
  BY DEF FlushThrows
<1>2. run[p] \in RunRecord
  BY RunOf
<1>3. Good(r) /\ r.parent = 0
  BY <1>2, FailedGood, LastGood
<1> HIDE DEF r
<1>4. RunTypes'
  BY <1>1, <1>3, RunStepTyped
<1>5. MarkTypes'
  BY <1>1, AgentHarnessAssumption DEF Types, MarkTypes, FlushThrows, Throw, Carried
<1> QED BY <1>1, <1>4, <1>5, Frames DEF Types

\* Types are kept by agent_end.
LEMMA BecomeIdleTyped ==
    ASSUME Types, NEW p \in Prompts, BecomeIdle(p)
    PROVE  Types'
<1> DEFINE s == [run[p] EXCEPT !.pc = "listeners"]
<1>1. Set(p, s) /\ UNCHANGED <<session, pendings, queues, slots, calls, marks, bounds>> /\ phase' = "idle"
  BY DEF BecomeIdle, Goto
<1>2. run[p] \in RunRecord /\ RunShape(run[p]) /\ run[p].pc = "idle" /\ "listeners" \in PCs
  BY RunOf DEF BecomeIdle, At, PCs
<1>3. /\ s \in RunRecord /\ s.pc = "listeners" /\ s.stage = run[p].stage /\ s.parent = run[p].parent
      /\ s.failing = run[p].failing
  BY <1>2, GoneTo
<1> HIDE DEF s
<1>4. Good(s)
  BY <1>2, <1>3 DEF Good, RunShape, Late, Ahead
<1>5. RunTypes'
  BY <1>1, <1>3, <1>4, RunStepTyped
<1>6. MarkTypes'
  BY <1>1 DEF Types, MarkTypes, marks, bounds
<1> QED BY <1>1, <1>5, <1>6, Frames DEF Types

\* Types are kept by the listeners of agent_end.
LEMMA ListenersReturnTyped ==
    ASSUME Types, NEW p \in Prompts, ListenersReturn(p)
    PROVE  Types'
<1>1. UNCHANGED <<phase, pendings, queues, slots, calls, cleared>>
  BY DEF ListenersReturn
<1>2. CASE Set(p, Flushing(run[p], "final")) /\ UNCHANGED <<bounds, dropped, session>>
  <2>1. run[p] \in RunRecord /\ Late(run[p])
    BY RunOf DEF ListenersReturn, At, RunShape
  <2>2. From(Flushing(run[p], "final"), run[p])
    BY <2>1, FlushingGood
  <2>3. UNCHANGED <<phase, session, pendings, queues, slots, calls, marks, bounds>>
    BY <1>1, <1>2 DEF marks
  <2> QED BY <1>2, <2>2, <2>3, LocalTyped DEF From
<1>3. CASE UNCHANGED session /\ RunThrows(p)
  BY <1>1, <1>3, ThrowTyped
<1> QED BY <1>2, <1>3 DEF ListenersReturn

\* Types are kept by the finally blocks.
LEMMA FinishTyped ==
    ASSUME Types, NEW p \in Prompts, Finish(p)
    PROVE  Types'
<1>1. PICK pc \in {"done", "rejected"} : Leave(p, pc)
  BY DEF Finish
<1>2. RunTypes'
  <2> DEFINE s == [Idle EXCEPT !.pc = pc]
  <2>1. Set(p, s) /\ Good(s) /\ s.parent = 0
    BY <1>1, IdleIsGood DEF Leave
  <2> HIDE DEF s
  <2> QED BY <2>1, RunStepTyped DEF Finish
<1>3. SlotTypes' /\ MarkTypes'
  BY DEF Finish, Types, SlotTypes, MarkTypes, marks, bounds
<1> QED BY <1>2, <1>3, Frames DEF Finish, Types

-----------------------------------------------------------------------------
(* The calls keep the types, and all steps do.                             *)

\* Types are kept by abort().
LEMMA AbortTyped ==
    ASSUME Types, Abort
    PROVE  Types'
<1> USE DEF Abort
<1>1. UNCHANGED session /\ UNCHANGED writer /\ UNCHANGED operation
  OBVIOUS
<1>2. ASSUME NEW p \in Prompts
      PROVE  /\ run'[p] \in RunRecord /\ RunShape(run'[p]) /\ run'[p].parent \in 0..Len(tree)
  <2>1. run[p] \in RunRecord /\ RunShape(run[p]) /\ run[p].parent \in 0..Len(tree)
    BY RunOf
  <2>2. CASE run'[p] = run[p]
    BY <2>1, <2>2
  <2>3. CASE run'[p] = [run[p] EXCEPT !.aborted = TRUE]
    <3> DEFINE s == [run[p] EXCEPT !.aborted = TRUE]
    <3>1. /\ s \in RunRecord /\ s.pc = run[p].pc /\ s.then = run[p].then /\ s.todo = run[p].todo
          /\ s.polled = run[p].polled /\ s.parent = run[p].parent
          /\ s.stage = run[p].stage /\ s.failing = run[p].failing
      BY <2>1 DEF RunRecord
    <3>2. run'[p] = s
      BY <2>3
    <3> HIDE DEF s
    <3>3. RunShape(s)
      BY <2>1, <3>1 DEF RunShape, Ahead, Behind, Late
    <3> QED BY <2>1, <3>1, <3>2, <3>3
  <2> QED BY <2>2, <2>3
<1>3. RunTypes'
  BY <1>1, <1>2 DEF RunTypes, session
<1>4. QueueTypes'
  BY DEF Types, QueueTypes
<1>5. MarkTypes'
  <2>1. Range(steerQueue) \subseteq Messages /\ Range(followUpQueue) \subseteq Messages
    BY MessagesAreEntries DEF Types, QueueTypes, Range
  <2> QED BY <2>1 DEF Types, MarkTypes
<1>6. CallTypes'
  BY <1>1 DEF Types, CallTypes, session
<1> QED BY <1>1, <1>3, <1>4, <1>5, <1>6, Frames DEF Types

\* What the calls change of the variables the types are about, run by run.
LEMMA SteersTyped ==
    ASSUME Types, Steer \/ FollowUp \/ NextTurn
    PROVE  Types'
<1>1. UNCHANGED <<phase, session, pendings, slots, run, calls, marks, bounds, generation>>
  BY DEF Steer, FollowUp, NextTurn
<1>2. QueueTypes'
  <2>1. ASSUME NEW S PROVE Unsent(S) \subseteq S
    <3> DEFINE unsent == {m \in S :
            /\ m \notin Range(steerQueue) \cup Range(followUpQueue) \cup Range(nextTurnQueue)
            /\ m \notin cleared \cup dropped /\ ~Holds(m)
            /\ \A p \in Prompts : m \notin Range(run[p].todo) \cup Range(run[p].polled)}
    <3>1. CASE unsent = {}
      BY <3>1 DEF Unsent
    <3>2. CASE unsent # {}
      <4>1. NextCall(unsent) \in unsent
        BY <3>2 DEF NextCall
      <4> QED BY <3>2, <4>1 DEF Unsent
    <3> QED BY <3>1, <3>2
  <2>2. CASE Steer
    BY <2>1, <2>2 DEF Steer, Types, QueueTypes
  <2>3. CASE FollowUp
    BY <2>1, <2>3 DEF FollowUp, Types, QueueTypes
  <2>4. CASE NextTurn
    BY <2>1, <2>4 DEF NextTurn, Types, QueueTypes
  <2> QED BY <2>2, <2>3, <2>4
<1>3. RunTypes'
  BY <1>1 DEF Types, RunTypes, session
<1> QED BY <1>1, <1>2, <1>3, Frames DEF Types, bounds

\* Types are kept by appendMessage().
LEMMA AppendMessageTyped ==
    ASSUME Types, NEW w \in Writes, AppendMessage(w)
    PROVE  Types'
<1> USE DEF AppendMessage
<1>1. UNCHANGED <<phase, session, queues, slots, run, operation, marks, throws>>
  BY DEF bounds
<1>2. RunTypes' /\ leaf \in Nat
  BY <1>1 DEF Types, RunTypes, SessionTypes, session
<1>3. WriteTypes'
  <2>1. CASE phase = "idle"
    BY <2>1 DEF Types, WriteTypes, pendings
  <2>2. CASE phase # "idle"
    <3>1. pendingSessionWrites' = Append(pendingSessionWrites, w) /\ queued' = Append(queued, w)
      BY <2>2
    <3>2. pendingSessionWrites \in Seq(Writes) /\ queued \in Seq(Writes) /\ w \in Writes
      BY DEF Types, WriteTypes
    <3> HIDE DEF AppendMessage
    <3> QED BY <3>1, <3>2 DEF WriteTypes
  <2> QED BY <2>1, <2>2
<1>4. CallTypes'
  <2>1. /\ writer \in [Writes -> [pc : {"off", "reading", "done"}, parent : Nat]]
        /\ leaf \in 0..Len(tree)
        /\ \A v \in Writes : writer[v].parent \in 0..Len(tree)
    BY DEF Types, CallTypes, SessionTypes
  <2>2. CASE writer' = [writer EXCEPT ![w] = [pc |-> "reading", parent |-> leaf]]
    BY <1>1, <1>2, <2>1, <2>2 DEF CallTypes, session, Types
  <2>3. CASE writer' = [writer EXCEPT ![w].pc = "done"]
    BY <1>1, <1>2, <2>1, <2>3 DEF CallTypes, session, Types
  <2> QED BY <2>2, <2>3
<1> QED BY <1>1, <1>2, <1>3, <1>4, Frames DEF Types

\* Types are kept by an append while idle.
LEMMA AppendedDirectlyTyped ==
    ASSUME Types, NEW w \in Writes, AppendedDirectly(w)
    PROVE  Types'
<1> USE DEF AppendedDirectly
<1>1. UNCHANGED <<phase, pendings, queues, slots, run, operation, marks, throws>>
  BY DEF bounds
<1>2. SessionTypes' /\ Len(tree) <= Len(tree') /\ Len(tree) \in Nat
  <2>1. SessionTypes /\ w \in Entries /\ writer[w].parent \in 0..Len(tree)
    BY MessagesAreEntries DEF Types, CallTypes
  <2>2. Commit(w, writer[w].parent)
    OBVIOUS
  <2>3. SessionTypes' /\ Len(tree) <= Len(tree')
    BY <2>1, <2>2, CommitTyped
  <2> QED BY <2>1, <2>3 DEF SessionTypes
<1>3. RunTypes'
  BY <1>1, <1>2 DEF Types, RunTypes, SessionTypes
<1>4. CallTypes'
  BY <1>1, <1>2 DEF Types, CallTypes, SessionTypes
<1> QED BY <1>1, <1>2, <1>3, <1>4, Frames DEF Types

\* Types are kept by a call of compact() or navigateTree().
LEMMA StructuralCallTyped ==
    ASSUME Types, NEW op \in Operations, StructuralCall(op)
    PROVE  Types'
<1> USE DEF StructuralCall
<1>1. RunTypes'
  BY DEF Types, RunTypes, session
<1>2. CallTypes' /\ MarkTypes'
  BY DEF Types, CallTypes, MarkTypes, session, marks
<1> QED BY <1>1, <1>2, Frames DEF Types

\* Types are kept by their return.
LEMMA StructuralReturnTyped ==
    ASSUME Types, StructuralReturn
    PROVE  Types'
<1> USE DEF StructuralReturn
<1>1. UNCHANGED <<pendings, queues, slots, run, writer, marks>> /\ operation' = "none" /\ phase' = "idle"
  OBVIOUS
<1>2. SessionTypes' /\ Len(tree) <= Len(tree') /\ Len(tree) \in Nat
  <2>1. SessionTypes /\ operation \in Entries /\ leaf \in 0..Len(tree) /\ Len(tree) \in Nat
    BY MessagesAreEntries DEF Types, CallTypes, SessionTypes
  <2>2. CASE operation = "compact" /\ Commit("compact", leaf)
    BY <2>1, <2>2, CommitTyped
  <2>3. CASE operation = "navigate" /\ \E i \in 0..Len(tree) : Commit("navigate", i)
    BY <2>1, <2>3, CommitTyped
  <2>4. CASE \E i \in 0..Len(tree) : leaf' = i /\ UNCHANGED tree
    BY <2>1, <2>4 DEF SessionTypes
  <2>5. CASE UNCHANGED session
    BY <2>1, <2>5, Frames
  <2> QED BY <2>1, <2>2, <2>3, <2>4, <2>5
<1>3. RunTypes'
  BY <1>1, <1>2 DEF Types, RunTypes, SessionTypes
<1>4. CallTypes'
  BY <1>1, <1>2 DEF Types, CallTypes, SessionTypes
<1>5. MarkTypes'
  BY <1>1, AgentHarnessAssumption DEF Types, MarkTypes, marks, Throw, bounds
<1> QED BY <1>1, <1>2, <1>3, <1>4, <1>5, Frames DEF Types

\* Types are kept by the rest of abort().
LEMMA AbortCallTyped ==
    ASSUME Types, AbortWaits \/ AbortReturns
    PROVE  Types'
<1>1. UNCHANGED <<phase, session, pendings, queues, slots, run, writer, operation, marks, throws>>
  BY DEF AbortWaits, AbortReturns, bounds
<1>2. RunTypes' /\ CallTypes'
  BY <1>1 DEF Types, RunTypes, CallTypes, session
<1> QED BY <1>1, <1>2, Frames DEF Types

\* Every step keeps the types.
LEMMA TypesStep == Types /\ [Next]_vars => Types'
<1> SUFFICES ASSUME Types, [Next]_vars PROVE Types'
  OBVIOUS
<1>1. ASSUME NEW p \in Prompts, Prompt(p) \/ RunStep(p)
      PROVE  Types'
  BY <1>1, PromptTyped, SnapshotTyped, AnnounceNextTurnTyped, BeforeAgentStartTyped, ReadLeafTyped,
     EmitMessageTyped, PollSteeringTyped, PollFollowUpTyped, AnnouncePollTyped, RefreshTyped,
     RespondTyped, TurnEndTyped, SavePointTyped, FlushTyped, FlushOneTyped, FlushThrowsTyped,
     BecomeIdleTyped, ListenersReturnTyped, FinishTyped DEF RunStep
<1>2. CASE (\E w \in Writes : AppendMessage(w)) \/ (\E op \in Operations : StructuralCall(op))
  BY <1>2, AppendMessageTyped, StructuralCallTyped
<1>3. CASE Steer \/ FollowUp \/ NextTurn
  BY <1>3, SteersTyped
<1>4. CASE Abort
  BY <1>4, AbortTyped
<1>5. CASE CallStep
  BY <1>5, AppendedDirectlyTyped, StructuralReturnTyped, AbortCallTyped DEF CallStep
<1>6. CASE UNCHANGED vars
  BY <1>6 DEF vars, Types, SessionTypes, WriteTypes, QueueTypes, SlotTypes, RunTypes, CallTypes, MarkTypes
<1> QED BY <1>1, <1>2, <1>3, <1>4, <1>5, <1>6 DEF Next

\* The types hold at the beginning
LEMMA TypesInit == Init => Types
<1> SUFFICES ASSUME Init PROVE Types
  OBVIOUS
<1> USE DEF Init
<1>1. SessionTypes /\ WriteTypes /\ QueueTypes /\ SlotTypes
  BY DEF SessionTypes, WriteTypes, QueueTypes, SlotTypes, Node
<1>2. RunTypes
  <2>1. Idle \in RunRecord /\ RunShape(Idle) /\ Idle.parent = 0
    BY IdleGood DEF Good, Idle
  <2> QED BY <2>1 DEF RunTypes
<1>3. CallTypes /\ MarkTypes
  BY AgentHarnessAssumption DEF CallTypes, MarkTypes
<1> QED BY <1>1, <1>2, <1>3 DEF Types

\* and for ever.
LEMMA Typed == Spec => []Types
BY TypesInit, TypesStep, PTL DEF Spec

\* The variables have their types, whether calls overlap or not: the parent of an entry
\* is an earlier one, the queues hold their own messages only, and no run fails
\* more than twice.
THEOREM HarnessTypes == Spec => []TypeOK
<1>1. Types => TypeOK
  <2> SUFFICES ASSUME Types PROVE TypeOK
    OBVIOUS
  <2>1. \A i \in DOMAIN tree : tree[i].what \in Entries /\ tree[i].parent \in 0..(i - 1)
    <3>1. tree \in Seq(Node) /\ \A i \in 1..Len(tree) : tree[i] \in Node
      BY DEF Types, SessionTypes
    <3> QED BY <3>1 DEF Types, SessionTypes, Node
  <2>2. ASSUME NEW p \in Prompts
        PROVE  /\ Range(run[p].todo) \cup Range(run[p].polled) \subseteq Entries
               /\ run[p].turns \in 0..MaxTurns /\ run[p].failing \in 0..2
    BY MessagesAreEntries DEF Types, RunTypes, RunRecord, Range
  <2> QED BY <2>1, <2>2 DEF Types, TypeOK, SessionTypes, WriteTypes, QueueTypes, SlotTypes, MarkTypes
<1> QED BY <1>1, Typed, PTL

-----------------------------------------------------------------------------
(* What a step of a run does to what the other invariants are about.       *)

Stepped(p) ==
    /\ ~Over(p) /\ \A q \in Prompts \ {p} : run'[q] = run[q]
    /\ UNCHANGED <<writer, operation, queued>>
    /\ \/ UNCHANGED <<session, pendingSessionWrites>>
       \/ /\ run[p].pc = "commit" /\ Commit(Head(run[p].todo), run[p].parent)
          /\ UNCHANGED pendingSessionWrites
       \/ /\ run[p].pc = "flushing" /\ Commit(Head(run[p].todo), run[p].parent)
          /\ pendingSessionWrites' =
                IF pendingSessionWrites = <<>> THEN <<>> ELSE Tail(pendingSessionWrites)
    /\ run'[p].pc \in {"commit", "flushing"} => run'[p].parent = leaf /\ UNCHANGED session
    /\ Reading(run'[p]) =>
          \/ run'[p].context = Shown /\ UNCHANGED session
          \/ /\ Reading(run[p]) /\ run[p].pc = "commit" /\ Commit(Head(run[p].todo), run[p].parent)
             /\ run'[p].context = Append(run[p].context, Head(run[p].todo))
          \/ Reading(run[p]) /\ run'[p].context = run[p].context /\ UNCHANGED session
    /\ FailingShape(run[p]) => FailingShape(run'[p])
    /\ run'[p].pc = "flushing" => /\ UNCHANGED pendingSessionWrites /\ pendingSessionWrites # <<>>
                                  /\ run'[p].todo = <<Head(pendingSessionWrites)>>
    /\ Ends(run'[p]) => phase' = "idle" \/ (Ends(run[p]) /\ phase' = phase)
    /\ run'[p].pc = "final" /\ run'[p].failing < 2 => pendingSessionWrites' = <<>>
    /\ phase' \in {"idle", phase}

\* A step of one run leaves the others.
LEMMA SetRun ==
    ASSUME Types, NEW p \in Prompts, NEW r, Set(p, r)
    PROVE  run'[p] = r /\ \A q \in Prompts \ {p} : run'[q] = run[q]
BY DEF Set, Types, RunTypes

\* A run that fails or leaves.
LEMMA FailedStepped ==
    ASSUME Types, NEW p \in Prompts, ~Over(p), RunThrows(p),
           UNCHANGED <<phase, pendings, calls>>,
           UNCHANGED session \/ (run[p].pc = "commit" /\ Commit(Head(run[p].todo), run[p].parent))
    PROVE  Stepped(p)
<1> DEFINE s == Failed(run[p])
<1>1. run'[p] = s /\ \A q \in Prompts \ {p} : run'[q] = run[q]
  BY SetRun DEF RunThrows
<1>2. /\ s.failing \in {1, 2} /\ ~Ends(s) /\ FailingShape(s) /\ s.pc \in {"append", "flush", "final"}
  BY RunOf, FailedGood
<1> HIDE DEF s
<1>3. ~Reading(s) /\ (s.pc = "final" => s.failing = 2)
  BY <1>2 DEF Reading, Ends
<1> QED BY <1>1, <1>2, <1>3 DEF Stepped, calls, pendings

\* A run that settles.
LEMMA LeftStepped ==
    ASSUME Types, NEW p \in Prompts, ~Over(p), NEW pc \in {"done", "rejected"}, Leave(p, pc),
           UNCHANGED <<session, pendings, calls>>, phase' \in {"idle", phase}
    PROVE  Stepped(p)
<1> DEFINE s == [Idle EXCEPT !.pc = pc]
<1>1. run'[p] = s /\ \A q \in Prompts \ {p} : run'[q] = run[q]
  BY SetRun DEF Leave
<1>2. s.pc = pc /\ s.failing = 0
  BY DEF Idle
<1> HIDE DEF s
<1>3. ~Reading(s) /\ ~Ends(s) /\ FailingShape(s)
  BY <1>2 DEF Reading, Ends, FailingShape
<1> QED BY <1>1, <1>2, <1>3 DEF Stepped, calls, pendings

\* A run that only sets its locals.
LEMMA LocalStepped ==
    ASSUME Types, NEW p \in Prompts, ~Over(p), NEW s, Set(p, s), ~Ends(s),
           UNCHANGED <<phase, session, pendings, calls>>,
           s.pc \notin {"commit", "flushing", "final"},
           FailingShape(run[p]) => FailingShape(s),
           Reading(s) => s.context = Shown \/ (Reading(run[p]) /\ s.context = run[p].context)
    PROVE  Stepped(p)
<1>1. run'[p] = s /\ \A q \in Prompts \ {p} : run'[q] = run[q]
  BY SetRun
<1> QED BY <1>1 DEF Stepped, calls, pendings

\* The summary holds of the snapshot of the session.
LEMMA SnapshotStepped ==
    ASSUME Types, NEW p \in Prompts, Snapshot(p)
    PROVE  Stepped(p)
<1>1. ~Over(p) /\ run[p] \in RunRecord /\ run[p].pc = "snapshot"
  BY RunOf DEF Snapshot, At, Over
<1>2. CASE Set(p, [run[p] EXCEPT !.context = Shown, !.polled = nextTurnQueue,
                        !.pc = IF nextTurnQueue = <<>> THEN "hook" ELSE "announce"]) /\ UNCHANGED phase
  <2> DEFINE to == IF nextTurnQueue = <<>> THEN "hook" ELSE "announce"
             s == [run[p] EXCEPT !.context = Shown, !.polled = nextTurnQueue, !.pc = to]
  <2>1. to \in {"hook", "announce"} /\ Set(p, s)
    BY <1>2
  <2> HIDE DEF to
  <2>2. s.pc = to /\ s.context = Shown /\ s.failing = run[p].failing
    BY <1>1 DEF RunRecord
  <2> HIDE DEF s
  <2>3. ~Ends(s) /\ (FailingShape(run[p]) => FailingShape(s))
    BY <1>1, <2>1, <2>2 DEF Ends, FailingShape
  <2>4. UNCHANGED <<phase, session, pendings, calls>>
    BY <1>2 DEF Snapshot
  <2> QED BY <1>1, <2>1, <2>2, <2>3, <2>4, LocalStepped
<1>3. CASE Reject(p)
  BY <1>1, <1>3, LeftStepped DEF Snapshot, Reject
<1> QED BY <1>2, <1>3 DEF Snapshot

\* The summary holds of the announcement of the taken nextTurn queue.
LEMMA AnnounceNextTurnStepped ==
    ASSUME Types, NEW p \in Prompts, AnnounceNextTurn(p)
    PROVE  Stepped(p)
<1>1. ~Over(p) /\ run[p] \in RunRecord /\ run[p].pc = "announce"
  BY RunOf DEF AnnounceNextTurn, At, Over
<1>2. CASE Goto(p, "hook") /\ UNCHANGED phase
  <2> DEFINE s == [run[p] EXCEPT !.pc = "hook"]
  <2>1. "hook" \in PCs /\ Set(p, s)
    BY <1>2 DEF Goto, PCs
  <2>2. s.pc = "hook" /\ s.context = run[p].context /\ s.failing = run[p].failing /\ s.stage = run[p].stage
    BY <1>1, <2>1, GoneTo
  <2> HIDE DEF s
  <2>3. ~Ends(s) /\ (FailingShape(run[p]) => FailingShape(s)) /\ (Reading(s) => Reading(run[p]))
    BY <1>1, <2>2 DEF Ends, FailingShape, Reading, Ahead
  <2>4. UNCHANGED <<phase, session, pendings, calls>>
    BY <1>2 DEF AnnounceNextTurn
  <2> QED BY <1>1, <2>1, <2>2, <2>3, <2>4, LocalStepped
<1>3. CASE Reject(p)
  BY <1>1, <1>3, LeftStepped DEF AnnounceNextTurn, Reject
<1> QED BY <1>2, <1>3 DEF AnnounceNextTurn

\* The summary holds of before_agent_start.
LEMMA BeforeAgentStartStepped ==
    ASSUME Types, NEW p \in Prompts, BeforeAgentStart(p)
    PROVE  Stepped(p)
<1>1. ~Over(p) /\ run[p] \in RunRecord /\ run[p].pc = "hook"
  BY RunOf DEF BeforeAgentStart, At, Over
<1>2. CASE Set(p, [run[p] EXCEPT !.pc = "append", !.then = "poll", !.polled = <<>>,
                        !.todo = Append(run[p].polled, p)]) /\ UNCHANGED phase
  <2> DEFINE s == [run[p] EXCEPT !.pc = "append", !.then = "poll", !.polled = <<>>,
                        !.todo = Append(run[p].polled, p)]
  <2>1. Set(p, s)
    BY <1>2
  <2>2. s.pc = "append" /\ s.context = run[p].context /\ s.failing = run[p].failing /\ s.stage = run[p].stage
    BY <1>1 DEF RunRecord
  <2> HIDE DEF s
  <2>3. ~Ends(s) /\ (FailingShape(run[p]) => FailingShape(s)) /\ (Reading(s) => Reading(run[p]))
    BY <1>1, <2>2 DEF Ends, FailingShape, Reading, Ahead
  <2>4. UNCHANGED <<phase, session, pendings, calls>>
    BY <1>2 DEF BeforeAgentStart
  <2> QED BY <1>1, <2>1, <2>2, <2>3, <2>4, LocalStepped
<1>3. CASE Reject(p)
  BY <1>1, <1>3, LeftStepped DEF BeforeAgentStart, Reject, queues
<1> QED BY <1>2, <1>3 DEF BeforeAgentStart

\* The summary holds of an append that reads the leaf.
LEMMA ReadLeafStepped ==
    ASSUME Types, NEW p \in Prompts, ReadLeaf(p)
    PROVE  Stepped(p)
<1> DEFINE s == [run[p] EXCEPT !.pc = "commit", !.parent = leaf]
<1>1. ~Over(p) /\ run[p] \in RunRecord /\ run[p].pc = "append"
  BY RunOf DEF ReadLeaf, At, Over
<1>2. run'[p] = s /\ \A q \in Prompts \ {p} : run'[q] = run[q]
  BY SetRun DEF ReadLeaf
<1>3. /\ s.pc = "commit" /\ s.parent = leaf /\ s.context = run[p].context /\ s.then = run[p].then
      /\ s.failing = run[p].failing /\ s.stage = run[p].stage
  BY <1>1 DEF RunRecord
<1> HIDE DEF s
<1>4. ~Ends(s) /\ (FailingShape(run[p]) => FailingShape(s)) /\ (Reading(s) => Reading(run[p]))
  BY <1>1, <1>3 DEF Ends, FailingShape, Reading, Ahead
<1>5. UNCHANGED <<phase, session, pendings, calls>>
  BY DEF ReadLeaf
<1> QED BY <1>1, <1>2, <1>3, <1>4, <1>5 DEF Stepped, calls, pendings

\* The summary holds of message_end.
LEMMA EmitMessageStepped ==
    ASSUME Types, NEW p \in Prompts, EmitMessage(p)
    PROVE  Stepped(p)
<1>1. ~Over(p) /\ run[p] \in RunRecord /\ RunShape(run[p]) /\ run[p].pc = "commit"
  BY RunOf DEF EmitMessage, At, Over
<1>2. UNCHANGED <<phase, pendings, calls>>
  BY DEF EmitMessage
<1>3. CASE Commit(Head(run[p].todo), run[p].parent) /\ Set(p, Emitted(run[p]))
  <2> DEFINE s == Emitted(run[p])
  <2>1. /\ s.stage = run[p].stage /\ s.failing = run[p].failing
        /\ s.pc \in {"append", "poll", "model", "turnEnd"}
        /\ s.context = Append(run[p].context, Head(run[p].todo))
        /\ s.pc = "append" => s.then = run[p].then
        /\ s.pc # "append" => s.pc = run[p].then
    <3>1. run[p].then # "append"
      BY <1>1 DEF RunShape
    <3>2. /\ s.pc # "append" => s.pc = run[p].then
          /\ s.pc = "append" => s.then = run[p].then
      BY <1>1, <3>1 DEF Emitted, RunRecord
    <3> QED BY <1>1, <3>2, EmittedGood
  <2>2. run'[p] = s /\ \A q \in Prompts \ {p} : run'[q] = run[q]
    BY <1>3, SetRun
  <2> HIDE DEF s
  <2>3. ~Ends(s) /\ (FailingShape(run[p]) => FailingShape(s)) /\ (Reading(s) => Reading(run[p]))
    BY <1>1, <2>1 DEF Ends, FailingShape, Reading, Ahead
  <2> QED BY <1>1, <1>2, <1>3, <2>1, <2>2, <2>3 DEF Stepped, calls, pendings
<1>4. CASE RunThrows(p) /\ (UNCHANGED session \/ Commit(Head(run[p].todo), run[p].parent))
  BY <1>1, <1>2, <1>4, FailedStepped
<1> QED BY <1>3, <1>4 DEF EmitMessage, Emitted

\* A run behind a poll goes on in its loop.
LEMMA GoingStepped ==
    ASSUME Types, NEW p \in Prompts, ~Over(p), NEW s, Set(p, s), From(s, run[p]), Going(s),
           UNCHANGED <<phase, session, pendings, calls>>, FailingShape(run[p]) => FailingShape(s),
           run[p].pc # "snapshot", Ahead(s) => Ahead(run[p])
    PROVE  Stepped(p)
<1>1. ~Ends(s) /\ s.pc \notin {"commit", "flushing", "final"}
  BY DEF Going, Ends
<1>2. Reading(s) => Reading(run[p]) /\ s.context = run[p].context
  BY DEF Reading, From, Over
<1> QED BY <1>1, <1>2, LocalStepped

\* The summary holds of the steering poll.
LEMMA PollSteeringStepped ==
    ASSUME Types, NEW p \in Prompts, PollSteering(p)
    PROVE  Stepped(p)
<1> DEFINE taken == Drained(steerQueue)
           s == Polling(run[p], run[p].stage, taken)
<1>1. ~Over(p) /\ run[p] \in RunRecord /\ RunShape(run[p]) /\ run[p].pc = "poll"
  BY RunOf DEF PollSteering, At, Over
<1>2. run[p].stage \in {"first", "prepared", "turn"}
  BY <1>1 DEF RunShape
<1>3. taken \in Seq(IF run[p].stage = "followUp" THEN FollowUps ELSE Steers)
  BY <1>2, DrainedTyped DEF Types, QueueTypes
<1>4. Set(p, s)
  BY DEF PollSteering, Poll, Polling
<1> HIDE DEF taken
<1>5. From(s, run[p]) /\ s.stage = run[p].stage /\ Going(s)
  BY <1>1, <1>2, <1>3, PollingGood
<1> HIDE DEF s
<1>6. FailingShape(run[p]) => FailingShape(s)
  BY <1>1, <1>5 DEF FailingShape, From
<1>7. UNCHANGED <<phase, session, pendings, calls>>
  BY DEF PollSteering
<1> QED BY <1>1, <1>4, <1>5, <1>6, <1>7, GoingStepped DEF Ahead

\* The summary holds of the follow-up poll.
LEMMA PollFollowUpStepped ==
    ASSUME Types, NEW p \in Prompts, PollFollowUp(p)
    PROVE  Stepped(p)
<1> DEFINE taken == Drained(followUpQueue)
           stage == "followUp"
           s == Polling(run[p], stage, taken)
<1>1. ~Over(p) /\ run[p] \in RunRecord /\ run[p].pc = "pollFollowUp"
  BY RunOf DEF PollFollowUp, At, Over
<1>3. taken \in Seq(IF stage = "followUp" THEN FollowUps ELSE Steers) /\ stage = "followUp"
  BY DrainedTyped DEF Types, QueueTypes
<1>4. Set(p, s)
  BY DEF PollFollowUp, Poll, Polling
<1> HIDE DEF taken, stage
<1>5. From(s, run[p]) /\ s.stage = stage /\ Going(s)
  BY <1>1, <1>3, PollingGood
<1> HIDE DEF s
<1>6. FailingShape(run[p]) => FailingShape(s)
  BY <1>1, <1>5 DEF FailingShape, From
<1>7. UNCHANGED <<phase, session, pendings, calls>>
  BY DEF PollFollowUp
<1> QED BY <1>1, <1>3, <1>4, <1>5, <1>6, <1>7, GoingStepped DEF Ahead

\* The summary holds of the announcement of a poll, put-back included.
LEMMA AnnouncePollStepped ==
    ASSUME Types, NEW p \in Prompts, AnnouncePoll(p)
    PROVE  Stepped(p)
<1>1. ~Over(p) /\ run[p] \in RunRecord /\ RunShape(run[p]) /\ run[p].pc = "announcePoll"
  BY RunOf DEF AnnouncePoll, At, Over
<1>2. UNCHANGED <<phase, session, pendings, calls>>
  BY DEF AnnouncePoll
<1>3. CASE Set(p, AfterPoll(run[p], run[p].stage, run[p].polled))
  <2> DEFINE s == AfterPoll(run[p], run[p].stage, run[p].polled)
  <2>1. run[p].stage \in {"first", "prepared", "turn", "followUp"} /\ run[p].polled \in Seq(Messages)
    BY <1>1 DEF RunShape, RunRecord
  <2>2. From(s, run[p]) /\ s.stage = run[p].stage /\ Going(s)
    BY <1>1, <2>1, AfterPollGood
  <2>3. Set(p, s)
    BY <1>3
  <2> HIDE DEF s
  <2>4. FailingShape(run[p]) => FailingShape(s)
    BY <1>1, <2>2 DEF FailingShape, From
  <2> QED BY <1>1, <1>2, <2>2, <2>3, <2>4, GoingStepped DEF Ahead
<1>4. CASE Set(p, Failed(run[p]))
  <2> DEFINE s == Failed(run[p])
  <2>1. run'[p] = s /\ \A q \in Prompts \ {p} : run'[q] = run[q]
    BY <1>4, SetRun
  <2>2. /\ s.failing \in {1, 2} /\ ~Ends(s) /\ FailingShape(s) /\ s.pc \in {"append", "flush", "final"}
    BY <1>1, FailedGood
  <2> HIDE DEF s
  <2>3. ~Reading(s) /\ (s.pc = "final" => s.failing = 2)
    BY <2>2 DEF Reading, Ends
  <2> QED BY <1>1, <1>2, <2>1, <2>2, <2>3 DEF Stepped, calls, pendings
<1> QED BY <1>3, <1>4 DEF AnnouncePoll

\* The summary holds of prepareNextTurn.
LEMMA RefreshStepped ==
    ASSUME Types, NEW p \in Prompts, Refresh(p)
    PROVE  Stepped(p)
<1>1. ~Over(p) /\ run[p] \in RunRecord /\ run[p].pc = "refresh"
  BY RunOf DEF Refresh, At, Over
<1>2. UNCHANGED <<phase, session, pendings, calls>>
  BY DEF Refresh
<1>3. CASE Set(p, Prepared(run[p]))
  <2> DEFINE s == Prepared(run[p])
  <2>1. s.failing = run[p].failing /\ s.context = Shown /\ Going(s)
    BY <1>1, ShownTyped, PreparedGood DEF Types
  <2>2. Set(p, s)
    BY <1>3
  <2> HIDE DEF s
  <2>3. ~Ends(s) /\ s.pc \notin {"commit", "flushing", "final"} /\ (FailingShape(run[p]) => FailingShape(s))
    BY <1>1, <2>1 DEF Ends, FailingShape, Going
  <2> QED BY <1>1, <1>2, <2>1, <2>2, <2>3, LocalStepped
<1>4. CASE RunThrows(p)
  BY <1>1, <1>2, <1>4, FailedStepped
<1> QED BY <1>3, <1>4 DEF Refresh, Prepared

\* The summary holds of the response.
LEMMA RespondStepped ==
    ASSUME Types, NEW p \in Prompts, Respond(p)
    PROVE  Stepped(p)
<1>1. ~Over(p) /\ run[p] \in RunRecord /\ run[p].pc = "model"
  BY RunOf DEF Respond, At, Over
<1>2. UNCHANGED <<phase, session, pendings, calls>>
  BY DEF Respond
<1>3. CASE \E kind \in {"stop", "more", "error"} :
              (kind = "more" => run[p].turns < MaxTurns) /\ Set(p, Responded(run[p], kind))
  <2>1. PICK kind \in {"stop", "more", "error"} :
            (kind = "more" => run[p].turns < MaxTurns) /\ Set(p, Responded(run[p], kind))
    BY <1>3
  <2> DEFINE s == Responded(run[p], kind)
  <2>2. From(s, run[p]) /\ s.stage \in {"over", "turn"} /\ Going(s)
    BY <1>1, <2>1, RespondedGood
  <2> HIDE DEF s
  <2>3. FailingShape(run[p]) => FailingShape(s)
    BY <1>1, <2>2 DEF FailingShape, From
  <2> QED BY <1>1, <1>2, <2>1, <2>2, <2>3, GoingStepped DEF Ahead, s
<1>4. CASE RunThrows(p)
  BY <1>1, <1>2, <1>4, FailedStepped
<1> QED BY <1>3, <1>4 DEF Respond, Responded

\* The summary holds of turn_end.
LEMMA TurnEndStepped ==
    ASSUME Types, NEW p \in Prompts, TurnEnd(p)
    PROVE  Stepped(p)
<1>1. ~Over(p) /\ run[p] \in RunRecord /\ RunShape(run[p]) /\ run[p].pc = "turnEnd" /\ Behind(run[p])
  BY RunOf DEF TurnEnd, At, Over, RunShape
<1>2. UNCHANGED <<phase, session, pendings, calls>>
  BY DEF TurnEnd
<1>3. PICK next \in {"savePoint", "turnThrows"} : Set(p, Flushing(run[p], next))
  BY DEF TurnEnd
<1> DEFINE s == Flushing(run[p], next)
<1>4. /\ s.stage = run[p].stage /\ s.failing = run[p].failing
      /\ s.pc = next \/ (s.pc = "flush" /\ s.then = next)
  BY <1>1, FlushingGood DEF From
<1>5. Set(p, s)
  BY <1>3
<1> HIDE DEF s
<1>6. ~Ends(s) /\ (FailingShape(run[p]) => FailingShape(s)) /\ ~Reading(s)
  BY <1>1, <1>4 DEF Ends, FailingShape, Reading, Ahead, Behind
<1> QED BY <1>1, <1>2, <1>4, <1>5, <1>6, LocalStepped

\* The summary holds of the save point.
LEMMA SavePointStepped ==
    ASSUME Types, NEW p \in Prompts, SavePoint(p)
    PROVE  Stepped(p)
<1>1. /\ ~Over(p) /\ run[p] \in RunRecord /\ RunShape(run[p])
      /\ run[p].pc \in {"savePoint", "turnThrows"} /\ Behind(run[p])
  BY RunOf DEF SavePoint, At, Over, RunShape
<1>2. UNCHANGED <<phase, session, pendings, calls>>
  BY DEF SavePoint
<1>3. CASE (run[p].failing > 0 \/ run[p].stage = "over") /\ Set(p, Flushing(run[p], "idle"))
  <2> DEFINE s == Flushing(run[p], "idle")
  <2>1. Late(run[p])
    BY <1>1 DEF Late, Ahead, Behind
  <2>2. /\ s.stage = run[p].stage /\ s.failing = run[p].failing
        /\ s.pc = "idle" \/ (s.pc = "flush" /\ s.then = "idle")
    BY <1>1, <2>1, FlushingGood DEF From
  <2>3. Set(p, s)
    BY <1>3
  <2> HIDE DEF s
  <2>4. ~Ends(s) /\ FailingShape(s) /\ ~Reading(s)
    BY <2>1, <2>2 DEF Ends, FailingShape, Reading, Late, Ahead
  <2> QED BY <1>1, <1>2, <2>2, <2>3, <2>4, LocalStepped
<1>4. CASE ~(run[p].failing > 0 \/ run[p].stage = "over") /\ Set(p, [run[p] EXCEPT !.pc = "poll"])
  <2> DEFINE s == [run[p] EXCEPT !.pc = "poll"]
  <2>1. "poll" \in PCs /\ Set(p, s)
    BY <1>4 DEF PCs
  <2>2. s.pc = "poll" /\ s.stage = run[p].stage /\ s.failing = run[p].failing
    BY <1>1, <2>1, GoneTo
  <2> HIDE DEF s
  <2>3. run[p].failing = 0
    BY <1>1, <1>4 DEF RunRecord
  <2>4. ~Ends(s) /\ FailingShape(s) /\ ~Reading(s)
    BY <1>1, <2>2, <2>3 DEF Ends, FailingShape, Reading, Behind, Ahead
  <2> QED BY <1>1, <1>2, <2>1, <2>2, <2>4, LocalStepped
<1>5. CASE RunThrows(p)
  BY <1>1, <1>2, <1>5, FailedStepped
<1> QED BY <1>3, <1>4, <1>5 DEF SavePoint

\* The summary holds of a flush that peeks.
LEMMA FlushStepped ==
    ASSUME Types, NEW p \in Prompts, Flush(p)
    PROVE  Stepped(p)
<1>1. ~Over(p) /\ run[p] \in RunRecord /\ RunShape(run[p]) /\ run[p].pc = "flush"
  BY RunOf DEF Flush, At, Over
<1>2. UNCHANGED <<phase, session, pendings, calls>>
  BY DEF Flush
<1>3. CASE pendingSessionWrites = <<>>
  <2> DEFINE then == run[p].then
             s == Flushing(run[p], then)
  <2>1. \/ then \in {"savePoint", "turnThrows"} /\ Behind(run[p])
        \/ then = "refresh" /\ ~Ahead(run[p])
        \/ then \in {"idle", "final"} /\ Late(run[p])
    BY <1>1 DEF RunShape
  <2>2. run'[p] = s /\ \A q \in Prompts \ {p} : run'[q] = run[q]
    BY <1>3, SetRun DEF Flush
  <2>3. then = run[p].then
    OBVIOUS
  <2> HIDE DEF then
  <2>4. /\ s.stage = run[p].stage /\ s.failing = run[p].failing /\ s.context = run[p].context
        /\ s.pc = then
    BY <1>1, <1>3, <2>1, FlushingGood DEF From
  <2> HIDE DEF s
  <2>5. /\ FailingShape(run[p]) => FailingShape(s)
        /\ Reading(s) => Reading(run[p])
        /\ Ends(s) => Ends(run[p])
    BY <1>1, <2>1, <2>3, <2>4 DEF Ends, FailingShape, Reading, Ahead
  <2>6. s.pc \notin {"commit", "flushing"}
    BY <2>1, <2>4
  <2> QED BY <1>1, <1>2, <1>3, <2>2, <2>4, <2>5, <2>6 DEF Stepped, calls, pendings
<1>4. CASE pendingSessionWrites # <<>>
  <2> DEFINE s == Writing(run[p])
  <2>1. /\ s.parent = leaf /\ s.context = run[p].context /\ s.failing = run[p].failing
        /\ s.stage = run[p].stage /\ s.pc = "flushing" /\ s.then = run[p].then
        /\ s.todo = <<Head(pendingSessionWrites)>>
    BY <1>1, <1>4, WritingGood
  <2>2. run'[p] = s /\ \A q \in Prompts \ {p} : run'[q] = run[q]
    BY <1>4, SetRun DEF Flush, Writing
  <2> HIDE DEF s
  <2>3. /\ FailingShape(run[p]) => FailingShape(s)
        /\ Reading(s) => Reading(run[p])
        /\ Ends(s) => Ends(run[p])
    BY <1>1, <2>1 DEF Ends, FailingShape, Reading, Ahead
  <2> QED BY <1>1, <1>2, <1>4, <2>1, <2>2, <2>3 DEF Stepped, calls, pendings
<1> QED BY <1>3, <1>4

\* The summary holds of a flush that writes.
LEMMA FlushOneStepped ==
    ASSUME Types, NEW p \in Prompts, FlushOne(p)
    PROVE  Stepped(p)
<1> DEFINE more == pendingSessionWrites' # <<>>
           s == Wrote(run[p], more)
<1>1. ~Over(p) /\ run[p] \in RunRecord /\ RunShape(run[p]) /\ run[p].pc = "flushing"
  BY RunOf DEF FlushOne, At, Over
<1>2. run'[p] = s /\ \A q \in Prompts \ {p} : run'[q] = run[q]
  BY SetRun DEF FlushOne, Wrote
<1>3. /\ s.context = run[p].context /\ s.failing = run[p].failing /\ s.stage = run[p].stage
      /\ (more /\ s.pc = "flush" /\ s.then = run[p].then) \/ (~more /\ s.pc = run[p].then)
      /\ run[p].then \in {"savePoint", "turnThrows", "refresh", "idle", "final"}
  BY <1>1, WroteGood
<1>4. ~more => pendingSessionWrites' = <<>>
  OBVIOUS
<1> HIDE DEF s, more
<1>5. ~Reading(run[p])
  BY <1>1 DEF RunShape, Reading, Behind, Late, Ahead
<1>6. /\ FailingShape(run[p]) => FailingShape(s)
      /\ Reading(s) => Reading(run[p])
      /\ Ends(s) => Ends(run[p])
  BY <1>1, <1>3 DEF Ends, FailingShape, Reading, Ahead
<1>7. s.pc \notin {"commit", "flushing"} /\ (s.pc = "final" => pendingSessionWrites' = <<>>)
  BY <1>3, <1>4
<1>8. /\ UNCHANGED <<writer, operation, queued, phase>>
      /\ Commit(Head(run[p].todo), run[p].parent)
      /\ pendingSessionWrites' = IF pendingSessionWrites = <<>> THEN <<>> ELSE Tail(pendingSessionWrites)
  BY DEF FlushOne, calls
<1> QED BY <1>1, <1>2, <1>5, <1>6, <1>7, <1>8 DEF Stepped

\* The summary holds of a flush that throws.
LEMMA FlushThrowsStepped ==
    ASSUME Types, NEW p \in Prompts, FlushThrows(p)
    PROVE  Stepped(p)
<1> DEFINE s == IF run[p].then = "final" THEN [Idle EXCEPT !.pc = "final", !.failing = 2]
                ELSE Failed(run[p])
<1>1. ~Over(p) /\ run[p] \in RunRecord
  BY RunOf DEF FlushThrows, At, Over
<1>2. run'[p] = s /\ \A q \in Prompts \ {p} : run'[q] = run[q]
  BY SetRun DEF FlushThrows
<1>3. /\ s.failing \in {1, 2} /\ ~Ends(s) /\ FailingShape(s) /\ s.pc \in {"append", "flush", "final"}
  <2>1. CASE run[p].then = "final"
    BY <2>1, LastGood DEF Ends, FailingShape
  <2>2. CASE run[p].then # "final"
    BY <1>1, <2>2, FailedGood
  <2> QED BY <2>1, <2>2
<1> HIDE DEF s
<1>4. ~Reading(s) /\ (s.pc = "final" => s.failing = 2)
  BY <1>3 DEF Reading, Ends
<1>5. UNCHANGED <<phase, session, pendings, calls>>
  BY DEF FlushThrows
<1> QED BY <1>1, <1>2, <1>3, <1>4, <1>5 DEF Stepped, calls, pendings

\* The summary holds of agent_end.
LEMMA BecomeIdleStepped ==
    ASSUME Types, NEW p \in Prompts, BecomeIdle(p)
    PROVE  Stepped(p)
<1> DEFINE s == [run[p] EXCEPT !.pc = "listeners"]
<1>1. ~Over(p) /\ run[p] \in RunRecord /\ RunShape(run[p]) /\ run[p].pc = "idle" /\ "listeners" \in PCs
  BY RunOf DEF BecomeIdle, At, Over, PCs
<1>2. run'[p] = s /\ \A q \in Prompts \ {p} : run'[q] = run[q]
  BY SetRun DEF BecomeIdle, Goto
<1>3. s.pc = "listeners" /\ s.failing = run[p].failing /\ s.stage = run[p].stage
  BY <1>1, GoneTo
<1> HIDE DEF s
<1>4. FailingShape(s) /\ ~Reading(s)
  BY <1>1, <1>3 DEF FailingShape, Reading, RunShape, Late, Ahead
<1>5. phase' = "idle" /\ UNCHANGED <<session, pendings, calls>>
  BY DEF BecomeIdle
<1> QED BY <1>1, <1>2, <1>3, <1>4, <1>5 DEF Stepped, calls, pendings

\* The summary holds of the listeners of agent_end.
LEMMA ListenersReturnStepped ==
    ASSUME Types, NEW p \in Prompts, ListenersReturn(p)
    PROVE  Stepped(p)
<1>1. /\ ~Over(p) /\ run[p] \in RunRecord /\ RunShape(run[p]) /\ run[p].pc = "listeners" /\ Late(run[p])
  BY RunOf DEF ListenersReturn, At, Over, RunShape
<1>2. UNCHANGED <<phase, session, pendings, calls>>
  BY DEF ListenersReturn
<1>3. CASE Set(p, Flushing(run[p], "final"))
  <2> DEFINE s == Flushing(run[p], "final")
  <2>1. /\ s.stage = run[p].stage /\ s.failing = run[p].failing
        /\ \/ s.pc = "final" /\ pendingSessionWrites = <<>>
           \/ s.pc = "flush" /\ s.then = "final"
    BY <1>1, FlushingGood DEF From
  <2>2. run'[p] = s /\ \A q \in Prompts \ {p} : run'[q] = run[q]
    BY <1>3, SetRun
  <2> HIDE DEF s
  <2>3. (Ends(s) => Ends(run[p])) /\ FailingShape(s) /\ ~Reading(s)
    BY <1>1, <2>1 DEF Ends, FailingShape, Reading, Late, Ahead
  <2> QED BY <1>1, <1>2, <2>1, <2>2, <2>3 DEF Stepped, calls, pendings
<1>4. CASE RunThrows(p)
  BY <1>1, <1>2, <1>4, FailedStepped
<1> QED BY <1>3, <1>4 DEF ListenersReturn

\* The summary holds of the finally blocks.
LEMMA FinishStepped ==
    ASSUME Types, NEW p \in Prompts, Finish(p)
    PROVE  Stepped(p)
<1>1. ~Over(p)
  BY DEF Finish, At, Over
<1>2. PICK pc \in {"done", "rejected"} : Leave(p, pc)
  BY DEF Finish
<1>3. UNCHANGED <<session, pendings, calls>> /\ phase' \in {"idle", phase}
  BY DEF Finish
<1> QED BY <1>1, <1>2, <1>3, LeftStepped

\* So much for each of its steps.
LEMMA RunStepped ==
    ASSUME Types, NEW p \in Prompts, RunStep(p)
    PROVE  Stepped(p)
BY SnapshotStepped, AnnounceNextTurnStepped, BeforeAgentStartStepped, ReadLeafStepped,
   EmitMessageStepped, PollSteeringStepped, PollFollowUpStepped, AnnouncePollStepped, RefreshStepped,
   RespondStepped, TurnEndStepped, SavePointStepped, FlushStepped, FlushOneStepped,
   FlushThrowsStepped, BecomeIdleStepped, ListenersReturnStepped, FinishStepped DEF RunStep

-----------------------------------------------------------------------------
(* Callers that wait for what they started.                                *)

\* abort() only marks the run.
LEMMA AbortMarks ==
    ASSUME Types, Abort, NEW p \in Prompts
    PROVE  /\ run'[p].pc = run[p].pc /\ run'[p].then = run[p].then /\ run'[p].parent = run[p].parent
           /\ run'[p].stage = run[p].stage /\ run'[p].failing = run[p].failing
           /\ run'[p].context = run[p].context /\ run'[p].todo = run[p].todo
<1>1. run[p] \in RunRecord
  BY RunOf
<1>2. CASE run'[p] = run[p]
  BY <1>2
<1>3. CASE run'[p] = [run[p] EXCEPT !.aborted = TRUE]
  BY <1>1, <1>3 DEF RunRecord
<1> QED BY <1>2, <1>3 DEF Abort

\* The first step of prompt().
LEMMA PromptStarts ==
    ASSUME Types, NEW p \in Prompts, Prompt(p)
    PROVE  /\ run'[p].pc = "snapshot" /\ \A q \in Prompts \ {p} : run'[q] = run[q]
           /\ run'[p].failing = run[p].failing /\ run[p].pc = "off"
<1> DEFINE s == [run[p] EXCEPT !.pc = "snapshot"]
<1>1. run'[p] = s /\ \A q \in Prompts \ {p} : run'[q] = run[q]
  BY SetRun DEF Prompt, Goto
<1>2. run[p] \in RunRecord /\ "snapshot" \in PCs
  BY RunOf DEF PCs
<1>3. s.pc = "snapshot" /\ s.failing = run[p].failing
  BY <1>2, GoneTo
<1> HIDE DEF s
<1> QED BY <1>1, <1>3 DEF Prompt, At

\* While one call is under way, no other begins.
LEMMA AloneStep ==
    ASSUME Overlap = FALSE, Types, Alone, [Next]_vars
    PROVE  Alone'
<1>1. ASSUME NEW p \in Prompts, RunStep(p)
      PROVE  Alone'
  <2>1. /\ ~Over(p) /\ \A q \in Prompts \ {p} : run'[q] = run[q]
        /\ UNCHANGED <<writer, operation>>
    BY <1>1, RunStepped DEF Stepped
  <2> QED BY <2>1 DEF Alone, Over
<1>2. ASSUME NEW p \in Prompts, Prompt(p)
      PROVE  Alone'
  <2>1. Settled /\ UNCHANGED <<writer, operation>>
    BY <1>2 DEF Prompt, MayCall, calls
  <2>2. \A q \in Prompts \ {p} : run'[q] = run[q]
    BY <1>2, PromptStarts
  <2> QED BY <2>1, <2>2 DEF Settled, Alone, Over
<1>3. CASE Steer \/ FollowUp \/ NextTurn \/ AbortWaits \/ AbortReturns \/ UNCHANGED vars
  <2>1. UNCHANGED <<run, writer, operation>>
    BY <1>3 DEF Steer, FollowUp, NextTurn, AbortWaits, AbortReturns, vars, calls
  <2> QED BY <2>1 DEF Alone, Over
<1>4. CASE Abort
  <2>1. \A p \in Prompts : run'[p].pc = run[p].pc
    BY <1>4, AbortMarks
  <2>2. UNCHANGED <<writer, operation>>
    BY <1>4 DEF Abort
  <2> QED BY <2>1, <2>2 DEF Alone, Over
<1>5. ASSUME NEW w \in Writes, AppendMessage(w)
      PROVE  Alone'
  <2>1. UNCHANGED <<run, operation>> /\ writer \in [Writes -> [pc : {"off", "reading", "done"}, parent : Nat]]
    BY <1>5 DEF AppendMessage, Types, CallTypes
  <2>2. CASE phase = "idle"
    <3>1. Settled /\ writer' = [writer EXCEPT ![w] = [pc |-> "reading", parent |-> leaf]]
      BY <1>5, <2>2 DEF AppendMessage, MayCall
    <3>2. \A v \in Writes : v # w => writer'[v].pc # "reading"
      BY <2>1, <3>1 DEF Settled
    <3> QED BY <2>1, <3>1, <3>2 DEF Settled, Alone, Over
  <2>3. CASE phase # "idle"
    <3>1. writer' = [writer EXCEPT ![w].pc = "done"]
      BY <1>5, <2>3 DEF AppendMessage
    <3>2. \A v \in Writes : writer'[v].pc = "reading" => writer[v].pc = "reading"
      BY <2>1, <3>1
    <3> QED BY <2>1, <3>2 DEF Alone, Over
  <2> QED BY <2>2, <2>3
<1>6. ASSUME NEW w \in Writes, AppendedDirectly(w)
      PROVE  Alone'
  <2>1. UNCHANGED <<run, operation>> /\ writer \in [Writes -> [pc : {"off", "reading", "done"}, parent : Nat]]
        /\ writer' = [writer EXCEPT ![w].pc = "done"]
    BY <1>6 DEF AppendedDirectly, Types, CallTypes
  <2>2. \A v \in Writes : writer'[v].pc = "reading" => writer[v].pc = "reading"
    BY <2>1
  <2> QED BY <2>1, <2>2 DEF Alone, Over
<1>7. ASSUME NEW op \in Operations, StructuralCall(op)
      PROVE  Alone'
  BY <1>7 DEF StructuralCall, MayCall, Settled, Alone, Over
<1>8. CASE StructuralReturn
  BY <1>8 DEF StructuralReturn, Alone, Over
<1> QED BY <1>1, <1>2, <1>3, <1>4, <1>5, <1>6, <1>7, <1>8 DEF Next, CallStep

\* A write to the session by what is not a run.
LEMMA LeafIsReadStep ==
    ASSUME Types, Alone, LeafIsRead, [Next]_vars
    PROVE  LeafIsRead'
<1>1. ASSUME NEW p \in Prompts, RunStep(p)
      PROVE  LeafIsRead'
  <2>1. Stepped(p)
    BY <1>1, RunStepped
  <2>2. /\ ~Over(p) /\ \A q \in Prompts \ {p} : run'[q] = run[q] /\ Over(q)
        /\ UNCHANGED writer /\ \A w \in Writes : writer[w].pc # "reading"
    BY <2>1 DEF Stepped, Alone
  <2>3. \A q \in Prompts \ {p} : run'[q].pc \notin {"commit", "flushing"}
    BY <2>2 DEF Over
  <2>4. run'[p].pc \in {"commit", "flushing"} => run'[p].parent = leaf'
    BY <2>1 DEF Stepped, session
  <2> QED BY <2>2, <2>3, <2>4 DEF LeafIsRead
<1>2. ASSUME NEW p \in Prompts, Prompt(p)
      PROVE  LeafIsRead'
  <2>1. UNCHANGED <<session, writer>> /\ run'[p].pc = "snapshot" /\ \A q \in Prompts \ {p} : run'[q] = run[q]
    BY <1>2, PromptStarts DEF Prompt, calls
  <2> QED BY <2>1 DEF LeafIsRead, session
<1>3. CASE \/ Steer \/ FollowUp \/ NextTurn \/ AbortWaits \/ AbortReturns \/ UNCHANGED vars
           \/ \E op \in Operations : StructuralCall(op)
  <2>1. UNCHANGED <<session, run, writer>>
    BY <1>3 DEF Steer, FollowUp, NextTurn, AbortWaits, AbortReturns, vars, calls, StructuralCall, session
  <2> QED BY <2>1 DEF LeafIsRead, session
<1>4. CASE Abort
  <2>1. \A p \in Prompts : run'[p].pc = run[p].pc /\ run'[p].parent = run[p].parent
    BY <1>4, AbortMarks
  <2>2. UNCHANGED <<writer, session>>
    BY <1>4 DEF Abort
  <2> QED BY <2>1, <2>2 DEF LeafIsRead, session
<1>5. ASSUME NEW w \in Writes, AppendMessage(w)
      PROVE  LeafIsRead'
  <2>1. UNCHANGED <<run, session>> /\ writer \in [Writes -> [pc : {"off", "reading", "done"}, parent : Nat]]
    BY <1>5 DEF AppendMessage, Types, CallTypes
  <2>2. \/ writer' = [writer EXCEPT ![w] = [pc |-> "reading", parent |-> leaf]]
        \/ writer' = [writer EXCEPT ![w].pc = "done"]
    BY <1>5 DEF AppendMessage
  <2>3. \A v \in Writes : writer'[v].pc = "reading" => writer'[v].parent = leaf
    <3>1. CASE writer' = [writer EXCEPT ![w] = [pc |-> "reading", parent |-> leaf]]
      BY <2>1, <3>1 DEF LeafIsRead
    <3>2. CASE writer' = [writer EXCEPT ![w].pc = "done"]
      BY <2>1, <3>2 DEF LeafIsRead
    <3> QED BY <2>2, <3>1, <3>2
  <2> QED BY <2>1, <2>3 DEF LeafIsRead, session
<1>6. ASSUME NEW w \in Writes, AppendedDirectly(w)
      PROVE  LeafIsRead'
  <2>1. UNCHANGED run /\ writer \in [Writes -> [pc : {"off", "reading", "done"}, parent : Nat]]
        /\ writer' = [writer EXCEPT ![w].pc = "done"] /\ writer[w].pc = "reading"
    BY <1>6 DEF AppendedDirectly, Types, CallTypes
  <2>2. \A v \in Writes : writer'[v].pc # "reading"
    BY <2>1 DEF Alone
  <2>3. \A p \in Prompts : run'[p].pc \notin {"commit", "flushing"}
    BY <2>1 DEF Alone, Over
  <2> QED BY <2>2, <2>3 DEF LeafIsRead
<1>7. CASE StructuralReturn
  <2>1. UNCHANGED <<run, writer>> /\ operation # "none"
    BY <1>7 DEF StructuralReturn
  <2>2. \A v \in Writes : writer'[v].pc # "reading"
    BY <2>1 DEF Alone
  <2>3. \A p \in Prompts : run'[p].pc \notin {"commit", "flushing"}
    BY <2>1 DEF Alone, Over
  <2> QED BY <2>2, <2>3 DEF LeafIsRead
<1> QED BY <1>1, <1>2, <1>3, <1>4, <1>5, <1>6, <1>7 DEF Next, CallStep

\* The context of a run follows the branch until its request.
LEMMA ContextStep ==
    ASSUME Types, Alone, LeafIsRead, ContextIsBranch, [Next]_vars
    PROVE  ContextIsBranch'
<1>1. ASSUME NEW p \in Prompts, RunStep(p)
      PROVE  ContextIsBranch'
  <2>1. Stepped(p)
    BY <1>1, RunStepped
  <2>2. \A q \in Prompts \ {p} : run'[q] = run[q] /\ Over(q)
    BY <2>1 DEF Stepped, Alone
  <2>3. \A q \in Prompts \ {p} : run'[q].pc = "off" \/ ~Reading(run'[q])
    BY <2>2 DEF Over, Reading
  <2>4. \A q \in Prompts \ {p} : ~Reading(run'[q])
    BY <2>3 DEF Reading
  <2>5. UNCHANGED session => Shown' = Shown
    BY DEF session, Shown, Path
  <2>6. ASSUME Reading(run'[p])
        PROVE  run'[p].context = Shown'
    <3>1. CASE run'[p].context = Shown /\ UNCHANGED session
      BY <2>5, <3>1
    <3>2. CASE /\ Reading(run[p]) /\ run[p].pc = "commit" /\ Commit(Head(run[p].todo), run[p].parent)
               /\ run'[p].context = Append(run[p].context, Head(run[p].todo))
      <4>1. run[p].parent = leaf /\ run[p].context = Shown
        BY <3>2 DEF LeafIsRead, ContextIsBranch
      <4>2. Head(run[p].todo) \in Entries /\ SessionTypes
        BY <3>2, RunOf, EmittedGood DEF Types
      <4>3. Shown' = Append(Shown, Head(run[p].todo))
        BY <3>2, <4>1, <4>2, CommitShows
      <4> QED BY <3>2, <4>1, <4>3
    <3>3. CASE Reading(run[p]) /\ run'[p].context = run[p].context /\ UNCHANGED session
      BY <2>5, <3>3 DEF ContextIsBranch
    <3> QED BY <2>1, <2>6, <3>1, <3>2, <3>3 DEF Stepped
  <2> QED BY <2>4, <2>6 DEF ContextIsBranch
<1>2. ASSUME NEW p \in Prompts, Prompt(p)
      PROVE  ContextIsBranch'
  <2>1. UNCHANGED session /\ run'[p].pc = "snapshot" /\ \A q \in Prompts \ {p} : run'[q] = run[q]
    BY <1>2, PromptStarts DEF Prompt
  <2>2. Shown' = Shown /\ ~Reading(run'[p])
    BY <2>1 DEF session, Shown, Path, Reading
  <2> QED BY <2>1, <2>2 DEF ContextIsBranch
<1>3. CASE \/ Steer \/ FollowUp \/ NextTurn \/ AbortWaits \/ AbortReturns \/ UNCHANGED vars
           \/ (\E op \in Operations : StructuralCall(op)) \/ (\E w \in Writes : AppendMessage(w))
  <2>1. UNCHANGED <<session, run>>
    BY <1>3 DEF Steer, FollowUp, NextTurn, AbortWaits, AbortReturns, vars, calls, StructuralCall, session,
                AppendMessage
  <2>2. Shown' = Shown
    BY <2>1 DEF session, Shown, Path
  <2> QED BY <2>1, <2>2 DEF ContextIsBranch
<1>4. CASE Abort
  <2>1. \A p \in Prompts : /\ run'[p].pc = run[p].pc /\ run'[p].stage = run[p].stage
                           /\ run'[p].failing = run[p].failing /\ run'[p].context = run[p].context
    BY <1>4, AbortMarks
  <2>2. Shown' = Shown
    BY <1>4 DEF Abort, session, Shown, Path
  <2>3. \A p \in Prompts : Reading(run'[p]) => Reading(run[p])
    BY <2>1 DEF Reading, Ahead
  <2> QED BY <2>1, <2>2, <2>3 DEF ContextIsBranch
<1>5. CASE (\E w \in Writes : AppendedDirectly(w)) \/ StructuralReturn
  <2>1. UNCHANGED run /\ \A p \in Prompts : Over(p)
    BY <1>5 DEF AppendedDirectly, StructuralReturn, Alone
  <2>2. \A p \in Prompts : ~Reading(run'[p])
    BY <2>1 DEF Over, Reading
  <2> QED BY <2>2 DEF ContextIsBranch
<1> QED BY <1>1, <1>2, <1>3, <1>4, <1>5 DEF Next, CallStep

-----------------------------------------------------------------------------
(* The queued writes that the session has.                                 *)

\* Those of each beginning of the tree, as WrittenInOrder defines them.
WrittenIn(t, q) ==
    CHOOSE written : written =
        [i \in 0..Len(t) |-> IF i = 0 THEN <<>>
                             ELSE IF t[i].what \in Range(q) THEN Append(written[i - 1], t[i].what)
                             ELSE written[i - 1]]

\* Of the session itself.
LEMMA InOrder == WrittenInOrder <=> queued = WrittenIn(tree, queued)[Len(tree)] \o pendingSessionWrites
BY DEF WrittenInOrder, WrittenIn

Earlier(t) == [j \in 1..Len(t) |-> j - 1]
Picks(t, q) == [j \in 1..Len(t) |-> [s \in Seq(Writes) |-> IF t[j].what \in Range(q) THEN Append(s, t[j].what) ELSE s]]

\* There are such sequences, and they are of writes.
LEMMA WrittenInExists ==
    ASSUME NEW t \in Trees, NEW q \in Seq(Writes)
    PROVE  /\ WrittenIn(t, q) \in [0..Len(t) -> Seq(Writes)]
           /\ WrittenIn(t, q)[0] = <<>>
           /\ \A j \in 1..Len(t) :
                 WrittenIn(t, q)[j] = IF t[j].what \in Range(q) THEN Append(WrittenIn(t, q)[j - 1], t[j].what)
                                      ELSE WrittenIn(t, q)[j - 1]
           /\ Recursive(WrittenIn(t, q), Len(t), <<>>, Earlier(t), Picks(t, q))
<1>1. Len(t) \in Nat /\ Range(q) \subseteq Writes
  BY DEF Trees, Range
<1>2. \A j \in 1..Len(t) : Earlier(t)[j] = j - 1 /\ j - 1 \in 0..Len(t)
  BY <1>1 DEF Earlier
<1>3. \A j \in 1..Len(t), s \in Seq(Writes) :
          /\ Picks(t, q)[j][s] = IF t[j].what \in Range(q) THEN Append(s, t[j].what) ELSE s
          /\ Picks(t, q)[j][s] \in Seq(Writes)
  BY <1>1 DEF Picks
<1>4. PICK f \in [0..Len(t) -> Seq(Writes)] : Recursive(f, Len(t), <<>>, Earlier(t), Picks(t, q))
  <2>1. <<>> \in Seq(Writes) /\ \A j \in 1..Len(t) : Earlier(t)[j] \in 0..(j - 1)
    BY <1>2
  <2> QED BY <1>1, <1>3, <2>1, RecursionExists
<1>5. ASSUME NEW j \in 0..Len(t)
      PROVE  f[j] = IF j = 0 THEN <<>>
                    ELSE IF t[j].what \in Range(q) THEN Append(f[j - 1], t[j].what) ELSE f[j - 1]
  <2>1. f[j] = IF j = 0 THEN <<>> ELSE Picks(t, q)[j][f[Earlier(t)[j]]]
    BY <1>4 DEF Recursive
  <2>2. CASE j = 0
    BY <2>1, <2>2
  <2>3. CASE j # 0
    <3>1. j \in 1..Len(t) /\ Earlier(t)[j] = j - 1 /\ j - 1 \in 0..Len(t)
      BY <1>1, <1>2, <2>3
    <3>2. f[j - 1] \in Seq(Writes)
      BY <3>1
    <3> QED BY <1>3, <2>1, <2>3, <3>1, <3>2
  <2> QED BY <2>2, <2>3
<1> DEFINE body(written) ==
               [i \in 0..Len(t) |-> IF i = 0 THEN <<>>
                                    ELSE IF t[i].what \in Range(q) THEN Append(written[i - 1], t[i].what)
                                    ELSE written[i - 1]]
           g == WrittenIn(t, q)
<1>6. f = body(f)
  <2>1. f = [j \in 0..Len(t) |-> f[j]]
    OBVIOUS
  <2> QED BY <1>5, <2>1
<1>7. g = body(g)
  BY <1>6 DEF WrittenIn
<1>8. \A j \in 0..Len(t) :
          g[j] = IF j = 0 THEN <<>>
                 ELSE IF t[j].what \in Range(q) THEN Append(g[j - 1], t[j].what) ELSE g[j - 1]
  <2> HIDE DEF g
  <2> QED BY <1>7
<1>9. \A j \in 0..Len(t) : g[j] = f[j]
  <2> DEFINE T == {k \in 0..Len(t) : g[k] # f[k]}
  <2> SUFFICES ASSUME T # {} PROVE FALSE
    OBVIOUS
  <2>1. PICK k \in T : \A j \in T : k <= j
    <3>1. T \in SUBSET Nat /\ T # {}
      OBVIOUS
    <3> HIDE DEF T
    <3> QED BY <3>1, Least
  <2>2. k # 0
    BY <1>5, <1>8, <2>1
  <2>3. k - 1 \in 0..Len(t)
    BY <2>1, <2>2
  <2>4. g[k - 1] = f[k - 1]
    BY <2>1, <2>3
  <2> QED BY <1>5, <1>8, <2>1, <2>2, <2>4
<1>10. g = [j \in 0..Len(t) |-> g[j]]
  <2> HIDE DEF g
  <2> QED BY <1>7
<1>11. g = f
  <2> HIDE DEF g
  <2> QED BY <1>9, <1>10
<1>12. 0 \in 0..Len(t) /\ \A j \in 1..Len(t) : j \in 0..Len(t) /\ j # 0
  BY <1>1
<1> QED BY <1>4, <1>5, <1>11, <1>12

\* More entries, or more queued writes that the session does not have, leave the
\* sequences as they are.
LEMMA WrittenInAgrees ==
    ASSUME NEW t \in Trees, NEW q \in Seq(Writes), NEW u \in Trees, NEW v \in Seq(Writes),
           Len(t) <= Len(u), \A j \in 1..Len(t) : u[j] = t[j],
           \A j \in 1..Len(t) : t[j].what \in Range(v) <=> t[j].what \in Range(q)
    PROVE  \A j \in 0..Len(t) : WrittenIn(u, v)[j] = WrittenIn(t, q)[j]
<1> DEFINE n == Len(t)
           m == Len(u)
           first == <<>>
           f == WrittenIn(t, q)
           g == WrittenIn(u, v)
           before == Earlier(t)
           later == Earlier(u)
           step == Picks(t, q)
           move == Picks(u, v)
<1>1. n \in Nat /\ m \in Nat /\ n <= m
  BY DEF Trees
<1>2. /\ Recursive(f, n, first, before, step) /\ Recursive(g, m, first, later, move)
      /\ f \in [0..n -> Seq(Writes)]
  BY WrittenInExists
<1>3. \A j \in 1..n : before[j] \in 0..(j - 1) /\ later[j] = before[j]
  BY <1>1 DEF Earlier
<1>4. ASSUME NEW j \in 1..n
      PROVE  move[j][f[before[j]]] = step[j][f[before[j]]]
  <2>1. j \in 1..m /\ u[j] = t[j] /\ (t[j].what \in Range(v) <=> t[j].what \in Range(q))
    BY <1>1
  <2>2. move[j] = step[j]
    <3>1. \A s \in Seq(Writes) : (IF u[j].what \in Range(v) THEN Append(s, u[j].what) ELSE s)
                                  = (IF t[j].what \in Range(q) THEN Append(s, t[j].what) ELSE s)
      BY <2>1
    <3> QED BY <2>1, <3>1 DEF Picks
  <2> QED BY <2>2
<1>5. Recursive(f, n, first, before, step)
  BY <1>2
<1>6. Recursive(g, m, first, later, move)
  BY <1>2
<1> HIDE DEF n, m, first, f, g, before, later, step, move
<1>7. \A j \in 0..n : g[j] = f[j]
  <2>1. \A j \in 1..n : move[j][f[before[j]]] = step[j][f[before[j]]]
    BY <1>4
  <2>2. n \in Nat /\ m \in Nat /\ n <= m
    BY <1>1
  <2> QED BY <2>1, <2>2, <1>3, <1>5, <1>6, RecursionAgrees, SMTT(60)
<1> QED BY <1>7 DEF n, f, g

\* An entry joins the session: a queued write is the last of those written, another
\* entry none of them.
LEMMA WrittenByCommit ==
    ASSUME Types, NEW what \in Entries, NEW parent \in 0..Len(tree), Commit(what, parent), queued' = queued
    PROVE  WrittenIn(tree', queued')[Len(tree')] =
              IF what \in Range(queued) THEN Append(WrittenIn(tree, queued)[Len(tree)], what)
              ELSE WrittenIn(tree, queued)[Len(tree)]
<1>1. SessionTypes /\ tree \in Trees /\ queued \in Seq(Writes) /\ Len(tree) \in Nat
  BY DEF Types, SessionTypes, Trees, WriteTypes
<1>2. /\ SessionTypes' /\ Len(tree') = Len(tree) + 1 /\ \A i \in 1..Len(tree) : tree'[i] = tree[i]
      /\ tree'[Len(tree')] = [what |-> what, parent |-> parent]
  BY <1>1, CommitTyped
<1>3. tree' \in Trees
  BY <1>2 DEF SessionTypes, Trees
<1> DEFINE t == tree
           u == tree'
           q == queued
<1>4. /\ t \in Trees /\ u \in Trees /\ q \in Seq(Writes) /\ Len(t) \in Nat /\ Len(u) = Len(t) + 1
      /\ (\A i \in 1..Len(t) : u[i] = t[i]) /\ u[Len(u)].what = what
  BY <1>1, <1>2, <1>3
<1>5. q = queued /\ q = queued' /\ t = tree /\ u = tree'
  OBVIOUS
<1> HIDE DEF t, u, q
<1>6. WrittenIn(u, q)[Len(t)] = WrittenIn(t, q)[Len(t)]
  BY <1>4, WrittenInAgrees
<1>7. Len(u) \in 1..Len(u) /\ Len(u) - 1 = Len(t)
  BY <1>4
<1>8. WrittenIn(u, q)[Len(u)] = IF u[Len(u)].what \in Range(q) THEN Append(WrittenIn(u, q)[Len(u) - 1], u[Len(u)].what)
                                ELSE WrittenIn(u, q)[Len(u) - 1]
  BY <1>4, <1>7, WrittenInExists
<1> QED BY <1>4, <1>5, <1>6, <1>7, <1>8

\* Of sequences.
LEMMA AppendJoined ==
    \A a, b \in Seq(Writes), e \in Writes : Append(a \o b, e) = a \o Append(b, e)
<1> TAKE a, b \in Seq(Writes), e \in Writes
<1> QED OBVIOUS

\* Moving the head of one sequence to the end of the other.
LEMMA HeadMoved ==
    ASSUME NEW S, NEW a \in Seq(S), NEW b \in Seq(S), b # <<>>
    PROVE  a \o b = Append(a, Head(b)) \o Tail(b) /\ Head(b) \in Range(a \o b)
<1>1. Len(b) \in Nat \ {0} /\ Len(a) \in Nat /\ Head(b) = b[1] /\ Tail(b) \in Seq(S) /\ Len(Tail(b)) = Len(b) - 1
  OBVIOUS
<1>2. \A i \in 1..Len(Tail(b)) : Tail(b)[i] = b[i + 1]
  BY <1>1
<1>3. (a \o b)[Len(a) + 1] = b[1] /\ Len(a) + 1 \in 1..Len(a \o b)
  BY <1>1
<1>4. Head(b) \in Range(a \o b)
  BY <1>1, <1>3 DEF Range
<1>5. Head(b) \in S
  OBVIOUS
<1> DEFINE c == Append(a, Head(b))
<1>6. c \in Seq(S) /\ Len(c) = Len(a) + 1 /\ c[Len(a) + 1] = b[1] /\ \A i \in 1..Len(a) : c[i] = a[i]
  BY <1>1, <1>5
<1> HIDE DEF c
<1> DEFINE l == a \o b
           r == c \o Tail(b)
<1>7. /\ l \in Seq(S) /\ r \in Seq(S) /\ Len(l) = Len(a) + Len(b) /\ Len(r) = Len(a) + Len(b)
  BY <1>1, <1>6
<1>8. ASSUME NEW i \in 1..Len(l)
      PROVE  l[i] = r[i]
  <2>1. CASE i <= Len(a)
    BY <1>1, <1>6, <1>7, <2>1
  <2>2. CASE i = Len(a) + 1
    BY <1>1, <1>3, <1>6, <1>7, <2>2
  <2>3. CASE i > Len(a) + 1
    <3>1. i - Len(a) \in 1..Len(b) /\ i - (Len(a) + 1) \in 1..Len(Tail(b))
      BY <1>1, <1>7, <2>3
    <3>2. l[i] = b[i - Len(a)]
      BY <1>1, <1>7, <2>3
    <3>3. r[i] = Tail(b)[i - Len(c)]
      BY <1>1, <1>6, <1>7, <2>3
    <3> QED BY <1>1, <1>2, <1>6, <3>1, <3>2, <3>3
  <2> QED BY <1>1, <1>7, <2>1, <2>2, <2>3
<1>9. l = r
  <2> HIDE DEF l, r
  <2>1. DOMAIN l = 1..Len(l) /\ DOMAIN r = 1..Len(l)
    BY <1>7
  <2> QED BY <1>7, <1>8, <2>1
<1> QED BY <1>4, <1>9 DEF c

-----------------------------------------------------------------------------
(* The writes step by step.                                                *)

\* What a run says is no write.
LEMMA SaidIsNoWrite == Said \cap Writes = {} /\ Operations \cap Writes = {} /\ Said \subseteq Entries
BY EntriesAssumption, MessagesAreEntries DEF Said

\* An entry that is no queued write leaves them in order.
LEMMA OrderKept ==
    ASSUME Types, WrittenInOrder, NEW what \in Entries, NEW parent \in 0..Len(tree), Commit(what, parent),
           what \notin Range(queued), UNCHANGED pendings
    PROVE  WrittenInOrder'
<1>1. WrittenIn(tree', queued')[Len(tree')] = WrittenIn(tree, queued)[Len(tree)]
  BY WrittenByCommit DEF pendings
<1>2. WrittenInOrder' <=> queued' = WrittenIn(tree', queued')[Len(tree')] \o pendingSessionWrites'
  BY DEF WrittenInOrder, WrittenIn
<1> QED BY <1>1, <1>2, InOrder DEF pendings

\* As do the same entries and the same writes.
LEMMA OrderStays ==
    ASSUME WrittenInOrder, tree' = tree, UNCHANGED pendings
    PROVE  WrittenInOrder' /\ \A w : Holds(w)' <=> Holds(w)
<1>1. WrittenInOrder' <=> queued' = WrittenIn(tree', queued')[Len(tree')] \o pendingSessionWrites'
  BY DEF WrittenInOrder, WrittenIn
<1>2. WrittenInOrder'
  BY <1>1, InOrder DEF pendings
<1>3. \A w : Holds(w)' <=> Holds(w)
  BY DEF Holds
<1> QED BY <1>2, <1>3

\* What the session holds behind a commit.
LEMMA HoldsCommitted ==
    ASSUME Types, NEW what \in Entries, NEW parent \in 0..Len(tree), Commit(what, parent), NEW w, Holds(w)'
    PROVE  Holds(w) \/ w = what
<1>1. SessionTypes
  BY DEF Types
<1>2. /\ SessionTypes' /\ Len(tree') = Len(tree) + 1 /\ \A i \in 1..Len(tree) : tree'[i] = tree[i]
      /\ tree'[Len(tree')] = [what |-> what, parent |-> parent]
  BY <1>1, CommitTyped
<1>3. PICK i \in 1..Len(tree') : tree'[i].what = w
  BY <1>2 DEF Holds, SessionTypes
<1>4. CASE i = Len(tree')
  BY <1>2, <1>3, <1>4
<1>5. CASE i # Len(tree')
  <2>1. i \in 1..Len(tree) /\ tree[i].what = w
    BY <1>1, <1>2, <1>3, <1>5 DEF SessionTypes
  <2> QED BY <1>1, <2>1 DEF Holds, SessionTypes
<1> QED BY <1>4, <1>5

\* The pending writes are queued ones.
LEMMA PendingQueued ==
    ASSUME Types, WrittenInOrder, pendingSessionWrites # <<>>
    PROVE  /\ Head(pendingSessionWrites) \in Range(queued) /\ Head(pendingSessionWrites) \in Writes
           /\ queued = Append(WrittenIn(tree, queued)[Len(tree)], Head(pendingSessionWrites))
                       \o Tail(pendingSessionWrites)
<1> DEFINE a == WrittenIn(tree, queued)[Len(tree)]
           b == pendingSessionWrites
<1>1. tree \in Trees /\ queued \in Seq(Writes) /\ b \in Seq(Writes) /\ Len(tree) \in 0..Len(tree)
  BY DEF Types, SessionTypes, Trees, WriteTypes
<1>2. a \in Seq(Writes)
  BY <1>1, WrittenInExists
<1>3. queued = a \o b
  BY InOrder
<1>4. Head(b) \in Writes
  BY <1>1
<1> HIDE DEF a
<1>5. Head(b) \in Range(a \o b) /\ a \o b = Append(a, Head(b)) \o Tail(b)
  BY <1>1, <1>2, HeadMoved
<1> QED BY <1>3, <1>4, <1>5 DEF a

\* A step of a run keeps the writes in order.
LEMMA WritesOfRun ==
    ASSUME Types, Alone, LeafIsRead, WritesPlaced, NEW p \in Prompts, RunStep(p)
    PROVE  WritesPlaced'
<1>1. Stepped(p)
  BY RunStepped
<1>2. /\ run[p] \in RunRecord /\ RunShape(run[p]) /\ run[p].parent \in 0..Len(tree)
  BY RunOf
<1>3. /\ UNCHANGED <<writer, queued>> /\ \A q \in Prompts \ {p} : run'[q] = run[q] /\ Over(q)
  BY <1>1 DEF Stepped, Alone
<1>4. /\ WrittenInOrder'
      /\ \A w \in Writes : writer[w].pc = "off" => ~Holds(w)'
  <2>1. CASE UNCHANGED <<session, pendingSessionWrites>>
    <3>1. tree' = tree /\ UNCHANGED pendings
      BY <1>3, <2>1 DEF session, pendings
    <3> QED BY <3>1, OrderStays DEF WritesPlaced
  <2>2. CASE /\ run[p].pc = "commit" /\ Commit(Head(run[p].todo), run[p].parent)
             /\ UNCHANGED pendingSessionWrites
    <3> DEFINE what == Head(run[p].todo)
    <3>1. what \in Entries /\ what \notin Writes
      BY <1>2, <2>2, EmittedGood, SaidIsNoWrite
    <3>2. what \notin Range(queued)
      BY <3>1 DEF Types, WriteTypes, Range
    <3>3. Commit(what, run[p].parent) /\ UNCHANGED pendings /\ WrittenInOrder
      BY <1>3, <2>2 DEF pendings, WritesPlaced
    <3> HIDE DEF what
    <3>4. WrittenInOrder'
      BY <1>2, <3>1, <3>2, <3>3, OrderKept
    <3>5. \A w \in Writes : Holds(w)' => Holds(w)
      BY <1>2, <3>1, <3>3, HoldsCommitted
    <3> QED BY <3>4, <3>5 DEF WritesPlaced
  <2>3. CASE /\ run[p].pc = "flushing" /\ Commit(Head(run[p].todo), run[p].parent)
             /\ pendingSessionWrites' =
                   IF pendingSessionWrites = <<>> THEN <<>> ELSE Tail(pendingSessionWrites)
    <3> DEFINE what == Head(pendingSessionWrites)
    <3>1. pendingSessionWrites # <<>> /\ run[p].todo = <<what>> /\ WrittenInOrder
      BY <2>3 DEF WritesPlaced
    <3>2. /\ what \in Range(queued) /\ what \in Writes
          /\ queued = Append(WrittenIn(tree, queued)[Len(tree)], what) \o Tail(pendingSessionWrites)
      BY <3>1, PendingQueued
    <3>3. what \in Entries /\ Commit(what, run[p].parent)
      BY <2>3, <3>1, <3>2, MessagesAreEntries
    <3> HIDE DEF what
    <3>4. WrittenIn(tree', queued')[Len(tree')] = Append(WrittenIn(tree, queued)[Len(tree)], what)
      BY <1>2, <1>3, <3>2, <3>3, WrittenByCommit
    <3>5. WrittenInOrder' <=> queued' = WrittenIn(tree', queued')[Len(tree')] \o pendingSessionWrites'
      BY DEF WrittenInOrder, WrittenIn
    <3>6. WrittenInOrder'
      BY <1>3, <2>3, <3>1, <3>2, <3>4, <3>5
    <3>7. writer[what].pc = "done"
      BY <3>2 DEF WritesPlaced
    <3>8. \A w \in Writes : Holds(w)' => Holds(w) \/ w = what
      BY <1>2, <3>3, HoldsCommitted
    <3> QED BY <3>6, <3>7, <3>8 DEF WritesPlaced
  <2> QED BY <1>1, <2>1, <2>2, <2>3 DEF Stepped
<1>5. \A w \in Writes : writer'[w].pc # "done" => w \notin Range(queued')
  BY <1>3 DEF WritesPlaced
<1>6. ASSUME NEW q \in Prompts
      PROVE  /\ FailingShape(run'[q])
             /\ run'[q].pc = "flushing" => /\ pendingSessionWrites' # <<>>
                                           /\ run'[q].todo = <<Head(pendingSessionWrites')>>
             /\ Ends(run'[q]) => phase' = "idle"
             /\ run'[q].pc = "final" /\ run'[q].failing < 2 => pendingSessionWrites' = <<>>
  <2>1. CASE q = p
    BY <1>1, <2>1 DEF Stepped, WritesPlaced
  <2>2. CASE q # p
    <3>1. run'[q] = run[q] /\ run[q].pc \in {"off", "done", "rejected"}
      BY <1>3, <2>2 DEF Over
    <3>2. FailingShape(run'[q])
      BY <3>1 DEF WritesPlaced
    <3> QED BY <3>1, <3>2 DEF Ends
  <2> QED BY <2>1, <2>2
<1> QED BY <1>3, <1>4, <1>5, <1>6 DEF WritesPlaced

\* What is about runs holds as long as they keep their places.
LEMMA WritesOfCall ==
    ASSUME Types, WritesPlaced,
           \A p \in Prompts : /\ run'[p].pc = run[p].pc /\ run'[p].then = run[p].then
                              /\ run'[p].failing = run[p].failing /\ run'[p].todo = run[p].todo,
           phase' # phase => phase' = "idle" \/ \A p \in Prompts : Over(p),
           \/ UNCHANGED pendingSessionWrites
           \/ phase # "idle" /\ \E w \in Writes : pendingSessionWrites' = Append(pendingSessionWrites, w)
    PROVE  \A p \in Prompts :
              /\ FailingShape(run'[p])
              /\ run'[p].pc = "flushing" => /\ pendingSessionWrites' # <<>>
                                            /\ run'[p].todo = <<Head(pendingSessionWrites')>>
              /\ Ends(run'[p]) => phase' = "idle"
              /\ run'[p].pc = "final" /\ run'[p].failing < 2 => pendingSessionWrites' = <<>>
<1> SUFFICES ASSUME NEW p \in Prompts
             PROVE  /\ FailingShape(run'[p])
                    /\ run'[p].pc = "flushing" => /\ pendingSessionWrites' # <<>>
                                                  /\ run'[p].todo = <<Head(pendingSessionWrites')>>
                    /\ Ends(run'[p]) => phase' = "idle"
                    /\ run'[p].pc = "final" /\ run'[p].failing < 2 => pendingSessionWrites' = <<>>
  OBVIOUS
<1>1. /\ run'[p].pc = run[p].pc /\ run'[p].then = run[p].then
      /\ run'[p].failing = run[p].failing /\ run'[p].todo = run[p].todo
  OBVIOUS
<1>2. FailingShape(run'[p]) /\ (Ends(run'[p]) <=> Ends(run[p]))
  <2>1. FailingShape(run[p])
    BY DEF WritesPlaced
  <2> QED BY <1>1, <2>1 DEF FailingShape, Ends
<1>3. Ends(run'[p]) => phase' = "idle" /\ phase = "idle"
  <2>1. Ends(run[p]) => phase = "idle" /\ ~Over(p)
    BY DEF WritesPlaced, Ends, Over
  <2> QED BY <1>2, <2>1
<1>4. run'[p].pc = "flushing" => /\ pendingSessionWrites' # <<>>
                                 /\ run'[p].todo = <<Head(pendingSessionWrites')>>
  <2> SUFFICES ASSUME run'[p].pc = "flushing"
               PROVE  pendingSessionWrites' # <<>> /\ Head(pendingSessionWrites') = Head(pendingSessionWrites)
    BY <1>1 DEF WritesPlaced
  <2>1. pendingSessionWrites \in Seq(Writes) /\ pendingSessionWrites # <<>>
    BY <1>1 DEF WritesPlaced, Types, WriteTypes
  <2>2. \A w \in Writes : /\ Append(pendingSessionWrites, w) # <<>>
                          /\ Head(Append(pendingSessionWrites, w)) = Head(pendingSessionWrites)
    BY <2>1
  <2> QED BY <2>1, <2>2
<1>5. run'[p].pc = "final" /\ run'[p].failing < 2 => pendingSessionWrites' = <<>>
  <2>1. run[p].pc = "final" /\ run[p].failing < 2 => pendingSessionWrites = <<>> /\ phase = "idle"
    BY DEF WritesPlaced, Ends
  <2> QED BY <1>1, <2>1
<1> QED BY <1>2, <1>3, <1>4, <1>5

\* So does every step.
LEMMA WritesStep ==
    ASSUME Overlap = FALSE, Types, Alone, LeafIsRead, WritesPlaced, [Next]_vars
    PROVE  WritesPlaced'
<1>1. ASSUME NEW p \in Prompts, RunStep(p)
      PROVE  WritesPlaced'
  BY <1>1, WritesOfRun
<1>2. ASSUME NEW p \in Prompts, Prompt(p)
      PROVE  WritesPlaced'
  <2>1. /\ run'[p].pc = "snapshot" /\ \A q \in Prompts \ {p} : run'[q] = run[q] /\ Over(q)
        /\ run'[p].failing = run[p].failing /\ run[p].pc = "off"
    BY <1>2, PromptStarts DEF Prompt, MayCall, Settled
  <2>2. UNCHANGED <<session, pendings, writer>>
    BY <1>2 DEF Prompt, calls
  <2>3. WrittenInOrder' /\ (\A w \in Writes : Holds(w)' <=> Holds(w)) /\ UNCHANGED <<queued, writer, pendingSessionWrites>>
    BY <2>2, OrderStays DEF session, pendings, WritesPlaced
  <2>4. FailingShape(run'[p]) /\ ~Ends(run'[p])
    <3>1. FailingShape(run[p])
      BY DEF WritesPlaced
    <3> QED BY <2>1, <3>1 DEF FailingShape, Ends
  <2>5. ASSUME NEW q \in Prompts
        PROVE  /\ FailingShape(run'[q]) /\ run'[q].pc # "flushing" /\ ~Ends(run'[q])
               /\ run'[q].pc # "final"
    <3>1. CASE q = p
      BY <2>1, <2>4, <3>1
    <3>2. CASE q # p
      <4>1. run'[q] = run[q] /\ run[q].pc \in {"off", "done", "rejected"} /\ FailingShape(run[q])
        BY <2>1, <3>2 DEF Over, WritesPlaced
      <4> QED BY <4>1 DEF Ends
    <3> QED BY <3>1, <3>2
  <2> QED BY <2>3, <2>5 DEF WritesPlaced
<1>3. CASE \/ Steer \/ FollowUp \/ NextTurn \/ AbortWaits \/ AbortReturns \/ UNCHANGED vars
           \/ \E op \in Operations : StructuralCall(op)
  <2>1. UNCHANGED <<session, run, writer, pendings>>
    BY <1>3 DEF Steer, FollowUp, NextTurn, AbortWaits, AbortReturns, vars, calls, StructuralCall, session,
                pendings
  <2>2. phase' # phase => \A p \in Prompts : Over(p)
    BY <1>3 DEF Steer, FollowUp, NextTurn, AbortWaits, AbortReturns, vars, StructuralCall, MayCall, Settled
  <2>3. WrittenInOrder' /\ (\A w \in Writes : Holds(w)' <=> Holds(w)) /\ UNCHANGED <<queued, writer, pendingSessionWrites>>
    BY <2>1, OrderStays DEF session, pendings, WritesPlaced
  <2> QED BY <2>1, <2>2, <2>3, WritesOfCall DEF WritesPlaced
<1>4. CASE Abort
  <2>1. \A p \in Prompts : /\ run'[p].pc = run[p].pc /\ run'[p].then = run[p].then
                           /\ run'[p].failing = run[p].failing /\ run'[p].todo = run[p].todo
    BY <1>4, AbortMarks
  <2>2. UNCHANGED <<session, writer, pendings, phase>>
    BY <1>4 DEF Abort
  <2>3. WrittenInOrder' /\ (\A w \in Writes : Holds(w)' <=> Holds(w)) /\ UNCHANGED <<queued, writer, pendingSessionWrites>>
    BY <2>2, OrderStays DEF session, pendings, WritesPlaced
  <2> QED BY <2>1, <2>2, <2>3, WritesOfCall DEF WritesPlaced
<1>5. ASSUME NEW w \in Writes, AppendMessage(w)
      PROVE  WritesPlaced'
  <2>1. /\ UNCHANGED <<run, session, phase>> /\ writer[w].pc = "off"
        /\ writer \in [Writes -> [pc : {"off", "reading", "done"}, parent : Nat]]
    BY <1>5 DEF AppendMessage, Types, CallTypes
  <2>2. ~Holds(w) /\ w \notin Range(queued) /\ WrittenInOrder
    BY <2>1 DEF WritesPlaced
  <2>3. \A v \in Writes : Holds(v)' <=> Holds(v)
    BY <2>1 DEF session, Holds
  <2>4. CASE phase = "idle"
    <3>1. UNCHANGED pendings /\ writer' = [writer EXCEPT ![w] = [pc |-> "reading", parent |-> leaf]]
      BY <1>5, <2>4 DEF AppendMessage
    <3>2. \A v \in Writes : writer'[v].pc = "off" => writer[v].pc = "off"
      BY <2>1, <3>1
    <3>3. \A v \in Writes : writer'[v].pc # "done" => writer[v].pc # "done"
      BY <2>1, <3>1
    <3>4. WrittenInOrder' /\ UNCHANGED <<queued, pendingSessionWrites>>
      BY <2>1, <2>2, <3>1, OrderStays DEF session, pendings
    <3> QED BY <2>1, <2>3, <3>2, <3>3, <3>4, WritesOfCall DEF WritesPlaced
  <2>5. CASE phase # "idle"
    <3>1. /\ writer' = [writer EXCEPT ![w].pc = "done"]
          /\ pendingSessionWrites' = Append(pendingSessionWrites, w) /\ queued' = Append(queued, w)
      BY <1>5, <2>5 DEF AppendMessage
    <3>2. \A v \in Writes : /\ writer'[v].pc = "off" => writer[v].pc = "off"
                            /\ writer'[v].pc # "done" => writer[v].pc # "done" /\ v # w
      BY <2>1, <3>1
    <3>3. tree \in Trees /\ queued \in Seq(Writes) /\ pendingSessionWrites \in Seq(Writes) /\ tree' = tree
      BY <2>1 DEF Types, SessionTypes, Trees, WriteTypes, session
    <3>4. queued' \in Seq(Writes) /\ Range(queued') = Range(queued) \cup {w}
      BY <3>1, <3>3, RangeAppended
    <3>5. Len(tree) \in Nat /\ \A j \in 1..Len(tree) : tree[j].what # w
      BY <2>2, <3>3 DEF Holds, Trees
    <3>6. WrittenIn(tree, queued')[Len(tree)] = WrittenIn(tree, queued)[Len(tree)]
      <4> DEFINE q == queued
                 v == queued'
                 t == tree
      <4>1. /\ t \in Trees /\ q \in Seq(Writes) /\ v \in Seq(Writes) /\ Len(t) <= Len(t)
            /\ \A j \in 1..Len(t) : t[j].what \in Range(v) <=> t[j].what \in Range(q)
        BY <3>3, <3>4, <3>5
      <4>2. Len(t) \in 0..Len(t)
        BY <3>5
      <4> HIDE DEF q, v, t
      <4>3. WrittenIn(t, v)[Len(t)] = WrittenIn(t, q)[Len(t)]
        BY <4>1, <4>2, WrittenInAgrees
      <4> QED BY <4>3 DEF q, v, t
    <3>7. WrittenInOrder'
      <4>1. queued = WrittenIn(tree, queued)[Len(tree)] \o pendingSessionWrites
        BY <2>2, InOrder
      <4>2. WrittenIn(tree, queued)[Len(tree)] \in Seq(Writes)
        BY <3>3, <3>5, WrittenInExists
      <4>3. queued' = WrittenIn(tree, queued)[Len(tree)] \o pendingSessionWrites'
        <5> DEFINE a == WrittenIn(tree, queued)[Len(tree)]
        <5>1. a \in Seq(Writes) /\ queued = a \o pendingSessionWrites
          BY <4>1, <4>2
        <5> DEFINE b == pendingSessionWrites
        <5>2. a \in Seq(Writes) /\ b \in Seq(Writes) /\ w \in Writes
          BY <3>3, <5>1
        <5>3. queued = a \o b
          BY <5>1
        <5>4. queued' = Append(queued, w) /\ pendingSessionWrites' = Append(b, w)
          BY <3>1
        <5> HIDE DEF a, b
        <5>5. Append(a \o b, w) = a \o Append(b, w)
          BY <5>2, AppendJoined
        <5>6. queued' = a \o pendingSessionWrites'
          BY <5>3, <5>4, <5>5
        <5> QED BY <5>6 DEF a
      <4>4. WrittenInOrder' <=> queued' = WrittenIn(tree', queued')[Len(tree')] \o pendingSessionWrites'
        BY DEF WrittenInOrder, WrittenIn
      <4> QED BY <3>3, <3>6, <4>3, <4>4
    <3>8. \A v \in Writes : writer'[v].pc # "done" => v \notin Range(queued')
      BY <3>2, <3>4 DEF WritesPlaced
    <3> QED BY <2>1, <2>3, <2>5, <3>1, <3>2, <3>7, <3>8, WritesOfCall DEF WritesPlaced
  <2> QED BY <2>4, <2>5
<1>6. ASSUME NEW w \in Writes, AppendedDirectly(w)
      PROVE  WritesPlaced'
  <2>1. /\ UNCHANGED <<run, phase, pendings>> /\ writer' = [writer EXCEPT ![w].pc = "done"]
        /\ writer[w].pc = "reading" /\ Commit(w, writer[w].parent)
        /\ writer \in [Writes -> [pc : {"off", "reading", "done"}, parent : Nat]]
    BY <1>6 DEF AppendedDirectly, Types, CallTypes
  <2>2. w \in Entries /\ w \notin Range(queued) /\ WrittenInOrder /\ writer[w].parent \in 0..Len(tree)
    BY <2>1, MessagesAreEntries DEF WritesPlaced, Types, CallTypes
  <2>3. WrittenInOrder'
    BY <2>1, <2>2, OrderKept
  <2>4. \A v \in Writes : Holds(v)' => Holds(v) \/ v = w
    BY <2>1, <2>2, HoldsCommitted
  <2>5. \A v \in Writes : /\ writer'[v].pc = "off" => writer[v].pc = "off" /\ v # w
                          /\ writer'[v].pc # "done" => writer[v].pc # "done"
    BY <2>1
  <2> QED BY <2>1, <2>3, <2>4, <2>5, WritesOfCall DEF WritesPlaced, pendings
<1>7. CASE StructuralReturn
  <2>1. UNCHANGED <<run, pendings, writer>> /\ phase' = "idle"
    BY <1>7 DEF StructuralReturn
  <2>2. /\ operation \in Entries \/ operation = "none"
        /\ operation # "none" => operation \notin Range(queued) /\ operation \notin Writes
    BY SaidIsNoWrite, MessagesAreEntries DEF Types, CallTypes, WriteTypes, Range
  <2>3. leaf \in 0..Len(tree) /\ WrittenInOrder
    BY DEF Types, SessionTypes, WritesPlaced
  <2>4. WrittenInOrder' /\ \A v \in Writes : Holds(v)' => Holds(v)
    <3>1. CASE \E parent \in 0..Len(tree) : operation # "none" /\ Commit(operation, parent)
      <4>1. PICK parent \in 0..Len(tree) : operation # "none" /\ Commit(operation, parent)
        BY <3>1
      <4>2. operation \in Entries /\ operation \notin Range(queued) /\ operation \notin Writes
        BY <2>2, <4>1
      <4>3. WrittenInOrder'
        BY <2>1, <2>3, <4>1, <4>2, OrderKept
      <4>4. \A v \in Writes : Holds(v)' => Holds(v)
        BY <4>1, <4>2, HoldsCommitted
      <4> QED BY <4>3, <4>4
    <3>2. CASE UNCHANGED tree
      BY <2>1, <2>3, <3>2, OrderStays
    <3> QED BY <1>7, <2>3, <3>1, <3>2 DEF StructuralReturn, session
  <2> QED BY <2>1, <2>4, WritesOfCall DEF WritesPlaced, pendings
<1> QED BY <1>1, <1>2, <1>3, <1>4, <1>5, <1>6, <1>7 DEF Next, CallStep

-----------------------------------------------------------------------------
(* What a harness whose calls do not overlap promises.                     *)

\* The inductive invariant.
HarnessInv == Types /\ Alone /\ LeafIsRead /\ ContextIsBranch /\ WritesPlaced

\* It holds before the first call.
LEMMA HarnessInvInit == Init => HarnessInv
<1> SUFFICES ASSUME Init PROVE HarnessInv
  OBVIOUS
<1>1. Types
  BY TypesInit
<1>2. \A p \in Prompts : run[p] = Idle /\ Idle.pc = "off" /\ Idle.failing = 0
  BY DEF Init, Idle
<1>3. \A w \in Writes : writer[w].pc = "off"
  BY DEF Init
<1>4. tree = <<>> /\ queued = <<>> /\ pendingSessionWrites = <<>> /\ operation = "none"
  BY DEF Init
<1>5. Alone
  BY <1>2, <1>3, <1>4 DEF Alone, Over
<1>6. LeafIsRead /\ ContextIsBranch
  BY <1>2, <1>3 DEF LeafIsRead, ContextIsBranch, Reading
<1>7. WrittenInOrder
  <2> DEFINE s == WrittenIn(tree, queued)[Len(tree)]
  <2>1. tree \in Trees /\ queued \in Seq(Writes) /\ Len(tree) = 0
    BY <1>1, <1>4 DEF Types, SessionTypes, Trees, WriteTypes
  <2>2. s = <<>>
    BY <2>1, WrittenInExists
  <2>3. queued = s \o pendingSessionWrites
    <3> HIDE DEF s
    <3> QED BY <1>4, <2>2
  <2> QED BY <2>3, InOrder
<1>8. WritesPlaced
  BY <1>2, <1>4, <1>7 DEF WritesPlaced, Holds, Range, FailingShape, Ends
<1> QED BY <1>1, <1>5, <1>6, <1>8 DEF HarnessInv

\* With one call at a time it stays.
LEMMA Invariant ==
    ASSUME Overlap = FALSE
    PROVE  Spec => []HarnessInv
<1>1. HarnessInv /\ [Next]_vars => HarnessInv'
  <2> SUFFICES ASSUME HarnessInv, [Next]_vars
               PROVE  HarnessInv'
    OBVIOUS
  <2>1. Types /\ Alone /\ LeafIsRead /\ ContextIsBranch /\ WritesPlaced
    BY DEF HarnessInv
  <2>2. Types'
    BY <2>1, TypesStep
  <2>3. Alone'
    BY <2>1, AloneStep, Zenon
  <2>4. LeafIsRead' /\ ContextIsBranch'
    BY <2>1, LeafIsReadStep, ContextStep
  <2>5. WritesPlaced'
    BY <2>1, WritesStep, Zenon
  <2> QED BY <2>2, <2>3, <2>4, <2>5 DEF HarnessInv
<1> QED BY <1>1, HarnessInvInit, PTL DEF Spec

\* With one call at a time every request shows the model the branch of the session:
\* each of a run's appends was followed by the same append to its context, and nobody
\* else wrote meanwhile.
THEOREM HarnessShowsSession ==
    ASSUME Overlap = FALSE
    PROVE  Spec => []ModelSeesSession
<1>1. HarnessInv => ModelSeesSession
  <2> SUFFICES ASSUME HarnessInv, NEW p \in Prompts, At(p, "model"), run[p].failing = 0
               PROVE  run[p].context = Shown
    BY DEF ModelSeesSession
  <2>1. RunShape(run[p])
    BY DEF HarnessInv, Types, RunTypes
  <2>2. Reading(run[p])
    BY <2>1 DEF RunShape, At, Reading
  <2> QED BY <2>2 DEF HarnessInv, ContextIsBranch
<1> QED BY <1>1, Invariant, PTL

\* The entry that joins the session, and the parent it got.
LEMMA CommittedTo ==
    ASSUME tree \in Seq(Node), NEW what \in Entries, NEW parent \in Nat, Commit(what, parent)
    PROVE  Last(tree').parent = parent
<1> DEFINE e == [what |-> what, parent |-> parent]
<1>1. e \in Node /\ e.parent = parent
  BY DEF Node
<1>2. tree' = Append(tree, e)
  BY DEF Commit
<1> HIDE DEF e
<1>3. tree'[Len(tree')] = e
  BY <1>1, <1>2
<1> QED BY <1>1, <1>3 DEF Last

\* With one call at a time the session only grows at its leaf, unless navigateTree()
\* moves: who appends has read the leaf, and nobody moved it since.
THEOREM HarnessExtendsBranch ==
    ASSUME Overlap = FALSE
    PROVE  Spec => AppendsExtendBranch
<1>1. ASSUME HarnessInv, [Next]_vars
      PROVE  [tree' # tree /\ operation # "navigate" => Last(tree').parent = leaf]_vars
  <2> SUFFICES ASSUME tree' # tree, operation # "navigate"
               PROVE  Last(tree').parent = leaf
    OBVIOUS
  <2>1. /\ Types /\ tree \in Seq(Node) /\ leaf \in Nat
    BY <1>1 DEF HarnessInv, Types, SessionTypes
  <2>2. ASSUME NEW p \in Prompts, RunStep(p)
        PROVE  Last(tree').parent = leaf
    <3>1. Stepped(p)
      BY <2>1, <2>2, RunStepped
    <3>2. /\ run[p].pc \in {"commit", "flushing"}
          /\ Commit(Head(run[p].todo), run[p].parent)
      BY <3>1, <2>1 DEF Stepped, session
    <3>3. run[p].parent = leaf
      BY <1>1, <3>2 DEF HarnessInv, LeafIsRead
    <3>4. Head(run[p].todo) \in Entries
      <4> DEFINE todo == run[p].todo
      <4>1. todo \in Seq(Entries)
        BY <2>1 DEF Types, RunTypes, RunRecord
      <4>2. todo # <<>>
        BY <2>1, <3>2, RunOf DEF Good, RunShape, Types, RunTypes
      <4> HIDE DEF todo
      <4>3. Head(todo) \in Entries
        BY <4>1, <4>2
      <4> QED BY <4>3 DEF todo
    <3> QED BY <2>1, <3>2, <3>3, <3>4, CommittedTo
  <2>3. ASSUME NEW w \in Writes, AppendedDirectly(w)
        PROVE  Last(tree').parent = leaf
    <3>1. Commit(w, writer[w].parent) /\ writer[w].parent = leaf /\ w \in Entries
      BY <1>1, <2>3, MessagesAreEntries DEF AppendedDirectly, HarnessInv, LeafIsRead
    <3> QED BY <2>1, <3>1, CommittedTo
  <2>4. CASE StructuralReturn
    <3>1. Commit("compact", leaf) /\ operation = "compact"
      BY <2>4 DEF StructuralReturn, session
    <3>2. "compact" \in Entries
      BY <2>1, <3>1 DEF Types, CallTypes, Entries
    <3> QED BY <2>1, <3>1, <3>2, CommittedTo
  <2>5. CASE \/ \E p \in Prompts : Prompt(p)
             \/ \E w \in Writes : AppendMessage(w)
             \/ \E op \in Operations : StructuralCall(op)
             \/ Steer \/ FollowUp \/ NextTurn \/ Abort \/ AbortWaits \/ AbortReturns \/ UNCHANGED vars
    BY <2>5 DEF Prompt, AppendMessage, StructuralCall, Steer, FollowUp, NextTurn, Abort, AbortWaits,
                AbortReturns, vars, session
  <2> QED BY <1>1, <2>2, <2>3, <2>4, <2>5 DEF Next, CallStep
<1>2. HarnessInv /\ [Next]_vars => [tree' # tree /\ operation # "navigate" => Last(tree').parent = leaf]_vars
  BY <1>1
<1> QED BY <1>2, Invariant, PTL DEF Spec, AppendsExtendBranch

\* With one call at a time the writes queued while the harness was busy reach the
\* session in their order, once each, and a run that got as far as its loop leaves none
\* behind.
THEOREM HarnessWritesInOrder ==
    ASSUME Overlap = FALSE
    PROVE  Spec => QueuedWritesInOrder
<1> DEFINE Left == \A p \in Prompts : At(p, "final") /\ run[p].failing < 2 /\ Over(p)'
                                         => pendingSessionWrites' = <<>>
<1>1. ASSUME HarnessInv, Next, NEW p \in Prompts, At(p, "final"), run[p].failing < 2, Over(p)'
      PROVE  pendingSessionWrites' = <<>>
  <2>1. pendingSessionWrites = <<>> /\ ~Over(p)
    BY <1>1 DEF HarnessInv, WritesPlaced, At, Over
  <2>2. Types
    BY <1>1 DEF HarnessInv
  <2>3. ASSUME NEW q \in Prompts, RunStep(q)
        PROVE  pendingSessionWrites' = <<>>
    <3>1. Stepped(q)
      BY <2>2, <2>3, RunStepped
    <3>2. q = p
      BY <1>1, <2>1, <3>1 DEF HarnessInv, Alone, Stepped
    <3> QED BY <1>1, <2>1, <3>1, <3>2 DEF Stepped, At
  <2>4. ASSUME NEW w \in Writes, AppendMessage(w)
        PROVE  pendingSessionWrites' = <<>>
    BY <1>1, <2>1, <2>4 DEF AppendMessage, Over
  <2>5. ASSUME NEW q \in Prompts, Prompt(q)
        PROVE  pendingSessionWrites' = <<>>
    BY <2>1, <2>5 DEF Prompt, pendings
  <2>6. CASE \/ \E w \in Writes : AppendedDirectly(w)
             \/ \E op \in Operations : StructuralCall(op)
             \/ StructuralReturn \/ Steer \/ FollowUp \/ NextTurn \/ Abort \/ AbortWaits \/ AbortReturns
    BY <2>1, <2>6 DEF AppendedDirectly, StructuralCall, StructuralReturn, Steer, FollowUp, NextTurn, Abort,
                      AbortWaits, AbortReturns, pendings
  <2> QED BY <1>1, <2>3, <2>4, <2>5, <2>6 DEF Next, CallStep
<1>2. HarnessInv /\ Next => Left
  BY <1>1
<1>3. HarnessInv => WrittenInOrder
  BY DEF HarnessInv, WritesPlaced
<1>4. HarnessInv /\ HarnessInv' /\ [Next]_vars => [WrittenInOrder' /\ Left]_vars
  <2>1. HarnessInv' => WrittenInOrder'
    BY <1>3, PTL
  <2> HIDE DEF Left
  <2> QED BY <1>2, <2>1
<1> QED BY <1>4, Invariant, PTL DEF Spec, QueuedWritesInOrder

-----------------------------------------------------------------------------
(* Where a message is, for every order of calls.                           *)

\* No message is in it twice.
Once(s) == \A i, j \in DOMAIN s : s[i] = s[j] /\ s[i] \in Messages => i = j

\* Where a run has messages: in todo what it is emitting, in polled what it has taken from
\* a queue.
Holding(r) ==
    /\ r.pc \notin {"append", "commit", "flushing"} => r.todo = <<>>
    /\ r.pc = "flushing" => r.todo \in Seq(Writes)
    /\ r.polled # <<>> => \/ r.pc \in {"announce", "hook", "announcePoll", "refresh"}
                          \/ r.pc \in {"flush", "flushing"} /\ r.then = "refresh"
    /\ Once(r.polled) /\ Once(r.todo)

\* Before its own message is in the hands of the run.
Early(r) == r.pc \in {"off", "snapshot", "announce", "hook"}

Queued == Range(steerQueue) \cup Range(followUpQueue) \cup Range(nextTurnQueue)
Gone == cleared \cup dropped
Written == {tree[i].what : i \in DOMAIN tree} \cap Messages
Somewhere == Queued \cup Gone \cup Written \cup UNION {Carried(run[p]) : p \in Prompts}

Apart(C) ==
    /\ Queued \cap Gone = {} /\ Queued \cap Written = {} /\ Gone \cap Written = {}
    /\ C \cap (Queued \cup Gone \cup Written) = {}

SequencesOnce ==
    /\ Once(steerQueue) /\ Once(followUpQueue) /\ Once(nextTurnQueue)
    /\ \A i, j \in DOMAIN tree : tree[i].what = tree[j].what /\ tree[i].what \in Messages => i = j

PlaceInv ==
    /\ \A p \in Prompts : Holding(run[p])
    /\ SequencesOnce
    /\ Apart({}) /\ \A p \in Prompts : Apart(Carried(run[p]))
    /\ \A p, q \in Prompts : p # q => Carried(run[p]) \cap Carried(run[q]) = {}
    /\ \A p \in Prompts : Early(run[p]) => p \notin Somewhere

\* A step of a run: what it holds, what is queued, given up and written are still apart, and
\* together what they were, with new ones at most.
Moves(p, new) ==
    /\ \A q \in Prompts \ {p} : run'[q] = run[q]
    /\ Holding(run'[p]) /\ SequencesOnce'
    /\ Queued' \cap Gone' = {} /\ Queued' \cap Written' = {} /\ Gone' \cap Written' = {}
    /\ Carried(run'[p]) \cap (Queued' \cup Gone' \cup Written') = {}
    /\ Queued' \cup Gone' \cup Written' \cup Carried(run'[p])
          = Queued \cup Gone \cup Written \cup Carried(run[p]) \cup new
    /\ new \cap Somewhere = {} /\ new \subseteq {p}
    /\ Early(run'[p]) => Early(run[p]) /\ new = {}

\* It keeps the invariant, and no message vanishes.
LEMMA MovesKeeps ==
    ASSUME PlaceInv, NEW p \in Prompts, NEW new, Moves(p, new)
    PROVE  PlaceInv' /\ Somewhere \subseteq Somewhere'
<1> DEFINE Old == Queued \cup Gone \cup Written
           New == Queued' \cup Gone' \cup Written'
<1>1. \A q \in Prompts \ {p} : run'[q] = run[q] /\ Carried(run'[q]) = Carried(run[q])
  BY DEF Moves
<1>2. New \cup Carried(run'[p]) = Old \cup Carried(run[p]) \cup new
  BY DEF Moves
<1>3. \A q \in Prompts : Carried(run[q]) \subseteq Somewhere
  BY DEF Somewhere
<1>4. \A q \in Prompts \ {p} : Carried(run[q]) \cap (Old \cup Carried(run[p]) \cup new) = {}
  BY <1>3 DEF PlaceInv, Apart, Moves
<1>5. \A q \in Prompts \ {p} : Carried(run'[q]) \cap (New \cup Carried(run'[p])) = {}
  BY <1>1, <1>2, <1>4
<1>6. \A q \in Prompts : Holding(run'[q])
  BY <1>1 DEF Moves, PlaceInv
<1>7. Apart({})' /\ \A q \in Prompts : Apart(Carried(run[q]))'
  <2>1. /\ Queued' \cap Gone' = {} /\ Queued' \cap Written' = {} /\ Gone' \cap Written' = {}
        /\ Carried(run'[p]) \cap New = {}
    BY DEF Moves
  <2>2. \A q \in Prompts : Carried(run'[q]) \cap New = {}
    BY <1>5, <2>1
  <2> QED BY <2>1, <2>2 DEF Apart
<1>8. \A q, o \in Prompts : q # o => Carried(run'[q]) \cap Carried(run'[o]) = {}
  BY <1>1, <1>5 DEF PlaceInv
<1>9. Somewhere' = Somewhere \cup new
  <2>1. \A m : m \in UNION {Carried(run'[q]) : q \in Prompts} <=>
                  m \in Carried(run'[p]) \/ \E q \in Prompts \ {p} : m \in Carried(run[q])
    BY <1>1
  <2>2. \A m : m \in UNION {Carried(run[q]) : q \in Prompts} <=>
                  m \in Carried(run[p]) \/ \E q \in Prompts \ {p} : m \in Carried(run[q])
    OBVIOUS
  <2> QED BY <1>2, <2>1, <2>2 DEF Somewhere
<1>10. \A q \in Prompts : Early(run'[q]) => q \notin Somewhere'
  BY <1>1, <1>9 DEF Moves, PlaceInv
<1> QED BY <1>6, <1>7, <1>8, <1>9, <1>10 DEF Moves, PlaceInv

\* A step of others: runs keep what they hold.
Shifts(new) ==
    /\ \A q \in Prompts : /\ Holding(run'[q]) /\ Carried(run'[q]) = Carried(run[q])
                          /\ Early(run'[q]) => Early(run[q])
    /\ SequencesOnce'
    /\ Queued' \cap Gone' = {} /\ Queued' \cap Written' = {} /\ Gone' \cap Written' = {}
    /\ Queued' \cup Gone' \cup Written' = Queued \cup Gone \cup Written \cup new
    /\ new \cap Somewhere = {} /\ new \cap Prompts = {}

LEMMA ShiftsKeeps ==
    ASSUME PlaceInv, NEW new, Shifts(new)
    PROVE  PlaceInv' /\ Somewhere \subseteq Somewhere'
<1> DEFINE Old == Queued \cup Gone \cup Written
           New == Queued' \cup Gone' \cup Written'
<1>1. \A q \in Prompts : Carried(run'[q]) = Carried(run[q])
  BY DEF Shifts
<1>2. New = Old \cup new
  BY DEF Shifts
<1>3. \A q \in Prompts : Carried(run[q]) \subseteq Somewhere
  BY DEF Somewhere
<1>4. \A q \in Prompts : Carried(run'[q]) \cap New = {}
  BY <1>1, <1>2, <1>3 DEF PlaceInv, Apart, Shifts
<1>5. Apart({})' /\ \A q \in Prompts : Apart(Carried(run[q]))'
  BY <1>4 DEF Apart, Shifts
<1>6. Somewhere' = Somewhere \cup new
  BY <1>1, <1>2 DEF Somewhere
<1>7. \A q \in Prompts : Early(run'[q]) => q \notin Somewhere'
  BY <1>6 DEF Shifts, PlaceInv
<1> QED BY <1>1, <1>5, <1>6, <1>7 DEF Shifts, PlaceInv

-----------------------------------------------------------------------------
(* Sequences in which no message is twice.                                 *)

LEMMA OnceEmpty == Once(<<>>) /\ Range(<<>>) = {}
BY DEF Once, Range

LEMMA OnceAppended ==
    ASSUME NEW S, NEW q \in Seq(S), NEW m \in S, Once(q), m \in Messages => m \notin Range(q)
    PROVE  Once(Append(q, m)) /\ Range(Append(q, m)) = Range(q) \cup {m}
<1> DEFINE a == Append(q, m)
<1>1. /\ Len(q) \in Nat /\ DOMAIN q = 1..Len(q) /\ DOMAIN a = 1..(Len(q) + 1)
      /\ a[Len(q) + 1] = m /\ \A i \in 1..Len(q) : a[i] = q[i]
  OBVIOUS
<1> HIDE DEF a
<1>2. \A i \in DOMAIN a : i = Len(q) + 1 \/ i \in DOMAIN q
  BY <1>1
<1>3. \A i \in DOMAIN q : q[i] \in Range(q)
  BY DEF Range
<1>4. Once(a)
  <2> SUFFICES ASSUME NEW i \in DOMAIN a, NEW j \in DOMAIN a, a[i] = a[j], a[i] \in Messages
               PROVE  i = j
    BY DEF Once
  <2>1. CASE i \in DOMAIN q /\ j \in DOMAIN q
    BY <1>1, <2>1 DEF Once
  <2>2. CASE i = Len(q) + 1 /\ j \in DOMAIN q
    BY <1>1, <1>3, <2>2
  <2>3. CASE j = Len(q) + 1 /\ i \in DOMAIN q
    BY <1>1, <1>3, <2>3
  <2> QED BY <1>2, <2>1, <2>2, <2>3
<1>5. Range(a) = Range(q) \cup {m}
  <2>1. \A i \in DOMAIN a : a[i] \in Range(q) \cup {m}
    BY <1>1, <1>2, <1>3
  <2>2. \A i \in DOMAIN q : q[i] = a[i] /\ i \in DOMAIN a
    BY <1>1
  <2>3. m = a[Len(q) + 1] /\ Len(q) + 1 \in DOMAIN a
    BY <1>1
  <2> QED BY <2>1, <2>2, <2>3 DEF Range
<1> QED BY <1>4, <1>5 DEF a

\* The head and the tail of a queue of messages.
LEMMA OnceTail ==
    ASSUME NEW S, NEW q \in Seq(S), q # <<>>, Once(q)
    PROVE  /\ Once(Tail(q)) /\ Range(q) = {Head(q)} \cup Range(Tail(q)) /\ Tail(q) \in Seq(S)
           /\ Head(q) \in S /\ (Head(q) \in Messages => Head(q) \notin Range(Tail(q)))
           /\ Once(<<Head(q)>>) /\ Range(<<Head(q)>>) = {Head(q)}
<1> DEFINE t == Tail(q)
<1>1. /\ Len(q) \in Nat \ {0} /\ DOMAIN q = 1..Len(q) /\ DOMAIN t = 1..(Len(q) - 1)
      /\ Head(q) = q[1] /\ \A i \in 1..(Len(q) - 1) : t[i] = q[i + 1]
      /\ t \in Seq(S) /\ Head(q) \in S
  OBVIOUS
<1> HIDE DEF t
<1>2. \A i \in DOMAIN t : i + 1 \in DOMAIN q /\ i + 1 # 1 /\ t[i] = q[i + 1] /\ i \in Int
  BY <1>1
<1>3. Once(t)
  <2> SUFFICES ASSUME NEW i \in DOMAIN t, NEW j \in DOMAIN t, t[i] = t[j], t[i] \in Messages
               PROVE  i = j
    BY DEF Once
  <2>1. i + 1 = j + 1
    BY <1>2 DEF Once
  <2> QED BY <1>2, <2>1
<1>4. Range(q) = {Head(q)} \cup Range(t)
  <2>1. \A i \in DOMAIN q : i = 1 \/ (i - 1 \in DOMAIN t /\ t[i - 1] = q[i])
    BY <1>1
  <2>2. 1 \in DOMAIN q
    BY <1>1
  <2> QED BY <1>1, <1>2, <2>1, <2>2 DEF Range
<1>5. Head(q) \in Messages => Head(q) \notin Range(t)
  <2> SUFFICES ASSUME Head(q) \in Messages, NEW i \in DOMAIN t, t[i] = Head(q)
               PROVE  FALSE
    BY DEF Range
  <2>1. 1 \in DOMAIN q /\ q[1] = q[i + 1] /\ q[1] \in Messages
    BY <1>1, <1>2
  <2> QED BY <1>2, <2>1 DEF Once
<1>6. Once(<<Head(q)>>) /\ Range(<<Head(q)>>) = {Head(q)}
  BY DEF Once, Range
<1> QED BY <1>1, <1>3, <1>4, <1>5, <1>6 DEF t

\* Two sequences with no message in common, one behind the other.
LEMMA OnceJoined ==
    ASSUME NEW S, NEW a \in Seq(S), NEW b \in Seq(S), Once(a), Once(b),
           Range(a) \cap Range(b) \cap Messages = {}
    PROVE  Once(a \o b) /\ Range(a \o b) = Range(a) \cup Range(b) /\ a \o b \in Seq(S)
<1> DEFINE c == a \o b
<1>1. /\ Len(a) \in Nat /\ Len(b) \in Nat /\ DOMAIN a = 1..Len(a) /\ DOMAIN b = 1..Len(b)
      /\ DOMAIN c = 1..(Len(a) + Len(b)) /\ c \in Seq(S)
      /\ \A i \in 1..(Len(a) + Len(b)) : c[i] = IF i <= Len(a) THEN a[i] ELSE b[i - Len(a)]
  OBVIOUS
<1> HIDE DEF c
<1>2. \A i \in DOMAIN c : \/ i \in DOMAIN a /\ c[i] = a[i]
                          \/ i \in Int /\ i - Len(a) \in DOMAIN b /\ c[i] = b[i - Len(a)]
  BY <1>1
<1>3. \A i \in DOMAIN a : i \in DOMAIN c /\ c[i] = a[i]
  BY <1>1
<1>4. \A i \in DOMAIN b : i + Len(a) \in DOMAIN c /\ c[i + Len(a)] = b[i]
  <2> SUFFICES ASSUME NEW i \in DOMAIN b
               PROVE  i + Len(a) \in DOMAIN c /\ c[i + Len(a)] = b[i]
    OBVIOUS
  <2>1. i \in 1..Len(b) /\ i + Len(a) \in 1..(Len(a) + Len(b)) /\ ~(i + Len(a) <= Len(a))
        /\ (i + Len(a)) - Len(a) = i
    BY <1>1
  <2> QED BY <1>1, <2>1
<1>5. \A i \in DOMAIN a : a[i] \in Range(a)
  BY DEF Range
<1>6. \A i \in DOMAIN b : b[i] \in Range(b)
  BY DEF Range
<1>7. Once(c)
  <2> SUFFICES ASSUME NEW i \in DOMAIN c, NEW j \in DOMAIN c, c[i] = c[j], c[i] \in Messages
               PROVE  i = j
    BY DEF Once
  <2>1. CASE i \in DOMAIN a /\ c[i] = a[i] /\ j \in DOMAIN a /\ c[j] = a[j]
    BY <2>1 DEF Once
  <2>2. CASE i \in Int /\ i - Len(a) \in DOMAIN b /\ c[i] = b[i - Len(a)]
             /\ j \in Int /\ j - Len(a) \in DOMAIN b /\ c[j] = b[j - Len(a)]
    <3>1. i - Len(a) = j - Len(a)
      BY <2>2 DEF Once
    <3> QED BY <1>1, <2>2, <3>1
  <2> QED BY <1>2, <1>5, <1>6, <2>1, <2>2
<1>8. Range(c) = Range(a) \cup Range(b)
  BY <1>2, <1>3, <1>4 DEF Range
<1> QED BY <1>1, <1>7, <1>8 DEF c

\* What a poll takes and what it leaves.
LEMMA OnceDrained ==
    ASSUME NEW S, NEW q \in Seq(S), S \subseteq Messages, Once(q)
    PROVE  /\ Once(Drained(q)) /\ Once(Undrained(q))
           /\ Range(q) = Range(Drained(q)) \cup Range(Undrained(q))
           /\ Range(Drained(q)) \cap Range(Undrained(q)) = {}
<1>1. CASE QueueMode = "all"
  BY <1>1, OnceEmpty DEF Drained, Undrained
<1>2. CASE QueueMode # "all" /\ q = <<>>
  <2>1. Drained(q) = <<>> /\ Undrained(q) = <<>>
    BY <1>2 DEF Drained, Undrained
  <2> QED BY <1>2, <2>1, OnceEmpty
<1>3. CASE QueueMode # "all" /\ q # <<>>
  <2>1. Drained(q) = <<Head(q)>> /\ Undrained(q) = Tail(q)
    BY <1>3 DEF Drained, Undrained
  <2>2. Head(q) \in Messages /\ Head(q) \notin Range(Tail(q))
    BY <1>3, OnceTail
  <2> QED BY <1>3, <2>1, <2>2, OnceTail
<1> QED BY <1>1, <1>2, <1>3

-----------------------------------------------------------------------------
(* What a run holds.                                                       *)

\* What follows from two sequences being the same.
LEMMA CarriedAlike ==
    ASSUME NEW r, NEW s, s.todo = r.todo, s.polled = r.polled
    PROVE  Carried(s) = Carried(r)
BY DEF Carried

LEMMA CarriedPolled ==
    ASSUME NEW r, r.todo = <<>>
    PROVE  Carried(r) = Range(r.polled) \cap Messages
BY OnceEmpty DEF Carried

\* A flush leaves alone what is polled, which is there only if the turn is prepared next.
LEMMA FlushingHolds ==
    ASSUME NEW r \in RunRecord, r.todo = <<>>, Once(r.polled),
           NEW then \in {"savePoint", "turnThrows", "refresh", "idle", "final"},
           r.polled # <<>> => then = "refresh"
    PROVE  /\ Holding(Flushing(r, then)) /\ ~Early(Flushing(r, then))
           /\ Carried(Flushing(r, then)) = Carried(r)
<1> DEFINE s == Flushing(r, then)
<1>1. /\ s.todo = r.todo /\ s.polled = r.polled
      /\ \/ s.pc = then
         \/ s.pc = "flush" /\ s.then = then
  BY DEF Flushing, RunRecord
<1> HIDE DEF s
<1>2. Carried(s) = Carried(r)
  BY <1>1, CarriedAlike
<1>3. Holding(s) /\ ~Early(s)
  BY <1>1, OnceEmpty DEF Holding, Early
<1> QED BY <1>2, <1>3 DEF s

\* What is injected moves from polled to todo.
LEMMA InjectingHolds ==
    ASSUME NEW r \in RunRecord, r.todo = <<>>, Once(r.polled)
    PROVE  /\ Holding(Injecting(r)) /\ ~Early(Injecting(r))
           /\ Carried(Injecting(r)) = Carried(r)
<1> DEFINE s == Injecting(r)
<1>1. CASE r.polled = <<>>
  <2>1. s.todo = <<>> /\ s.polled = <<>> /\ s.pc = "model"
    BY <1>1 DEF Injecting, RunRecord
  <2> HIDE DEF s
  <2>2. Carried(s) = Carried(r)
    BY <1>1, <2>1, CarriedAlike
  <2> QED BY <2>1, <2>2, OnceEmpty DEF Holding, Early, s
<1>2. CASE r.polled # <<>>
  <2>1. s.todo = r.polled /\ s.polled = <<>> /\ s.pc = "append"
    BY <1>2 DEF Injecting, RunRecord
  <2> HIDE DEF s
  <2>2. Carried(s) = Carried(r)
    BY <2>1, OnceEmpty DEF Carried
  <2> QED BY <2>1, <2>2, OnceEmpty DEF Holding, Early, s
<1> QED BY <1>1, <1>2

\* Behind a poll a run has what was polled.
LEMMA AfterPollHolds ==
    ASSUME NEW r \in RunRecord, r.todo = <<>>,
           NEW stage \in {"first", "prepared", "turn", "followUp"},
           NEW polled \in Seq(Messages), Once(polled)
    PROVE  /\ Holding(AfterPoll(r, stage, polled)) /\ ~Early(AfterPoll(r, stage, polled))
           /\ Carried(AfterPoll(r, stage, polled)) = Range(polled)
<1> DEFINE s == [r EXCEPT !.polled = polled, !.stage = stage, !.gen = 0]
           again == polled # <<>> \/ (stage = "turn" /\ r.more)
           t == [s EXCEPT !.more = FALSE]
           u == [s EXCEPT !.pc = "pollFollowUp"]
<1>1. s \in RunRecord /\ s.todo = <<>> /\ s.polled = polled
  BY DEF RunRecord
<1>2. t \in RunRecord /\ t.todo = <<>> /\ t.polled = polled
  BY DEF RunRecord
<1>3. u.todo = <<>> /\ u.polled = polled /\ u.pc = "pollFollowUp"
  BY DEF RunRecord
<1>4. Range(polled) \subseteq Messages
  BY DEF Range
<1>5. \A v : v.todo = <<>> /\ v.polled = polled => Carried(v) = Range(polled)
  BY <1>4, CarriedPolled
<1>6. CASE stage \in {"first", "prepared"}
  <2>1. AfterPoll(r, stage, polled) = Injecting(s)
    BY <1>6 DEF AfterPoll
  <2> HIDE DEF s, t, u
  <2> QED BY <1>1, <1>5, <2>1, InjectingHolds
<1>7. CASE stage \in {"turn", "followUp"} /\ again
  <2>1. AfterPoll(r, stage, polled) = Flushing(t, "refresh")
    BY <1>7 DEF AfterPoll
  <2> HIDE DEF s, t, u
  <2> QED BY <1>2, <1>5, <2>1, FlushingHolds
<1>8. CASE stage = "turn" /\ ~again
  <2>1. AfterPoll(r, stage, polled) = u
    BY <1>8 DEF AfterPoll
  <2>2. polled = <<>>
    BY <1>8
  <2> HIDE DEF s, t, u
  <2>3. Holding(u) /\ ~Early(u)
    BY <1>3, <2>2, OnceEmpty DEF Holding, Early
  <2> QED BY <1>3, <1>5, <2>1, <2>3
<1>9. CASE stage = "followUp" /\ ~again
  <2>1. AfterPoll(r, stage, polled) = Flushing(s, "idle")
    BY <1>9 DEF AfterPoll
  <2>2. polled = <<>>
    BY <1>9
  <2> HIDE DEF s, t, u
  <2> QED BY <1>1, <1>5, <2>1, <2>2, FlushingHolds
<1> QED BY <1>6, <1>7, <1>8, <1>9

\* A run that failed has none, and neither has a call that has settled.
LEMMA IdleHolds ==
    ASSUME NEW pc \in {"done", "rejected"}
    PROVE  /\ Holding([Idle EXCEPT !.pc = pc]) /\ ~Early([Idle EXCEPT !.pc = pc])
           /\ Carried([Idle EXCEPT !.pc = pc]) = {}
<1> DEFINE s == [Idle EXCEPT !.pc = pc]
<1>1. s.pc = pc /\ s.todo = <<>> /\ s.polled = <<>>
  BY DEF Idle
<1> HIDE DEF s
<1>2. Holding(s) /\ ~Early(s) /\ Carried(s) = {}
  BY <1>1, OnceEmpty DEF Holding, Early, Carried
<1> QED BY <1>2 DEF s

LEMMA UnreportedHolds ==
    /\ Holding([Idle EXCEPT !.pc = "final", !.failing = 2])
    /\ ~Early([Idle EXCEPT !.pc = "final", !.failing = 2])
    /\ Carried([Idle EXCEPT !.pc = "final", !.failing = 2]) = {}
<1> DEFINE s == [Idle EXCEPT !.pc = "final", !.failing = 2]
<1>1. s.pc = "final" /\ s.todo = <<>> /\ s.polled = <<>>
  BY DEF Idle
<1> HIDE DEF s
<1>2. Holding(s) /\ ~Early(s) /\ Carried(s) = {}
  BY <1>1, OnceEmpty DEF Holding, Early, Carried
<1> QED BY <1>2 DEF s

LEMMA FailedHolds ==
    ASSUME NEW r
    PROVE  Holding(Failed(r)) /\ ~Early(Failed(r)) /\ Carried(Failed(r)) = {}
<1>1. CASE r.failing = 0
  <2> DEFINE s == [Idle EXCEPT !.pc = "append", !.todo = <<"failure">>, !.then = "turnEnd",
                              !.failing = 1]
  <2>1. s.pc = "append" /\ s.todo = <<"failure">> /\ s.polled = <<>>
    BY DEF Idle
  <2>2. Failed(r) = s
    BY <1>1 DEF Failed
  <2>3. Range(<<"failure">>) = {"failure"} /\ "failure" \notin Messages
    BY EntriesAssumption DEF Range
  <2>4. Once(<<"failure">>)
    BY DEF Once
  <2> HIDE DEF s
  <2> QED BY <2>1, <2>2, <2>3, <2>4, OnceEmpty DEF Holding, Early, Carried
<1>2. CASE r.failing # 0
  <2> DEFINE s == [Idle EXCEPT !.failing = 2]
  <2>1. s \in RunRecord
    <3>1. Idle \in RunRecord /\ 2 \in 0..2
      BY IdleGood DEF Good
    <3>2. "off" \in PCs /\ <<>> \in Seq(Entries)
      BY DEF PCs
    <3> QED BY <3>1, <3>2, Updated
  <2>2. s.todo = <<>> /\ s.polled = <<>>
    BY DEF Idle
  <2>3. Failed(r) = Flushing(s, "final")
    BY <1>2 DEF Failed
  <2> HIDE DEF s
  <2>4. Carried(s) = {}
    BY <2>2, OnceEmpty DEF Carried
  <2> QED BY <2>1, <2>2, <2>3, <2>4, FlushingHolds, OnceEmpty
<1> QED BY <1>1, <1>2

\* Once more in the session: a message that was not, or something else.
LEMMA MessageCommitted ==
    ASSUME Types, SequencesOnce, NEW what \in Entries, NEW parent \in 0..Len(tree),
           Commit(what, parent), what \notin Written
    PROVE  /\ Written' = Written \cup ({what} \cap Messages)
           /\ \A i, j \in DOMAIN tree' :
                 tree'[i].what = tree'[j].what /\ tree'[i].what \in Messages => i = j
<1>1. /\ Len(tree) \in Nat /\ DOMAIN tree = 1..Len(tree) /\ DOMAIN tree' = 1..(Len(tree) + 1)
      /\ \A i \in DOMAIN tree : tree'[i] = tree[i]
      /\ tree'[Len(tree) + 1].what = what
  <2>1. tree \in Seq(Node)
    BY DEF Types, SessionTypes
  <2>2. /\ SessionTypes' /\ Len(tree') = Len(tree) + 1
        /\ \A i \in 1..Len(tree) : tree'[i] = tree[i]
        /\ tree'[Len(tree')] = [what |-> what, parent |-> parent]
    BY CommitTyped DEF Types
  <2>3. tree' \in Seq(Node)
    BY <2>2 DEF SessionTypes
  <2> QED BY <2>1, <2>2, <2>3
<1>2. \A i \in DOMAIN tree' : i \in DOMAIN tree \/ i = Len(tree) + 1
  BY <1>1
<1>3. DOMAIN tree \subseteq DOMAIN tree' /\ Len(tree) + 1 \in DOMAIN tree'
  BY <1>1
<1>4. \A i \in DOMAIN tree : tree[i].what \in Messages => tree[i].what # what
  BY DEF Written
<1>5. Written' = Written \cup ({what} \cap Messages)
  <2>1. ASSUME NEW m \in Messages
        PROVE  (\E i \in DOMAIN tree' : tree'[i].what = m) <=> (\E i \in DOMAIN tree : tree[i].what = m) \/ m = what
    BY <1>1, <1>2, <1>3
  <2>2. Written = {m \in Messages : \E i \in DOMAIN tree : tree[i].what = m}
    BY DEF Written
  <2>3. Written' = {m \in Messages : \E i \in DOMAIN tree' : tree'[i].what = m}
    BY DEF Written
  <2> QED BY <2>1, <2>2, <2>3
<1>6. ASSUME NEW i \in DOMAIN tree', NEW j \in DOMAIN tree', tree'[i].what = tree'[j].what,
             tree'[i].what \in Messages
      PROVE  i = j
  <2>1. CASE i \in DOMAIN tree /\ j \in DOMAIN tree
    BY <1>1, <1>6, <2>1 DEF SequencesOnce
  <2>2. CASE i = Len(tree) + 1 /\ j \in DOMAIN tree
    BY <1>1, <1>4, <1>6, <2>2
  <2>3. CASE j = Len(tree) + 1 /\ i \in DOMAIN tree
    BY <1>1, <1>4, <1>6, <2>3
  <2> QED BY <1>2, <2>1, <2>2, <2>3
<1> QED BY <1>5, <1>6

-----------------------------------------------------------------------------
(* Each step of a run moves messages and doubles none.                     *)

\* The run that takes a step, and the others.
LEMMA RunIs ==
    ASSUME Types, NEW p \in Prompts, NEW r, Set(p, r)
    PROVE  run'[p] = r /\ \A q \in Prompts \ {p} : run'[q] = run[q]
BY DEF Set, Types, RunTypes

\* Nothing moves.
LEMMA StandsStill ==
    ASSUME Types, PlaceInv, NEW p \in Prompts, NEW r, Set(p, r),
           UNCHANGED <<session, queues, cleared, dropped>>,
           Holding(r), Carried(r) = Carried(run[p]), Early(r) => Early(run[p])
    PROVE  Moves(p, {})
<1>1. run'[p] = r /\ \A q \in Prompts \ {p} : run'[q] = run[q]
  BY RunIs
<1>2. Queued' = Queued /\ Gone' = Gone /\ Written' = Written /\ SequencesOnce'
  BY DEF PlaceInv, SequencesOnce, session, queues, Queued, Gone, Written
<1> QED BY <1>1, <1>2 DEF Moves, PlaceInv, Apart

\* What the run held is given up.
LEMMA GivesUp ==
    ASSUME Types, PlaceInv, NEW p \in Prompts, NEW r, Set(p, r),
           UNCHANGED <<session, queues, cleared>>, dropped' = dropped \cup Carried(run[p]),
           Holding(r), Carried(r) = {}, ~Early(r)
    PROVE  Moves(p, {})
<1>1. run'[p] = r /\ \A q \in Prompts \ {p} : run'[q] = run[q]
  BY RunIs
<1>2. Queued' = Queued /\ Gone' = Gone \cup Carried(run[p]) /\ Written' = Written /\ SequencesOnce'
  BY DEF PlaceInv, SequencesOnce, session, queues, Queued, Gone, Written
<1> QED BY <1>1, <1>2 DEF Moves, PlaceInv, Apart

\* A run that throws while the session stays as it is.
LEMMA ThrowMoves ==
    ASSUME Types, PlaceInv, NEW p \in Prompts, RunThrows(p), UNCHANGED <<session, queues, cleared>>
    PROVE  Moves(p, {})
<1>1. Carried(run[p]) \cap Written = {} /\ Carried(run[p]) \subseteq Messages
  BY DEF PlaceInv, Apart, Carried
<1>2. \A m \in Carried(run[p]) : \A i \in DOMAIN tree' : tree'[i].what # m
  BY <1>1 DEF session, Written
<1>3. dropped' = dropped \cup Carried(run[p])
  BY <1>2 DEF RunThrows
<1> QED BY <1>3, FailedHolds, GivesUp DEF RunThrows

\* A rejected call gives up its message and what it had polled.
LEMMA RejectMoves ==
    ASSUME Types, PlaceInv, NEW p \in Prompts, Early(run[p]), Leave(p, "rejected"),
           UNCHANGED <<session, queues, cleared>>,
           dropped' = dropped \cup Carried(run[p]) \cup {p}
    PROVE  Moves(p, {p})
<1> DEFINE r == [Idle EXCEPT !.pc = "rejected"]
<1>1. run'[p] = r /\ \A q \in Prompts \ {p} : run'[q] = run[q]
  BY RunIs DEF Leave
<1>2. Holding(r) /\ ~Early(r) /\ Carried(r) = {}
  BY IdleHolds
<1> HIDE DEF r
<1>3. p \notin Somewhere
  BY DEF PlaceInv
<1>4. /\ Queued' = Queued /\ Gone' = Gone \cup Carried(run[p]) \cup {p} /\ Written' = Written
      /\ SequencesOnce'
  BY DEF PlaceInv, SequencesOnce, session, queues, Queued, Gone, Written
<1>5. p \notin Queued \cup Gone \cup Written
  BY <1>3 DEF Somewhere
<1> QED BY <1>1, <1>2, <1>3, <1>4, <1>5 DEF Moves, PlaceInv, Apart

LEMMA SnapshotMoves ==
    ASSUME Types, PlaceInv, NEW p \in Prompts, Snapshot(p)
    PROVE  Moves(p, {}) \/ Moves(p, {p})
<1>1. run[p] \in RunRecord /\ run[p].pc = "snapshot" /\ Holding(run[p])
  BY DEF Types, RunTypes, PlaceInv, Snapshot, At
<1>2. run[p].todo = <<>> /\ run[p].polled = <<>> /\ Early(run[p])
  BY <1>1 DEF Holding, Early
<1>3. Carried(run[p]) = {}
  BY <1>2, OnceEmpty DEF Carried
<1>4. CASE Throw /\ Reject(p) /\ dropped' = dropped \cup {p}
           /\ UNCHANGED <<nextTurnQueue, runAbortController>>
  <2>1. UNCHANGED <<session, queues, cleared>>
    BY <1>4 DEF Snapshot, queues, session
  <2> QED BY <1>2, <1>3, <1>4, <2>1, RejectMoves DEF Reject
<1>5. ASSUME Set(p, [run[p] EXCEPT !.context = Shown, !.polled = nextTurnQueue,
                            !.pc = IF nextTurnQueue = <<>> THEN "hook" ELSE "announce"]),
             nextTurnQueue' = <<>>, UNCHANGED <<phase, slots, bounds, dropped>>
      PROVE  Moves(p, {})
  <2> DEFINE r == [run[p] EXCEPT !.context = Shown, !.polled = nextTurnQueue,
                            !.pc = IF nextTurnQueue = <<>> THEN "hook" ELSE "announce"]
  <2>1. r.polled = nextTurnQueue /\ r.todo = <<>> /\ r.pc \in {"hook", "announce"}
    BY <1>1, <1>2 DEF RunRecord
  <2>2. run'[p] = r /\ \A q \in Prompts \ {p} : run'[q] = run[q]
    BY <1>5, RunIs
  <2> HIDE DEF r
  <2>3. Range(nextTurnQueue) \subseteq Messages
    BY DEF Types, QueueTypes, Messages, Range
  <2>4. Carried(r) = Range(nextTurnQueue)
    BY <2>1, <2>3, CarriedPolled
  <2>5. Holding(r)
    BY <2>1, OnceEmpty DEF Holding, PlaceInv, SequencesOnce
  <2>6. UNCHANGED <<session, steerQueue, followUpQueue, cleared, dropped>>
    BY <1>5 DEF Snapshot
  <2>7. SequencesOnce' /\ Gone' = Gone /\ Written' = Written
    BY <1>5, <2>6, OnceEmpty DEF PlaceInv, SequencesOnce, session, Gone, Written
  <2>8. /\ Queued' = Range(steerQueue) \cup Range(followUpQueue)
        /\ Queued = Queued' \cup Range(nextTurnQueue)
    BY <1>5, <2>6, OnceEmpty DEF Queued
  <2>9. Range(nextTurnQueue) \cap Queued' = {}
    <3>1. \A m \in Range(nextTurnQueue) : m \in NextTurns
      BY DEF Types, QueueTypes, Range
    <3>2. \A m \in Queued' : m \in Steers \cup FollowUps
      BY <2>8 DEF Types, QueueTypes, Range
    <3> QED BY <3>1, <3>2, EntriesAssumption
  <2> QED BY <1>2, <1>3, <2>2, <2>4, <2>5, <2>7, <2>8, <2>9 DEF Moves, PlaceInv, Apart
<1> QED BY <1>4, <1>5 DEF Snapshot

LEMMA AnnounceNextTurnMoves ==
    ASSUME Types, PlaceInv, NEW p \in Prompts, AnnounceNextTurn(p)
    PROVE  Moves(p, {}) \/ Moves(p, {p})
<1>1. run[p] \in RunRecord /\ run[p].pc = "announce" /\ Holding(run[p]) /\ RunShape(run[p])
  BY DEF Types, RunTypes, PlaceInv, AnnounceNextTurn, At
<1>2. run[p].todo = <<>> /\ run[p].polled \in Seq(NextTurns) /\ Once(run[p].polled)
      /\ Early(run[p])
  BY <1>1 DEF Holding, RunShape, Early
<1>3. UNCHANGED <<session, steerQueue, followUpQueue, generation, cleared>>
  BY DEF AnnounceNextTurn
<1>4. ASSUME Goto(p, "hook"), UNCHANGED <<phase, slots, bounds, nextTurnQueue, dropped>>
      PROVE  Moves(p, {})
  <2> DEFINE r == [run[p] EXCEPT !.pc = "hook"]
  <2>1. r.pc = "hook" /\ r.todo = run[p].todo /\ r.polled = run[p].polled
    BY <1>1 DEF RunRecord
  <2>2. Set(p, r)
    BY <1>4 DEF Goto
  <2> HIDE DEF r
  <2>3. Carried(r) = Carried(run[p]) /\ Holding(r)
    BY <1>2, <2>1, OnceEmpty, CarriedAlike DEF Holding
  <2>4. UNCHANGED <<session, queues, cleared, dropped>>
    BY <1>3, <1>4 DEF queues, session
  <2> QED BY <1>2, <2>2, <2>3, <2>4, StandsStill
<1>5. ASSUME Throw, Reject(p), nextTurnQueue' = run[p].polled \o nextTurnQueue,
             dropped' = dropped \cup {p}
      PROVE  Moves(p, {p})
  <2> DEFINE r == [Idle EXCEPT !.pc = "rejected"]
  <2>1. run'[p] = r /\ \A q \in Prompts \ {p} : run'[q] = run[q]
    BY <1>5, RunIs DEF Reject, Leave
  <2>2. Holding(r) /\ ~Early(r) /\ Carried(r) = {}
    BY IdleHolds
  <2> HIDE DEF r
  <2>3. Range(run[p].polled) \subseteq Messages
    BY <1>2 DEF Messages, Range
  <2>4. Carried(run[p]) = Range(run[p].polled)
    BY <1>2, <2>3, CarriedPolled
  <2>5. Range(run[p].polled) \cap Range(nextTurnQueue) = {}
    BY <2>4 DEF PlaceInv, Apart, Queued
  <2>6. /\ Once(nextTurnQueue')
        /\ Range(nextTurnQueue') = Range(run[p].polled) \cup Range(nextTurnQueue)
    BY <1>2, <1>5, <2>5, OnceJoined DEF Types, QueueTypes, PlaceInv, SequencesOnce
  <2>7. SequencesOnce' /\ Gone' = Gone \cup {p} /\ Written' = Written
    BY <1>3, <1>5, <2>6 DEF PlaceInv, SequencesOnce, session, Gone, Written
  <2>8. Queued' = Queued \cup Carried(run[p])
    BY <1>3, <2>4, <2>6 DEF Queued
  <2>9. p \notin Somewhere
    BY <1>2 DEF PlaceInv
  <2>10. p \notin Queued \cup Gone \cup Written \cup Carried(run[p])
    BY <2>9 DEF Somewhere
  <2> QED BY <2>1, <2>2, <2>7, <2>8, <2>9, <2>10 DEF Moves, PlaceInv, Apart
<1> QED BY <1>4, <1>5 DEF AnnounceNextTurn

LEMMA BeforeAgentStartMoves ==
    ASSUME Types, PlaceInv, NEW p \in Prompts, BeforeAgentStart(p)
    PROVE  Moves(p, {p})
<1>1. run[p] \in RunRecord /\ run[p].pc = "hook" /\ Holding(run[p]) /\ RunShape(run[p])
  BY DEF Types, RunTypes, PlaceInv, BeforeAgentStart, At
<1>2. run[p].todo = <<>> /\ run[p].polled \in Seq(Messages) /\ Once(run[p].polled)
      /\ Early(run[p])
  BY <1>1 DEF Holding, RunRecord, Early
<1>3. UNCHANGED <<session, queues, cleared>>
  BY DEF BeforeAgentStart
<1>4. Carried(run[p]) = Range(run[p].polled)
  <2>1. Range(run[p].polled) \subseteq Messages
    BY <1>2 DEF Range
  <2> QED BY <1>2, <2>1, CarriedPolled
<1>5. CASE Throw /\ Reject(p) /\ dropped' = dropped \cup Range(run[p].polled) \cup {p}
  BY <1>2, <1>3, <1>4, <1>5, RejectMoves DEF Reject
<1>6. ASSUME Set(p, [run[p] EXCEPT !.pc = "append", !.then = "poll", !.polled = <<>>,
                            !.todo = Append(run[p].polled, p)]), UNCHANGED dropped
      PROVE  Moves(p, {p})
  <2> DEFINE r == [run[p] EXCEPT !.pc = "append", !.then = "poll", !.polled = <<>>,
                            !.todo = Append(run[p].polled, p)]
  <2>1. r.pc = "append" /\ r.polled = <<>> /\ r.todo = Append(run[p].polled, p)
    BY <1>1 DEF RunRecord
  <2>2. run'[p] = r /\ \A q \in Prompts \ {p} : run'[q] = run[q]
    BY <1>6, RunIs
  <2> HIDE DEF r
  <2>3. p \notin Somewhere
    BY <1>2 DEF PlaceInv
  <2>4. p \notin Queued \cup Gone \cup Written \cup Carried(run[p]) /\ p \in Messages
    BY <2>3 DEF Somewhere, Messages
  <2>5. Once(r.todo) /\ Range(r.todo) = Range(run[p].polled) \cup {p}
    BY <1>2, <1>4, <2>1, <2>4, OnceAppended
  <2>6. Holding(r) /\ ~Early(r)
    BY <2>1, <2>5, OnceEmpty DEF Holding, Early
  <2>7. Carried(r) = Carried(run[p]) \cup {p}
    BY <1>4, <2>1, <2>4, <2>5, OnceEmpty DEF Carried
  <2>8. Queued' = Queued /\ Gone' = Gone /\ Written' = Written /\ SequencesOnce'
    BY <1>3, <1>6 DEF PlaceInv, SequencesOnce, session, queues, Queued, Gone, Written
  <2> QED BY <2>2, <2>3, <2>4, <2>6, <2>7, <2>8 DEF Moves, PlaceInv, Apart
<1> QED BY <1>5, <1>6 DEF BeforeAgentStart

LEMMA EmitMessageMoves ==
    ASSUME Types, PlaceInv, NEW p \in Prompts, EmitMessage(p)
    PROVE  Moves(p, {})
<1> DEFINE h == Head(run[p].todo)
           rest == Tail(run[p].todo)
           r == [run[p] EXCEPT !.todo = rest, !.context = Append(@, Head(run[p].todo)),
                               !.parent = 0, !.pc = IF rest = <<>> THEN run[p].then ELSE "append",
                               !.then = IF rest = <<>> THEN "off" ELSE @]
<1>1. /\ run[p] \in RunRecord /\ run[p].pc = "commit" /\ Holding(run[p]) /\ RunShape(run[p])
      /\ run[p].parent \in 0..Len(tree)
  BY DEF Types, RunTypes, PlaceInv, EmitMessage, At
<1>2. /\ run[p].todo \in Seq(Said) /\ run[p].todo # <<>> /\ Once(run[p].todo)
      /\ run[p].polled = <<>> /\ run[p].then \in {"poll", "model", "turnEnd"}
  BY <1>1 DEF Holding, RunShape
<1>3. UNCHANGED <<queues, cleared>>
  BY DEF EmitMessage
<1>4. /\ Once(rest) /\ Range(run[p].todo) = {h} \cup Range(rest) /\ h \in Said
      /\ h \in Messages => h \notin Range(rest)
  BY <1>2, OnceTail
<1>5. Carried(run[p]) = ({h} \cup Range(rest)) \cap Messages
  BY <1>2, <1>4, OnceEmpty DEF Carried
<1>6. Apart(Carried(run[p])) /\ SequencesOnce /\ Written \subseteq Messages
  BY DEF PlaceInv, Written
<1>7. h \notin Written /\ h \in Entries
  BY <1>4, <1>5, <1>6, MessagesAreEntries DEF Apart, Said
<1>8. ASSUME Commit(h, run[p].parent)
      PROVE  /\ Written' = Written \cup ({h} \cap Messages)
             /\ \A i, j \in DOMAIN tree' :
                   tree'[i].what = tree'[j].what /\ tree'[i].what \in Messages => i = j
  BY <1>1, <1>6, <1>7, <1>8, MessageCommitted
<1>9. ASSUME Commit(h, run[p].parent), Set(p, r), UNCHANGED dropped
      PROVE  Moves(p, {})
  <2>1. /\ r.todo = rest /\ r.polled = <<>>
        /\ r.pc = "append" \/ (r.pc \in {"poll", "model", "turnEnd"} /\ rest = <<>>)
    BY <1>1, <1>2 DEF RunRecord
  <2>2. run'[p] = r /\ \A q \in Prompts \ {p} : run'[q] = run[q]
    BY <1>9, RunIs
  <2> HIDE DEF r, h, rest
  <2>3. Carried(r) = Range(rest) \cap Messages
    BY <2>1, OnceEmpty DEF Carried
  <2>4. Holding(r) /\ ~Early(r)
    BY <1>4, <2>1, OnceEmpty DEF Holding, Early
  <2>5. SequencesOnce'
    BY <1>3, <1>6, <1>8, <1>9 DEF SequencesOnce, queues
  <2>6. Queued' = Queued /\ Gone' = Gone
    BY <1>3, <1>9 DEF queues, Queued, Gone
  <2>7. Written' = Written \cup ({h} \cap Messages)
    BY <1>8, <1>9
  <2> QED BY <1>4, <1>5, <1>6, <2>2, <2>3, <2>4, <2>5, <2>6, <2>7 DEF Moves, Apart, PlaceInv
<1>10. ASSUME Commit(h, run[p].parent), RunThrows(p)
       PROVE  Moves(p, {})
  <2>1. run'[p] = Failed(run[p]) /\ \A q \in Prompts \ {p} : run'[q] = run[q]
    BY <1>10, RunIs DEF RunThrows
  <2>2. Holding(run'[p]) /\ ~Early(run'[p]) /\ Carried(run'[p]) = {}
    BY <2>1, FailedHolds
  <2> HIDE DEF r, h, rest
  <2>3. SequencesOnce'
    BY <1>3, <1>6, <1>8, <1>10 DEF SequencesOnce, queues
  <2>4. Written' = Written \cup ({h} \cap Messages)
    BY <1>8, <1>10
  <2>5. {m \in Carried(run[p]) : \A i \in DOMAIN tree' : tree'[i].what # m} = Carried(run[p]) \ Written'
    BY DEF Written, Carried
  <2>6. Queued' = Queued /\ Gone' = Gone \cup (Carried(run[p]) \ Written')
    BY <1>3, <1>10, <2>5 DEF queues, Queued, Gone, RunThrows
  <2>7. {h} \cap Messages \subseteq Carried(run[p])
    BY <1>5
  <2>8. Carried(run[p]) \cap (Queued \cup Gone \cup Written) = {} /\ Apart({})
    BY <1>6 DEF Apart
  <2>9. Queued' \cap Gone' = {} /\ Queued' \cap Written' = {} /\ Gone' \cap Written' = {}
    BY <2>4, <2>6, <2>7, <2>8 DEF Apart
  <2>10. Queued' \cup Gone' \cup Written' = Queued \cup Gone \cup Written \cup Carried(run[p])
    BY <2>4, <2>6, <2>7
  <2> QED BY <2>1, <2>2, <2>3, <2>9, <2>10 DEF Moves
<1>11. CASE UNCHANGED session /\ RunThrows(p)
  BY <1>3, <1>11, ThrowMoves
<1> QED BY <1>9, <1>10, <1>11 DEF EmitMessage

\* What a poll takes leaves its queue.
LEMMA PollMoves ==
    ASSUME Types, PlaceInv, NEW p \in Prompts, run[p].todo = <<>>, run[p].polled = <<>>,
           NEW S, S \subseteq Messages, NEW q \in Seq(S), Once(q),
           NEW stage \in {"first", "prepared", "turn", "followUp"},
           Poll(p, stage, Drained(q)), UNCHANGED <<session, cleared, dropped>>,
           SequencesOnce', Range(q) \subseteq Queued,
           Queued' = (Queued \ Range(q)) \cup Range(Undrained(q))
    PROVE  Moves(p, {})
<1> DEFINE taken == Drained(q)
           r == IF taken = <<>> THEN AfterPoll(run[p], stage, <<>>)
                ELSE [run[p] EXCEPT !.pc = "announcePoll", !.polled = taken, !.stage = stage,
                                    !.gen = generation]
<1>1. run[p] \in RunRecord
  BY DEF Types, RunTypes
<1>2. /\ Once(taken) /\ Range(q) = Range(taken) \cup Range(Undrained(q))
      /\ Range(taken) \cap Range(Undrained(q)) = {}
  BY OnceDrained
<1>3. Holding(r) /\ ~Early(r) /\ Carried(r) = Range(taken)
  <2>1. CASE taken = <<>>
    <3>1. r = AfterPoll(run[p], stage, <<>>) /\ <<>> \in Seq(Messages) /\ Once(<<>>)
      BY <2>1, OnceEmpty
    <3> QED BY <1>1, <2>1, <3>1, AfterPollHolds
  <2>2. CASE taken # <<>>
    <3>1. r.pc = "announcePoll" /\ r.polled = taken /\ r.todo = <<>>
      BY <1>1, <2>2 DEF RunRecord
    <3>2. Range(taken) \subseteq Messages
      BY <1>2 DEF Range
    <3> HIDE DEF r, taken
    <3>3. Carried(r) = Range(taken)
      BY <3>1, <3>2, CarriedPolled
    <3> QED BY <1>2, <3>1, <3>3, OnceEmpty DEF Holding, Early
  <2> QED BY <2>1, <2>2
<1>4. run'[p] = r /\ \A o \in Prompts \ {p} : run'[o] = run[o]
  BY RunIs DEF Poll
<1>5. Carried(run[p]) = {}
  BY OnceEmpty DEF Carried
<1> HIDE DEF r, taken
<1>6. Gone' = Gone /\ Written' = Written
  BY DEF session, Gone, Written
<1>7. Queued = Queued' \cup Range(taken) /\ Queued' \cap Range(taken) = {}
  BY <1>2
<1> QED BY <1>3, <1>4, <1>5, <1>6, <1>7 DEF Moves, PlaceInv, Apart

\* The queues hold messages of their own.
LEMMA QueuesApart ==
    ASSUME Types
    PROVE  /\ Range(steerQueue) \subseteq Steers /\ Range(followUpQueue) \subseteq FollowUps
           /\ Range(nextTurnQueue) \subseteq NextTurns
           /\ Steers \cap FollowUps = {} /\ Steers \cap NextTurns = {} /\ FollowUps \cap NextTurns = {}
<1>1. /\ Range(steerQueue) \subseteq Steers /\ Range(followUpQueue) \subseteq FollowUps
      /\ Range(nextTurnQueue) \subseteq NextTurns
  BY DEF Types, QueueTypes, Range
<1> QED BY <1>1, EntriesAssumption

LEMMA PollSteeringMoves ==
    ASSUME Types, PlaceInv, NEW p \in Prompts, PollSteering(p)
    PROVE  Moves(p, {})
<1>1. run[p].pc = "poll" /\ Holding(run[p]) /\ RunShape(run[p])
  BY DEF Types, RunTypes, PlaceInv, PollSteering, At
<1>2. /\ run[p].todo = <<>> /\ run[p].polled = <<>>
      /\ run[p].stage \in {"first", "prepared", "turn", "followUp"}
  BY <1>1 DEF Holding, RunShape
<1>3. /\ steerQueue \in Seq(Steers) /\ Once(steerQueue) /\ Steers \subseteq Messages
  BY MessagesAreEntries DEF Types, QueueTypes, PlaceInv, SequencesOnce
<1>4. /\ Poll(p, run[p].stage, Drained(steerQueue)) /\ steerQueue' = Undrained(steerQueue)
      /\ UNCHANGED <<session, followUpQueue, nextTurnQueue, cleared, dropped>>
  BY DEF PollSteering, marks
<1>5. Once(Undrained(steerQueue)) /\ Range(Undrained(steerQueue)) \subseteq Range(steerQueue)
  BY <1>3, OnceDrained
<1>6. SequencesOnce'
  BY <1>4, <1>5 DEF PlaceInv, SequencesOnce, session
<1>7. Queued' = (Queued \ Range(steerQueue)) \cup Range(Undrained(steerQueue))
  <2>1. /\ Queued = Range(steerQueue) \cup Range(followUpQueue) \cup Range(nextTurnQueue)
        /\ Queued' = Range(Undrained(steerQueue)) \cup Range(followUpQueue) \cup Range(nextTurnQueue)
    BY <1>4 DEF Queued
  <2>2. Range(steerQueue) \cap (Range(followUpQueue) \cup Range(nextTurnQueue)) = {}
    BY QueuesApart
  <2> QED BY <2>1, <2>2
<1>8. Range(steerQueue) \subseteq Queued
  BY DEF Queued
<1> QED BY <1>2, <1>3, <1>4, <1>6, <1>7, <1>8, PollMoves

LEMMA PollFollowUpMoves ==
    ASSUME Types, PlaceInv, NEW p \in Prompts, PollFollowUp(p)
    PROVE  Moves(p, {})
<1>1. run[p].pc = "pollFollowUp" /\ Holding(run[p])
  BY DEF Types, RunTypes, PlaceInv, PollFollowUp, At
<1>2. run[p].todo = <<>> /\ run[p].polled = <<>>
  BY <1>1 DEF Holding
<1>3. /\ followUpQueue \in Seq(FollowUps) /\ Once(followUpQueue) /\ FollowUps \subseteq Messages
  BY MessagesAreEntries DEF Types, QueueTypes, PlaceInv, SequencesOnce
<1>4. /\ Poll(p, "followUp", Drained(followUpQueue)) /\ followUpQueue' = Undrained(followUpQueue)
      /\ UNCHANGED <<session, steerQueue, nextTurnQueue, cleared, dropped>>
  BY DEF PollFollowUp, marks
<1>5. Once(Undrained(followUpQueue)) /\ Range(Undrained(followUpQueue)) \subseteq Range(followUpQueue)
  BY <1>3, OnceDrained
<1>6. SequencesOnce'
  BY <1>4, <1>5 DEF PlaceInv, SequencesOnce, session
<1>7. Queued' = (Queued \ Range(followUpQueue)) \cup Range(Undrained(followUpQueue))
  <2>1. /\ Queued = Range(steerQueue) \cup Range(followUpQueue) \cup Range(nextTurnQueue)
        /\ Queued' = Range(steerQueue) \cup Range(Undrained(followUpQueue)) \cup Range(nextTurnQueue)
    BY <1>4 DEF Queued
  <2>2. Range(followUpQueue) \cap (Range(steerQueue) \cup Range(nextTurnQueue)) = {}
    BY QueuesApart
  <2> QED BY <2>1, <2>2
<1>8. Range(followUpQueue) \subseteq Queued
  BY DEF Queued
<1> QED BY <1>2, <1>3, <1>4, <1>6, <1>7, <1>8, PollMoves

\* What a listener refuses goes back, or is given up if the queue was replaced.
LEMMA AnnouncePollMoves ==
    ASSUME Types, PlaceInv, NEW p \in Prompts, AnnouncePoll(p)
    PROVE  Moves(p, {})
<1> DEFINE polled == run[p].polled
<1>1. /\ run[p] \in RunRecord /\ run[p].pc = "announcePoll" /\ Holding(run[p])
      /\ RunShape(run[p])
  BY DEF Types, RunTypes, PlaceInv, AnnouncePoll, At
<1>2. /\ run[p].todo = <<>> /\ polled \in Seq(Messages) /\ Once(polled)
      /\ run[p].stage \in {"first", "prepared", "turn", "followUp"}
  BY <1>1 DEF Holding, RunRecord, RunShape
<1>3. UNCHANGED <<session, nextTurnQueue, generation, cleared>>
  BY DEF AnnouncePoll
<1>4. Carried(run[p]) = Range(polled)
  <2>1. Range(polled) \subseteq Messages
    BY <1>2 DEF Range
  <2> QED BY <1>2, <2>1, CarriedPolled
<1>5. ASSUME Set(p, AfterPoll(run[p], run[p].stage, polled)),
             UNCHANGED <<steerQueue, followUpQueue, dropped>>
      PROVE  Moves(p, {})
  <2> DEFINE r == AfterPoll(run[p], run[p].stage, polled)
  <2>1. Holding(r) /\ ~Early(r) /\ Carried(r) = Carried(run[p])
    BY <1>1, <1>2, <1>4, AfterPollHolds
  <2>2. UNCHANGED <<session, queues, cleared, dropped>>
    BY <1>3, <1>5 DEF queues, session
  <2> QED BY <1>5, <2>1, <2>2, StandsStill
<1>6. ASSUME PutBack(p), Set(p, Failed(run[p])), run[p].gen # generation,
             dropped' = dropped \cup Range(polled)
      PROVE  Moves(p, {})
  <2>1. UNCHANGED <<session, queues, cleared>>
    BY <1>3, <1>6 DEF PutBack, queues, session
  <2> QED BY <1>4, <1>6, <2>1, FailedHolds, GivesUp
<1>7. ASSUME PutBack(p), Set(p, Failed(run[p])), run[p].gen = generation, UNCHANGED dropped
      PROVE  Moves(p, {})
  <2>1. run'[p] = Failed(run[p]) /\ \A q \in Prompts \ {p} : run'[q] = run[q]
    BY <1>7, RunIs
  <2>2. Holding(run'[p]) /\ ~Early(run'[p]) /\ Carried(run'[p]) = {}
    BY <2>1, FailedHolds
  <2>3. Range(polled) \cap Queued = {}
    BY <1>4 DEF PlaceInv, Apart
  <2>4. Gone' = Gone /\ Written' = Written
    BY <1>3, <1>7 DEF session, Gone, Written
  <2>5. SequencesOnce' /\ Queued' = Queued \cup Range(polled)
    <3>1. CASE run[p].stage = "followUp"
      <4>1. followUpQueue' = polled \o followUpQueue /\ UNCHANGED steerQueue
        BY <1>7, <3>1 DEF PutBack
      <4>2. polled \in Seq(FollowUps) /\ followUpQueue \in Seq(FollowUps)
        BY <1>1, <3>1 DEF RunShape, Types, QueueTypes
      <4>3. Once(followUpQueue') /\ Range(followUpQueue') = Range(polled) \cup Range(followUpQueue)
        BY <1>2, <2>3, <4>1, <4>2, OnceJoined DEF PlaceInv, SequencesOnce, Queued
      <4> QED BY <1>3, <4>1, <4>3 DEF PlaceInv, SequencesOnce, Queued, session
    <3>2. CASE run[p].stage # "followUp"
      <4>1. steerQueue' = polled \o steerQueue /\ UNCHANGED followUpQueue
        BY <1>7, <3>2 DEF PutBack
      <4>2. polled \in Seq(Steers) /\ steerQueue \in Seq(Steers)
        BY <1>1, <3>2 DEF RunShape, Types, QueueTypes
      <4>3. Once(steerQueue') /\ Range(steerQueue') = Range(polled) \cup Range(steerQueue)
        BY <1>2, <2>3, <4>1, <4>2, OnceJoined DEF PlaceInv, SequencesOnce, Queued
      <4> QED BY <1>3, <4>1, <4>3 DEF PlaceInv, SequencesOnce, Queued, session
    <3> QED BY <3>1, <3>2
  <2> QED BY <1>4, <2>1, <2>2, <2>4, <2>5 DEF Moves, PlaceInv, Apart
<1> QED BY <1>5, <1>6, <1>7 DEF AnnouncePoll

\* A run in the loop that has nothing at hand may go on, or throw and lose nothing.
LEMMA BareGoesOn ==
    ASSUME Types, PlaceInv, NEW p \in Prompts, NEW r, Set(p, r),
           UNCHANGED <<session, queues, cleared, dropped>>,
           run[p].todo = <<>>, run[p].polled = <<>>,
           Holding(r), Carried(r) = {}, Early(r) => Early(run[p])
    PROVE  Moves(p, {})
<1>1. Carried(run[p]) = {}
  BY OnceEmpty DEF Carried
<1> QED BY <1>1, StandsStill

\* It flushes.
LEMMA BareFlushes ==
    ASSUME Types, PlaceInv, NEW p \in Prompts,
           NEW then \in {"savePoint", "turnThrows", "refresh", "idle", "final"},
           Set(p, Flushing(run[p], then)), UNCHANGED <<session, queues, cleared, dropped>>,
           run[p].todo = <<>>, run[p].polled = <<>>
    PROVE  Moves(p, {})
<1>1. run[p] \in RunRecord /\ Carried(run[p]) = {}
  BY OnceEmpty DEF Carried, Types, RunTypes
<1>2. /\ Holding(Flushing(run[p], then)) /\ ~Early(Flushing(run[p], then))
      /\ Carried(Flushing(run[p], then)) = {}
  BY <1>1, OnceEmpty, FlushingHolds
<1> QED BY <1>2, BareGoesOn

LEMMA PromptMoves ==
    ASSUME Types, PlaceInv, NEW p \in Prompts, Prompt(p)
    PROVE  Moves(p, {})
<1> DEFINE r == [run[p] EXCEPT !.pc = "snapshot"]
<1>1. run[p] \in RunRecord /\ run[p].pc = "off" /\ Holding(run[p])
  BY DEF Types, RunTypes, PlaceInv, Prompt, At
<1>2. run[p].todo = <<>> /\ run[p].polled = <<>> /\ Early(run[p])
  BY <1>1 DEF Holding, Early
<1>3. r.todo = <<>> /\ r.polled = <<>> /\ r.pc = "snapshot" /\ Set(p, r)
  BY <1>1, <1>2 DEF RunRecord, Prompt, Goto
<1>4. UNCHANGED <<session, queues, cleared, dropped>>
  BY DEF Prompt, marks
<1> HIDE DEF r
<1> QED BY <1>2, <1>3, <1>4, OnceEmpty, BareGoesOn DEF Holding, Carried

LEMMA ReadLeafMoves ==
    ASSUME Types, PlaceInv, NEW p \in Prompts, ReadLeaf(p)
    PROVE  Moves(p, {})
<1> DEFINE r == [run[p] EXCEPT !.pc = "commit", !.parent = leaf]
<1>1. run[p] \in RunRecord /\ run[p].pc = "append" /\ Holding(run[p])
  BY DEF Types, RunTypes, PlaceInv, ReadLeaf, At
<1>2. r.todo = run[p].todo /\ r.polled = run[p].polled /\ r.pc = "commit" /\ Set(p, r)
  BY <1>1 DEF RunRecord, ReadLeaf
<1>3. UNCHANGED <<session, queues, cleared, dropped>>
  BY DEF ReadLeaf, marks
<1> HIDE DEF r
<1>4. Holding(r) /\ ~Early(r)
  BY <1>1, <1>2 DEF Holding, Early
<1>5. Carried(r) = Carried(run[p])
  BY <1>2, CarriedAlike
<1> QED BY <1>2, <1>3, <1>4, <1>5, StandsStill

LEMMA RefreshMoves ==
    ASSUME Types, PlaceInv, NEW p \in Prompts, Refresh(p)
    PROVE  Moves(p, {})
<1> DEFINE fresh == Refreshed(run[p])
           bare == [fresh EXCEPT !.pc = "poll"]
           r == IF fresh.polled = <<>> THEN bare ELSE Injecting(fresh)
<1>1. run[p] \in RunRecord /\ run[p].pc = "refresh" /\ Holding(run[p])
  BY DEF Types, RunTypes, PlaceInv, Refresh, At
<1>2. run[p].todo = <<>> /\ Once(run[p].polled)
  BY <1>1 DEF Holding
<1>3. UNCHANGED <<session, queues, cleared>>
  BY DEF Refresh
<1>4. ASSUME Set(p, r), UNCHANGED dropped
      PROVE  Moves(p, {})
  <2>1. fresh.todo = <<>> /\ fresh.polled = run[p].polled
    BY <1>1, <1>2 DEF RunRecord, Refreshed
  <2>2. Carried(fresh) = Carried(run[p])
    BY <1>2, <2>1, CarriedAlike
  <2>3. Holding(r) /\ ~Early(r) /\ Carried(r) = Carried(run[p])
    <3>1. CASE fresh.polled = <<>>
      <4>1. bare.todo = <<>> /\ bare.polled = <<>> /\ bare.pc = "poll"
        BY <1>1, <1>2, <2>1, <3>1 DEF RunRecord, Refreshed
      <4>2. r = bare
        BY <3>1
      <4> HIDE DEF r, bare, fresh
      <4>3. Holding(bare) /\ ~Early(bare)
        BY <4>1, OnceEmpty DEF Holding, Early
      <4>4. Carried(bare) = Carried(run[p])
        BY <1>2, <2>1, <3>1, <4>1, CarriedAlike
      <4> QED BY <4>2, <4>3, <4>4
    <3>2. CASE fresh.polled # <<>>
      <4>1. fresh \in RunRecord
        <5>1. Shown \in Seq(Entries)
          BY ShownTyped DEF Types
        <5> QED BY <1>1, <5>1 DEF RunRecord, Refreshed
      <4>2. r = Injecting(fresh)
        BY <3>2
      <4> HIDE DEF r, bare, fresh
      <4> QED BY <1>2, <2>1, <2>2, <4>1, <4>2, InjectingHolds
    <3> QED BY <3>1, <3>2
  <2> HIDE DEF r
  <2> QED BY <1>3, <1>4, <2>3, StandsStill
<1>5. CASE UNCHANGED session /\ RunThrows(p)
  BY <1>3, <1>5, ThrowMoves
<1> QED BY <1>4, <1>5 DEF Refresh

LEMMA RespondMoves ==
    ASSUME Types, PlaceInv, NEW p \in Prompts, Respond(p)
    PROVE  Moves(p, {})
<1>1. run[p] \in RunRecord /\ run[p].pc = "model" /\ Holding(run[p])
  BY DEF Types, RunTypes, PlaceInv, Respond, At
<1>2. run[p].todo = <<>> /\ run[p].polled = <<>>
  BY <1>1 DEF Holding
<1>3. UNCHANGED <<queues, cleared>>
  BY DEF Respond
<1>4. ASSUME NEW kind \in {"stop", "more", "error"}, UNCHANGED <<dropped, session>>,
             Set(p, [run[p] EXCEPT !.pc = "append",
                        !.todo = IF kind = "more" THEN <<"response", "result">> ELSE <<"response">>,
                        !.then = "turnEnd", !.more = (kind = "more"),
                        !.stage = IF kind = "error" THEN "over" ELSE "turn",
                        !.turns = IF kind = "more" THEN @ + 1 ELSE @])
      PROVE  Moves(p, {})
  <2> DEFINE r == [run[p] EXCEPT !.pc = "append",
                        !.todo = IF kind = "more" THEN <<"response", "result">> ELSE <<"response">>,
                        !.then = "turnEnd", !.more = (kind = "more"),
                        !.stage = IF kind = "error" THEN "over" ELSE "turn",
                        !.turns = IF kind = "more" THEN @ + 1 ELSE @]
  <2>1. /\ r.pc = "append" /\ r.polled = <<>>
        /\ r.todo = IF kind = "more" THEN <<"response", "result">> ELSE <<"response">>
    BY <1>1, <1>2 DEF RunRecord
  <2> HIDE DEF r
  <2>2. \A i \in DOMAIN r.todo : r.todo[i] \in {"response", "result"}
    BY <2>1
  <2>3. \A i \in DOMAIN r.todo : r.todo[i] \notin Messages
    BY <2>2, EntriesAssumption
  <2>4. Once(r.todo) /\ Range(r.todo) \cap Messages = {}
    BY <2>3 DEF Once, Range
  <2>5. Holding(r) /\ ~Early(r) /\ Carried(r) = {}
    BY <2>1, <2>4, OnceEmpty DEF Holding, Early, Carried
  <2> QED BY <1>2, <1>3, <1>4, <2>5, BareGoesOn DEF r
<1>5. CASE UNCHANGED session /\ RunThrows(p)
  BY <1>3, <1>5, ThrowMoves
<1> QED BY <1>4, <1>5 DEF Respond

LEMMA TurnEndMoves ==
    ASSUME Types, PlaceInv, NEW p \in Prompts, TurnEnd(p)
    PROVE  Moves(p, {})
<1>1. run[p].todo = <<>> /\ run[p].polled = <<>>
  BY DEF PlaceInv, Holding, TurnEnd, At
<1>2. UNCHANGED <<session, queues, cleared, dropped>>
  BY DEF TurnEnd, marks
<1> QED BY <1>1, <1>2, BareFlushes DEF TurnEnd

LEMMA SavePointMoves ==
    ASSUME Types, PlaceInv, NEW p \in Prompts, SavePoint(p)
    PROVE  Moves(p, {})
<1>1. UNCHANGED <<session, queues, cleared>>
  BY DEF SavePoint
<1>2. CASE RunThrows(p)
  BY <1>1, <1>2, ThrowMoves
<1>3. ASSUME At(p, "savePoint"), UNCHANGED dropped,
             Set(p, IF run[p].failing > 0 \/ run[p].stage = "over" THEN Flushing(run[p], "idle")
                    ELSE [run[p] EXCEPT !.pc = "poll"])
      PROVE  Moves(p, {})
  <2>1. run[p] \in RunRecord /\ run[p].todo = <<>> /\ run[p].polled = <<>>
    BY <1>3 DEF PlaceInv, Holding, At, Types, RunTypes
  <2>2. CASE run[p].failing > 0 \/ run[p].stage = "over"
    BY <1>1, <1>3, <2>1, <2>2, BareFlushes
  <2>3. CASE ~(run[p].failing > 0 \/ run[p].stage = "over")
    <3> DEFINE r == [run[p] EXCEPT !.pc = "poll"]
    <3>1. r.pc = "poll" /\ r.todo = <<>> /\ r.polled = <<>>
      BY <2>1 DEF RunRecord
    <3>2. Set(p, r)
      BY <1>3, <2>3
    <3> HIDE DEF r
    <3>3. Holding(r) /\ ~Early(r) /\ Carried(r) = {}
      BY <3>1, OnceEmpty DEF Holding, Early, Carried
    <3> QED BY <1>1, <1>3, <2>1, <3>2, <3>3, BareGoesOn
  <2> QED BY <2>2, <2>3
<1> QED BY <1>1, <1>2, <1>3 DEF SavePoint

\* Writes are no messages.
LEMMA WritesApart ==
    /\ Writes \cap Messages = {}
    /\ \A q \in Seq(Writes) : Once(q) /\ Range(q) \cap Messages = {}
<1>1. Writes \cap Messages = {}
  BY EntriesAssumption
<1> QED BY <1>1 DEF Once, Range

\* Where a flush goes on, and what the run still has with it.
LEMMA FlushIs ==
    ASSUME Types, PlaceInv, NEW p \in Prompts, run[p].pc \in {"flush", "flushing"}
    PROVE  /\ run[p] \in RunRecord
           /\ run[p].then \in {"savePoint", "turnThrows", "refresh", "idle", "final"}
           /\ run[p].polled # <<>> => run[p].then = "refresh"
           /\ Once(run[p].polled)
           /\ Carried(run[p]) = Range(run[p].polled) \cap Messages
           /\ run[p].pc = "flush" => run[p].todo = <<>>
           /\ run[p].pc = "flushing" => run[p].todo \in Seq(Writes) /\ run[p].todo # <<>>
<1>1. run[p] \in RunRecord /\ RunShape(run[p]) /\ Holding(run[p])
  BY DEF Types, RunTypes, PlaceInv
<1>2. Range(run[p].todo) \cap Messages = {}
  BY <1>1, WritesApart, OnceEmpty DEF Holding
<1>3. Carried(run[p]) = Range(run[p].polled) \cap Messages
  BY <1>2 DEF Carried
<1> QED BY <1>1, <1>3 DEF RunShape, Holding

LEMMA FlushMoves ==
    ASSUME Types, PlaceInv, NEW p \in Prompts, Flush(p)
    PROVE  Moves(p, {})
<1>1. run[p].pc = "flush"
  BY DEF Flush, At
<1>2. UNCHANGED <<session, queues, cleared, dropped>>
  BY DEF Flush, marks
<1>3. CASE pendingSessionWrites = <<>>
  <2> DEFINE r == Flushing(run[p], run[p].then)
  <2>1. Set(p, r)
    BY <1>3 DEF Flush
  <2>2. Holding(r) /\ ~Early(r) /\ Carried(r) = Carried(run[p])
    BY <1>1, FlushIs, FlushingHolds
  <2> HIDE DEF r
  <2> QED BY <1>2, <2>1, <2>2, StandsStill
<1>4. CASE pendingSessionWrites # <<>>
  <2> DEFINE todo == <<Head(pendingSessionWrites)>>
             r == [run[p] EXCEPT !.pc = "flushing", !.parent = leaf, !.todo = todo]
  <2>1. r.pc = "flushing" /\ r.todo = todo /\ r.polled = run[p].polled /\ r.then = run[p].then
    BY <1>1, FlushIs DEF RunRecord
  <2>2. Set(p, r)
    BY <1>4 DEF Flush
  <2>3. todo \in Seq(Writes)
    <3>1. Head(pendingSessionWrites) \in Writes
      BY <1>4 DEF Types, WriteTypes
    <3> QED BY <3>1
  <2> HIDE DEF r, todo
  <2>4. Carried(r) = Carried(run[p])
    BY <1>1, <2>1, <2>3, FlushIs, WritesApart DEF Carried
  <2>5. Holding(r) /\ ~Early(r)
    BY <1>1, <2>1, <2>3, FlushIs, WritesApart DEF Holding, Early
  <2> QED BY <1>2, <2>2, <2>4, <2>5, StandsStill
<1> QED BY <1>3, <1>4

LEMMA FlushOneMoves ==
    ASSUME Types, PlaceInv, NEW p \in Prompts, FlushOne(p)
    PROVE  Moves(p, {})
<1> DEFINE written == [run[p] EXCEPT !.todo = <<>>, !.parent = 0]
           r == IF pendingSessionWrites' # <<>> THEN [written EXCEPT !.pc = "flush"]
                ELSE [written EXCEPT !.pc = run[p].then, !.then = "off"]
<1>1. run[p].pc = "flushing"
  BY DEF FlushOne, At
<1>2. /\ Head(run[p].todo) \in Writes /\ Head(run[p].todo) \notin Messages
      /\ Head(run[p].todo) \in Entries
  <2>1. Head(run[p].todo) \in Writes
    BY <1>1, FlushIs
  <2> QED BY <2>1, WritesApart, MessagesAreEntries
<1>3. UNCHANGED <<queues, cleared, dropped>> /\ Commit(Head(run[p].todo), run[p].parent) /\ Set(p, r)
  BY DEF FlushOne, marks
<1>4. /\ r.todo = <<>> /\ r.polled = run[p].polled
      /\ (r.pc = "flush" /\ r.then = run[p].then) \/ r.pc = run[p].then
  BY <1>1, FlushIs DEF RunRecord
<1>5. run'[p] = r /\ \A q \in Prompts \ {p} : run'[q] = run[q]
  BY <1>3, RunIs
<1> HIDE DEF r, written
<1>6. Carried(r) = Carried(run[p])
  BY <1>1, <1>4, FlushIs, CarriedPolled
<1>7. Holding(r) /\ ~Early(r)
  BY <1>1, <1>4, FlushIs, OnceEmpty DEF Holding, Early
<1>8. run[p].parent \in 0..Len(tree) /\ SequencesOnce /\ Head(run[p].todo) \notin Written
  BY <1>2 DEF Types, RunTypes, PlaceInv, Written
<1>9. /\ Written' = Written
      /\ \A i, j \in DOMAIN tree' :
            tree'[i].what = tree'[j].what /\ tree'[i].what \in Messages => i = j
  <2>1. /\ Written' = Written \cup ({Head(run[p].todo)} \cap Messages)
        /\ \A i, j \in DOMAIN tree' :
            tree'[i].what = tree'[j].what /\ tree'[i].what \in Messages => i = j
    BY <1>2, <1>3, <1>8, MessageCommitted
  <2> QED BY <1>2, <2>1
<1>10. Queued' = Queued /\ Gone' = Gone /\ SequencesOnce'
  BY <1>3, <1>8, <1>9 DEF queues, Queued, Gone, SequencesOnce
<1> QED BY <1>5, <1>6, <1>7, <1>9, <1>10 DEF Moves, PlaceInv, Apart

LEMMA FlushThrowsMoves ==
    ASSUME Types, PlaceInv, NEW p \in Prompts, FlushThrows(p)
    PROVE  Moves(p, {})
<1>1. /\ UNCHANGED <<session, queues, cleared>>
      /\ dropped' = dropped \cup Carried(run[p])
  BY DEF FlushThrows
<1> QED BY <1>1, UnreportedHolds, FailedHolds, GivesUp DEF FlushThrows

LEMMA EndMoves ==
    ASSUME Types, PlaceInv, NEW p \in Prompts, BecomeIdle(p) \/ ListenersReturn(p) \/ Finish(p)
    PROVE  Moves(p, {})
<1>1. CASE BecomeIdle(p)
  <2> DEFINE r == [run[p] EXCEPT !.pc = "listeners"]
  <2>1. run[p] \in RunRecord /\ run[p].todo = <<>> /\ run[p].polled = <<>>
    BY <1>1 DEF PlaceInv, Holding, At, BecomeIdle, Types, RunTypes
  <2>2. r.pc = "listeners" /\ r.todo = <<>> /\ r.polled = <<>> /\ Set(p, r)
    BY <1>1, <2>1 DEF RunRecord, BecomeIdle, Goto
  <2>3. UNCHANGED <<session, queues, cleared, dropped>>
    BY <1>1 DEF BecomeIdle, marks
  <2> HIDE DEF r
  <2>4. Holding(r) /\ ~Early(r) /\ Carried(r) = {}
    BY <2>2, OnceEmpty DEF Holding, Early, Carried
  <2> QED BY <2>1, <2>2, <2>3, <2>4, BareGoesOn
<1>2. CASE ListenersReturn(p)
  <2>1. run[p].todo = <<>> /\ run[p].polled = <<>>
    BY <1>2 DEF PlaceInv, Holding, At, ListenersReturn
  <2>2. UNCHANGED <<session, queues, cleared>>
    BY <1>2 DEF ListenersReturn
  <2> QED BY <1>2, <2>1, <2>2, BareFlushes, ThrowMoves DEF ListenersReturn
<1>3. CASE Finish(p)
  <2>1. run[p].todo = <<>> /\ run[p].polled = <<>>
    BY <1>3 DEF PlaceInv, Holding, At, Finish
  <2>2. UNCHANGED <<session, queues, cleared, dropped>>
    BY <1>3 DEF Finish, marks
  <2>3. \E pc \in {"done", "rejected"} : Set(p, [Idle EXCEPT !.pc = pc])
    BY <1>3 DEF Finish, Leave
  <2> QED BY <2>1, <2>2, <2>3, IdleHolds, BareGoesOn
<1> QED BY <1>1, <1>2, <1>3

\* Every step of a run.
LEMMA RunMoves ==
    ASSUME Types, PlaceInv, NEW p \in Prompts, Prompt(p) \/ RunStep(p)
    PROVE  PlaceInv' /\ Somewhere \subseteq Somewhere'
<1>1. Moves(p, {}) \/ Moves(p, {p})
  BY PromptMoves, SnapshotMoves, AnnounceNextTurnMoves, BeforeAgentStartMoves, ReadLeafMoves,
     EmitMessageMoves, PollSteeringMoves, PollFollowUpMoves, AnnouncePollMoves, RefreshMoves,
     RespondMoves, TurnEndMoves, SavePointMoves, FlushMoves, FlushOneMoves, FlushThrowsMoves,
     EndMoves DEF RunStep
<1> QED BY <1>1, MovesKeeps

-----------------------------------------------------------------------------
(* What callers do moves messages into the queues and out of them.         *)

\* What nobody has handed over is nowhere.
LEMMA UnsentIs ==
    ASSUME NEW source \in SUBSET Messages, NEW m \in Unsent(source)
    PROVE  m \in source /\ m \notin Somewhere
<1> DEFINE unsent == {o \in source :
                        /\ o \notin Range(steerQueue) \cup Range(followUpQueue) \cup Range(nextTurnQueue)
                        /\ o \notin cleared \cup dropped /\ ~Holds(o)
                        /\ \A p \in Prompts : o \notin Range(run[p].todo) \cup Range(run[p].polled)}
<1>1. unsent # {} /\ m = NextCall(unsent)
  BY DEF Unsent
<1>2. m \in unsent
  <2> HIDE DEF unsent
  <2> QED BY <1>1 DEF NextCall
<1>3. \A p \in Prompts : m \notin Carried(run[p])
  BY <1>2 DEF Carried
<1>4. m \notin Written
  BY <1>2 DEF Holds, Written
<1> QED BY <1>2, <1>3, <1>4 DEF Somewhere, Queued, Gone

\* A queue grows.
LEMMA HandedOver ==
    ASSUME Types, PlaceInv, NEW m \in Messages \ Prompts, m \notin Somewhere, SequencesOnce',
           UNCHANGED <<session, run, marks>>, Queued' = Queued \cup {m}
    PROVE  Shifts({m})
<1>1. Gone' = Gone /\ Written' = Written
  BY DEF session, marks, Gone, Written
<1>2. m \notin Queued \cup Gone \cup Written
  BY DEF Somewhere
<1> QED BY <1>1, <1>2 DEF Shifts, PlaceInv, Apart

LEMMA QueueingShifts ==
    ASSUME Types, PlaceInv, Steer \/ FollowUp \/ NextTurn
    PROVE  \E m \in Messages : Shifts({m})
<1>1. /\ Steers \in SUBSET Messages /\ FollowUps \in SUBSET Messages /\ NextTurns \in SUBSET Messages
      /\ Prompts \cap (Steers \cup FollowUps \cup NextTurns) = {}
  BY MessagesAreEntries, EntriesAssumption
<1>2. /\ steerQueue \in Seq(Steers) /\ followUpQueue \in Seq(FollowUps)
      /\ nextTurnQueue \in Seq(NextTurns) /\ SequencesOnce
  BY DEF Types, QueueTypes, PlaceInv
<1>3. CASE Steer
  <2>1. PICK m \in Unsent(Steers) : steerQueue' = Append(steerQueue, m)
    BY <1>3 DEF Steer
  <2>2. m \in Steers /\ m \notin Somewhere
    BY <1>1, UnsentIs
  <2>3. m \notin Range(steerQueue)
    BY <2>2 DEF Somewhere, Queued
  <2>4. Once(steerQueue') /\ Range(steerQueue') = Range(steerQueue) \cup {m}
    BY <1>2, <2>1, <2>2, <2>3, OnceAppended DEF SequencesOnce
  <2>5. UNCHANGED <<session, run, marks, followUpQueue, nextTurnQueue>>
    BY <1>3 DEF Steer
  <2>6. SequencesOnce' /\ Queued' = Queued \cup {m}
    BY <1>2, <2>4, <2>5 DEF SequencesOnce, Queued, session
  <2>7. m \in Messages \ Prompts
    BY <1>1, <2>2
  <2> QED BY <2>2, <2>5, <2>6, <2>7, HandedOver
<1>4. CASE FollowUp
  <2>1. PICK m \in Unsent(FollowUps) : followUpQueue' = Append(followUpQueue, m)
    BY <1>4 DEF FollowUp
  <2>2. m \in FollowUps /\ m \notin Somewhere
    BY <1>1, UnsentIs
  <2>3. m \notin Range(followUpQueue)
    BY <2>2 DEF Somewhere, Queued
  <2>4. Once(followUpQueue') /\ Range(followUpQueue') = Range(followUpQueue) \cup {m}
    BY <1>2, <2>1, <2>2, <2>3, OnceAppended DEF SequencesOnce
  <2>5. UNCHANGED <<session, run, marks, steerQueue, nextTurnQueue>>
    BY <1>4 DEF FollowUp
  <2>6. SequencesOnce' /\ Queued' = Queued \cup {m}
    BY <1>2, <2>4, <2>5 DEF SequencesOnce, Queued, session
  <2>7. m \in Messages \ Prompts
    BY <1>1, <2>2
  <2> QED BY <2>2, <2>5, <2>6, <2>7, HandedOver
<1>5. CASE NextTurn
  <2>1. PICK m \in Unsent(NextTurns) : nextTurnQueue' = Append(nextTurnQueue, m)
    BY <1>5 DEF NextTurn
  <2>2. m \in NextTurns /\ m \notin Somewhere
    BY <1>1, UnsentIs
  <2>3. m \notin Range(nextTurnQueue)
    BY <2>2 DEF Somewhere, Queued
  <2>4. Once(nextTurnQueue') /\ Range(nextTurnQueue') = Range(nextTurnQueue) \cup {m}
    BY <1>2, <2>1, <2>2, <2>3, OnceAppended DEF SequencesOnce
  <2>5. UNCHANGED <<session, run, marks, steerQueue, followUpQueue>>
    BY <1>5 DEF NextTurn
  <2>6. SequencesOnce' /\ Queued' = Queued \cup {m}
    BY <1>2, <2>4, <2>5 DEF SequencesOnce, Queued, session
  <2>7. m \in Messages \ Prompts
    BY <1>1, <2>2
  <2> QED BY <2>2, <2>5, <2>6, <2>7, HandedOver
<1> QED BY <1>3, <1>4, <1>5

\* The session gets an entry that is no message, or none.
LEMMA OtherCommitted ==
    ASSUME Types, PlaceInv, UNCHANGED <<queues, run, marks>>,
           \/ UNCHANGED tree
           \/ \E what \in Entries \ Messages, parent \in 0..Len(tree) : Commit(what, parent)
    PROVE  Shifts({})
<1>1. Written' = Written /\ SequencesOnce'
  <2>1. CASE UNCHANGED tree
    BY <2>1 DEF PlaceInv, SequencesOnce, queues, Written
  <2>2. ASSUME NEW what \in Entries \ Messages, NEW parent \in 0..Len(tree), Commit(what, parent)
        PROVE  Written' = Written /\ SequencesOnce'
    <3>1. what \notin Written /\ SequencesOnce
      BY DEF Written, PlaceInv
    <3>2. /\ Written' = Written \cup ({what} \cap Messages)
          /\ \A i, j \in DOMAIN tree' :
                tree'[i].what = tree'[j].what /\ tree'[i].what \in Messages => i = j
      BY <2>2, <3>1, MessageCommitted
    <3> QED BY <3>1, <3>2 DEF SequencesOnce, queues
  <2> QED BY <2>1, <2>2
<1>2. Queued' = Queued /\ Gone' = Gone
  BY DEF queues, marks, Queued, Gone
<1> QED BY <1>1, <1>2 DEF Shifts, PlaceInv, Apart

LEMMA CallShifts ==
    ASSUME Types, PlaceInv,
           \/ \E w \in Writes : AppendMessage(w) \/ AppendedDirectly(w)
           \/ \E op \in Operations : StructuralCall(op)
           \/ StructuralReturn \/ AbortWaits \/ AbortReturns \/ UNCHANGED vars
    PROVE  Shifts({})
<1>1. UNCHANGED <<queues, run, marks>>
  BY DEF AppendMessage, AppendedDirectly, StructuralCall, StructuralReturn, AbortWaits, AbortReturns,
         vars, queues, marks
<1>2. CASE \/ \E w \in Writes : AppendMessage(w)
           \/ \E op \in Operations : StructuralCall(op)
           \/ AbortWaits \/ AbortReturns \/ UNCHANGED vars
  <2>1. UNCHANGED tree
    BY <1>2 DEF AppendMessage, StructuralCall, AbortWaits, AbortReturns, vars, session
  <2> QED BY <1>1, <2>1, OtherCommitted
<1>3. ASSUME NEW w \in Writes, AppendedDirectly(w)
      PROVE  Shifts({})
  <2>1. w \in Entries \ Messages /\ writer[w].parent \in 0..Len(tree)
    BY WritesApart, MessagesAreEntries DEF Types, CallTypes
  <2>2. Commit(w, writer[w].parent)
    BY <1>3 DEF AppendedDirectly
  <2> QED BY <1>1, <2>1, <2>2, OtherCommitted
<1>4. CASE StructuralReturn
  <2>1. operation \in Entries \ Messages
    BY <1>4, MessagesAreEntries, EntriesAssumption DEF Types, CallTypes, StructuralReturn
  <2>2. leaf \in 0..Len(tree)
    BY DEF Types, SessionTypes
  <2>3. \/ operation = "compact" /\ Commit("compact", leaf)
        \/ operation = "navigate" /\ \E i \in 0..Len(tree) : Commit("navigate", i)
        \/ UNCHANGED tree
    BY <1>4 DEF StructuralReturn, session
  <2> QED BY <1>1, <2>1, <2>2, <2>3, OtherCommitted
<1> QED BY <1>2, <1>3, <1>4

\* abort() clears two of the queues.
LEMMA AbortShifts ==
    ASSUME Types, PlaceInv, Abort
    PROVE  Shifts({})
<1>1. /\ cleared' = cleared \cup Range(steerQueue) \cup Range(followUpQueue)
      /\ steerQueue' = <<>> /\ followUpQueue' = <<>>
      /\ UNCHANGED <<session, nextTurnQueue, dropped>>
  BY DEF Abort
<1>2. /\ Queued' = Range(nextTurnQueue) /\ Written' = Written
      /\ Gone' = Gone \cup Range(steerQueue) \cup Range(followUpQueue)
  BY <1>1, OnceEmpty DEF Queued, Gone, Written, session
<1>3. SequencesOnce'
  BY <1>1, OnceEmpty DEF PlaceInv, SequencesOnce, session
<1>4. Range(nextTurnQueue) \cap (Range(steerQueue) \cup Range(followUpQueue)) = {}
  BY QueuesApart
<1>5. ASSUME NEW q \in Prompts
      PROVE  /\ Holding(run'[q]) /\ Carried(run'[q]) = Carried(run[q])
             /\ Early(run'[q]) => Early(run[q])
  <2>1. run[q] \in RunRecord /\ Holding(run[q])
    BY DEF Types, RunTypes, PlaceInv
  <2>2. run'[q] = [run[q] EXCEPT !.aborted = TRUE] \/ run'[q] = run[q]
    BY DEF Abort
  <2>3. /\ run'[q].pc = run[q].pc /\ run'[q].then = run[q].then
        /\ run'[q].todo = run[q].todo /\ run'[q].polled = run[q].polled
    BY <2>1, <2>2 DEF RunRecord
  <2>4. Carried(run'[q]) = Carried(run[q])
    BY <2>3 DEF Carried
  <2> QED BY <2>1, <2>3, <2>4 DEF Holding, Early
<1>6. Queued = Range(steerQueue) \cup Range(followUpQueue) \cup Range(nextTurnQueue)
  BY DEF Queued
<1> QED BY <1>2, <1>3, <1>4, <1>5, <1>6 DEF Shifts, PlaceInv, Apart

LEMMA PlaceStep ==
    ASSUME Types, PlaceInv, [Next]_vars
    PROVE  PlaceInv' /\ Somewhere \subseteq Somewhere'
<1>1. CASE \E p \in Prompts : Prompt(p) \/ RunStep(p)
  BY <1>1, RunMoves
<1>2. CASE Steer \/ FollowUp \/ NextTurn
  BY <1>2, QueueingShifts, ShiftsKeeps
<1>3. CASE Abort
  BY <1>3, AbortShifts, ShiftsKeeps
<1>4. CASE \/ \E w \in Writes : AppendMessage(w) \/ AppendedDirectly(w)
           \/ \E op \in Operations : StructuralCall(op)
           \/ StructuralReturn \/ AbortWaits \/ AbortReturns \/ UNCHANGED vars
  BY <1>4, CallShifts, ShiftsKeeps
<1> QED BY <1>1, <1>2, <1>3, <1>4 DEF Next, CallStep

LEMMA PlaceInit == Init => PlaceInv
<1> SUFFICES ASSUME Init PROVE PlaceInv
  OBVIOUS
<1>1. /\ tree = <<>> /\ steerQueue = <<>> /\ followUpQueue = <<>> /\ nextTurnQueue = <<>>
      /\ cleared = {} /\ dropped = {}
  BY DEF Init
<1>2. \A p \in Prompts : run[p] = Idle
  BY DEF Init
<1>3. Idle.pc = "off" /\ Idle.todo = <<>> /\ Idle.polled = <<>>
  BY DEF Idle
<1>4. \A p \in Prompts : Holding(run[p]) /\ Carried(run[p]) = {}
  BY <1>2, <1>3, OnceEmpty DEF Holding, Carried
<1>5. Queued = {} /\ Gone = {} /\ Written = {} /\ SequencesOnce
  BY <1>1, OnceEmpty DEF Queued, Gone, Written, SequencesOnce
<1>6. Somewhere = {}
  BY <1>4, <1>5 DEF Somewhere
<1> QED BY <1>4, <1>5, <1>6 DEF PlaceInv, Apart

-----------------------------------------------------------------------------
(* The copies of a message.                                                *)

\* A set all of whose elements are the same has one or none.
LEMMA OneOrNone ==
    ASSUME NEW T, \A i, j \in T : i = j
    PROVE  Cardinality(T) = IF T = {} THEN 0 ELSE 1
<1>1. CASE T = {}
  BY <1>1, FS_EmptySet
<1>2. CASE T # {}
  <2>1. PICK i \in T : TRUE
    BY <1>2
  <2>2. T = {i}
    BY <2>1
  <2> QED BY <1>2, <2>2, FS_Singleton
<1> QED BY <1>1, <1>2

LEMMA OneCopy ==
    ASSUME NEW s, Once(s), NEW m \in Messages
    PROVE  Cardinality({i \in DOMAIN s : s[i] = m}) = IF m \in Range(s) THEN 1 ELSE 0
<1> DEFINE T == {i \in DOMAIN s : s[i] = m}
<1>1. \A i, j \in T : i = j
  BY DEF Once
<1>2. T = {} <=> m \notin Range(s)
  BY DEF Range
<1> HIDE DEF T
<1>3. Cardinality(T) = IF T = {} THEN 0 ELSE 1
  BY <1>1, OneOrNone
<1> QED BY <1>2, <1>3 DEF T

OneCopyEach == \A m \in Messages : Copies(m) = IF m \in Somewhere THEN 1 ELSE 0

LEMMA CopiesAre ==
    ASSUME Types, PlaceInv
    PROVE  OneCopyEach
<1> SUFFICES ASSUME NEW m \in Messages
             PROVE  Copies(m) = IF m \in Somewhere THEN 1 ELSE 0
  BY DEF OneCopyEach
<1> DEFINE times(s) == Cardinality({i \in DOMAIN s : s[i] = m})
           inTree == Cardinality({i \in DOMAIN tree : tree[i].what = m})
           inRuns == Cardinality({p \in Prompts : m \in Carried(run[p])})
           given == IF m \in cleared \cup dropped THEN 1 ELSE 0
<1>1. /\ times(steerQueue) = IF m \in Range(steerQueue) THEN 1 ELSE 0
      /\ times(followUpQueue) = IF m \in Range(followUpQueue) THEN 1 ELSE 0
      /\ times(nextTurnQueue) = IF m \in Range(nextTurnQueue) THEN 1 ELSE 0
  BY OneCopy DEF PlaceInv, SequencesOnce
<1>2. inTree = IF m \in Written THEN 1 ELSE 0
  <2> DEFINE T == {i \in DOMAIN tree : tree[i].what = m}
  <2>1. \A i, j \in T : i = j
    BY DEF PlaceInv, SequencesOnce
  <2>2. T = {} <=> m \notin Written
    BY DEF Written
  <2> HIDE DEF T
  <2>3. Cardinality(T) = IF T = {} THEN 0 ELSE 1
    BY <2>1, OneOrNone
  <2> QED BY <2>2, <2>3 DEF T
<1>3. inRuns = IF \E p \in Prompts : m \in Carried(run[p]) THEN 1 ELSE 0
  <2> DEFINE T == {p \in Prompts : m \in Carried(run[p])}
  <2>1. \A p, q \in T : p = q
    BY DEF PlaceInv
  <2>2. T = {} <=> ~ \E p \in Prompts : m \in Carried(run[p])
    OBVIOUS
  <2> HIDE DEF T
  <2>3. Cardinality(T) = IF T = {} THEN 0 ELSE 1
    BY <2>1, OneOrNone
  <2> QED BY <2>2, <2>3 DEF T
<1>4. Copies(m) = times(steerQueue) + times(followUpQueue) + times(nextTurnQueue) + inTree + given
                  + inRuns
  BY DEF Copies
<1> HIDE DEF times, inTree, inRuns
<1>5. /\ m \in Range(steerQueue) => m \notin Range(followUpQueue) \cup Range(nextTurnQueue)
      /\ m \in Range(followUpQueue) => m \notin Range(nextTurnQueue)
  BY QueuesApart
<1>6. /\ m \in Queued => m \notin Gone \cup Written
      /\ m \in Gone => m \notin Written
      /\ (\E p \in Prompts : m \in Carried(run[p])) => m \notin Queued \cup Gone \cup Written
  BY DEF PlaceInv, Apart
<1>7. m \in Somewhere <=> \/ m \in Queued \cup Gone \cup Written
                          \/ \E p \in Prompts : m \in Carried(run[p])
  BY DEF Somewhere
<1>8. /\ m \in Queued <=> \/ m \in Range(steerQueue) \/ m \in Range(followUpQueue)
                          \/ m \in Range(nextTurnQueue)
      /\ m \in Gone <=> m \in cleared \cup dropped
  BY DEF Queued, Gone
<1> QED BY <1>1, <1>2, <1>3, <1>4, <1>5, <1>6, <1>7, <1>8

\* Whatever is queued, drained, put back, cleared, carried, given up or written, by however
\* many calls at once: a message is in one place at most, and one that is somewhere never
\* vanishes.
THEOREM HarnessHasOnePlace == Spec => OnePlace
<1>1. Types /\ PlaceInv /\ [Next]_vars => PlaceInv'
  BY PlaceStep
<1>2. Types /\ PlaceInv => OneCopyEach
  BY CopiesAre
<1>3. Types /\ PlaceInv /\ OneCopyEach /\ OneCopyEach' /\ [Next]_vars
      => [\A m \in Messages : /\ Copies(m)' <= 1
                              /\ m \in Steers \cup FollowUps \cup NextTurns => Copies(m)' >= Copies(m)]_vars
  <2> SUFFICES ASSUME Types, PlaceInv, OneCopyEach, OneCopyEach', [Next]_vars, NEW m \in Messages
               PROVE  Copies(m)' <= 1 /\ Copies(m)' >= Copies(m)
    OBVIOUS
  <2>1. Copies(m) = IF m \in Somewhere THEN 1 ELSE 0
    BY DEF OneCopyEach
  <2>2. Copies(m)' = IF m \in Somewhere' THEN 1 ELSE 0
    BY DEF OneCopyEach
  <2>3. Somewhere \subseteq Somewhere'
    BY PlaceStep
  <2> QED BY <2>1, <2>2, <2>3
<1> QED BY <1>1, <1>2, <1>3, PlaceInit, Typed, PTL DEF Spec, OnePlace

=============================================================================
