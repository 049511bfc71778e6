---------------------------- MODULE FileMutation ----------------------------
(***************************************************************************)
(* withFileMutationQueue (core/tools/file-mutation-queue.ts) and the edit  *)
(* and write tools that run under it.  A call first waits for its turn to  *)
(* register, finds the key of its path, enters itself as the tail of that  *)
(* key and runs when the tail it found has settled.  A file is missing or  *)
(* the sequence of the calls whose text is in it; "alias" is a symbolic    *)
(* link to "file".                                                         *)
(***************************************************************************)
EXTENDS Naturals, Sequences

CONSTANTS
    Calls,              \* tool calls
    Requests,           \* the tools and paths they may name
    MissingAtStart,     \* the files that do not exist at first
    None

Paths == {"file", "alias", "other"}

Files == {"file", "other"}

FileOf(path) == IF path = "other" THEN "other" ELSE "file"

AllRequests == [tool : {"edit", "write"}, path : Paths]

ASSUME FileMutationAssumption ==
    Requests \subseteq AllRequests /\ None \notin Calls \cup Paths

Missing == <<None>>     \* no file; no content holds None

VARIABLES
    pc,         \* where a call stands
    args,       \* its tool and its path
    ticket,     \* when it was called: the order of the calls
    calls,      \* how many have been made
    key,        \* the key of its path
    waits,      \* the tail it found: what currentQueue stands for
    tail,       \* fileMutationQueues
    seen,       \* the content an edit has read
    content     \* the files

vars == <<pc, args, ticket, calls, key, waits, tail, seen, content>>

Inside == {"running", "read", "written"}

-----------------------------------------------------------------------------
\* Mutant: links are not followed.
RealPathUnresolved(path) == path

\* getMutationQueueKey(): a path that leads nowhere is its own key.
RealPath(path) == IF content[FileOf(path)] = Missing THEN path ELSE FileOf(path)

Call(c) ==
    /\ pc[c] = "idle"
    /\ \E request \in Requests : args' = [args EXCEPT ![c] = request]
    /\ calls' = calls + 1
    /\ ticket' = [ticket EXCEPT ![c] = calls']
    /\ pc' = [pc EXCEPT ![c] = "called"]
    /\ UNCHANGED <<key, waits, tail, seen, content>>

\* registrationQueue: every call before c has registered, or failed to.
Turn(c) ==
    /\ pc[c] = "called"
    /\ \A d \in Calls : pc[d] \in {"called", "resolved"} => ticket[c] <= ticket[d]

Resolve(c) ==
    /\ Turn(c)
    /\ key' = [key EXCEPT ![c] = RealPath(args[c].path)]
    /\ pc' = [pc EXCEPT ![c] = "resolved"]
    /\ UNCHANGED <<args, ticket, calls, waits, tail, seen, content>>

\* realpath fails for another reason: the call is rejected, the next one registers.
ResolveFails(c) ==
    /\ Turn(c)
    /\ pc' = [pc EXCEPT ![c] = "settled"]
    /\ UNCHANGED <<args, ticket, calls, key, waits, tail, seen, content>>

Register(c) ==
    /\ pc[c] = "resolved"
    /\ waits' = [waits EXCEPT ![c] = tail[key[c]]]
    /\ tail' = [tail EXCEPT ![key[c]] = c]
    /\ pc' = [pc EXCEPT ![c] = "queued"]
    /\ UNCHANGED <<args, ticket, calls, key, seen, content>>

Start(c) ==
    /\ pc[c] = "queued"
    /\ waits[c] # None => pc[waits[c]] = "settled"
    /\ pc' = [pc EXCEPT ![c] = "running"]
    /\ UNCHANGED <<args, ticket, calls, key, waits, tail, seen, content>>

\* edit: access and readFile; write: mkdir.
Read(c) ==
    /\ pc[c] = "running"
    /\ args[c].tool = "edit" => content[FileOf(args[c].path)] # Missing
    /\ seen' = [seen EXCEPT ![c] = content[FileOf(args[c].path)]]
    /\ pc' = [pc EXCEPT ![c] = "read"]
    /\ UNCHANGED <<args, ticket, calls, key, waits, tail, content>>

WriteFile(c) ==
    /\ pc[c] = "read"
    /\ content' = [content EXCEPT ![FileOf(args[c].path)] =
                     IF args[c].tool = "edit" THEN Append(seen[c], c) ELSE <<c>>]
    /\ pc' = [pc EXCEPT ![c] = "written"]
    /\ UNCHANGED <<args, ticket, calls, key, waits, tail, seen>>

\* Mutant: the key is dropped with the first call that settles.
SettleForgets(c) ==
    /\ pc[c] \in Inside
    /\ pc' = [pc EXCEPT ![c] = "settled"]
    /\ tail' = [tail EXCEPT ![key[c]] = None]
    /\ UNCHANGED <<args, ticket, calls, key, waits, seen, content>>

\* Mutant: keys are never dropped.
SettleKeeps(c) ==
    /\ pc[c] \in Inside
    /\ pc' = [pc EXCEPT ![c] = "settled"]
    /\ UNCHANGED <<args, ticket, calls, key, waits, tail, seen, content>>

\* The finally block: the tool is done, or it has thrown: an abort seen behind
\* an await, a missing file, a text that does not match, a failed write.
Settle(c) ==
    /\ pc[c] \in Inside
    /\ pc' = [pc EXCEPT ![c] = "settled"]
    /\ tail' = [tail EXCEPT ![key[c]] = IF @ = c THEN None ELSE @]
    /\ UNCHANGED <<args, ticket, calls, key, waits, seen, content>>

Init ==
    /\ pc = [c \in Calls |-> "idle"]
    /\ args = [c \in Calls |-> [tool |-> "write", path |-> "file"]]
    /\ ticket = [c \in Calls |-> 0]
    /\ calls = 0
    /\ key = [c \in Calls |-> None]
    /\ waits = [c \in Calls |-> None]
    /\ tail = [p \in Paths |-> None]
    /\ seen = [c \in Calls |-> <<>>]
    /\ content = [f \in Files |-> IF f \in MissingAtStart THEN Missing ELSE <<>>]

Step(c) ==
    \/ Call(c) \/ Resolve(c) \/ ResolveFails(c) \/ Register(c)
    \/ Start(c) \/ Read(c) \/ WriteFile(c) \/ Settle(c)

Next == \E c \in Calls : Step(c)

Spec == Init /\ [][Next]_vars

\* File system calls return; a call waits for nothing else than its turn.
Fairness ==
    \A c \in Calls : /\ WF_vars(Resolve(c) \/ ResolveFails(c)) /\ WF_vars(Register(c))
                     /\ WF_vars(Start(c)) /\ WF_vars(Settle(c))

-----------------------------------------------------------------------------
(* Properties.                                                             *)

PCs == {"idle", "called", "resolved", "queued", "settled"} \cup Inside

\* The types of the variables.
TypeOK ==
    /\ pc \in [Calls -> PCs]
    /\ args \in [Calls -> AllRequests]
    /\ ticket \in [Calls -> Nat] /\ calls \in Nat
    /\ key \in [Calls -> Paths \cup {None}]
    /\ waits \in [Calls -> Calls \cup {None}]
    /\ tail \in [Paths -> Calls \cup {None}]
    /\ seen \in [Calls -> Seq(Calls \cup {None})]
    /\ content \in [Files -> Seq(Calls \cup {None})]

\* A call that has begun under a key finds every earlier call under that key
\* settled, also when one failed to register, threw, or dropped the key: mutual
\* exclusion, in the order in which the calls were made.
InCallOrder ==
    \A c, d \in Calls :
        /\ key[c] # None /\ key[c] = key[d] /\ ticket[c] < ticket[d]
        /\ pc[d] \in Inside
        => pc[c] = "settled"

\* No update is lost: what a call writes holds all the file held when it was
\* written, or is a whole new file, under whatever path the file was named.
NoLostUpdate ==
    [][\A f \in Files : content'[f] # content[f] =>
          \E c \in Calls : content'[f] \in {Append(content[f], c), <<c>>}]_vars

\* The map of queues does not outgrow the calls: a key in it has a call that
\* is not settled.
KeysAreDropped == \A p \in Paths : tail[p] # None => pc[tail[p]] # "settled"

\* Again and again no call is open: as a call is made once, every call is
\* answered, behind whatever calls that threw or could not register.
CallsSettle == []<>(\A c \in Calls : pc[c] \in {"idle", "settled"})

=============================================================================
