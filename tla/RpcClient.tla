----------------------------- MODULE RpcClient ------------------------------
(***************************************************************************)
(* RpcClient (modes/rpc/rpc-client.ts): requests to an agent process over  *)
(* its stdin, correlated with the responses on its stdout by id, with a    *)
(* timer each; events on the same stdout for the listeners that wait for   *)
(* the end of a run.  The process may exit, be stopped and started again.  *)
(***************************************************************************)
EXTENDS Naturals, SequencesExt

CONSTANTS
    Waiters,        \* calls of waitForIdle() and collectEvents()
    MaxRequests, MaxProcesses, MaxEnds      \* bounds

End == 0            \* an agent_end line; a response line is the id of its request

Ids == 1..MaxRequests
Processes == 1..MaxProcesses

VARIABLES
    process,        \* the child process: its number, 0 for null
    started,        \* how many have been started
    alive,          \* those that run
    failed,         \* history: those that have exited or closed their stdin
    exitError,      \* whether it is set
    stopping,       \* stop() waits for the exit
    reading,        \* the process whose stdout is read
    stdout,         \* stdout[c]: the lines not yet read
    requests,       \* every send(): its process and its outcome
    pendingRequests,    \* the ids in the map
    listeners,      \* eventListeners: waiters
    ends            \* how many runs have ended

vars == <<process, started, alive, failed, exitError, stopping, reading, stdout, requests,
          pendingRequests, listeners, ends>>

procVars == <<process, started, alive, failed, stopping, reading>>

\* The requests of a set settle as the map's entries do: the timer is cleared.
Settled(ids, outcome) ==
    [i \in DOMAIN requests |-> IF i \in ids THEN [requests[i] EXCEPT !.outcome = outcome]
                                            ELSE requests[i]]

-----------------------------------------------------------------------------
Start ==
    /\ process = 0 /\ started < MaxProcesses
    /\ started' = started + 1 /\ process' = started' /\ reading' = started'
    /\ alive' = alive \cup {started'}
    /\ exitError' = FALSE
    /\ UNCHANGED <<failed, stopping, stdout, requests, pendingRequests, listeners, ends>>

\* stop(): nothing is read any more, the process gets SIGTERM.
Stop ==
    /\ process # 0 /\ ~stopping
    /\ stopping' = TRUE /\ reading' = 0
    /\ UNCHANGED <<process, started, alive, failed, exitError, stdout, requests, pendingRequests,
                   listeners, ends>>

\* The process has exited, or a second has passed and it gets SIGKILL: what is
\* in the map is dropped, not rejected.
StopEnds ==
    /\ stopping /\ stopping' = FALSE
    /\ process' = 0 /\ pendingRequests' = {}
    /\ UNCHANGED <<started, alive, failed, exitError, reading, stdout, requests, listeners, ends>>

\* Mutant: the exit of any process is taken for that of the current one.
FailsUnchecked(c) ==
    /\ failed' = failed \cup {c}
    /\ exitError' = TRUE /\ pendingRequests' = {}
    /\ requests' = Settled(pendingRequests, "rejected")
    /\ UNCHANGED <<process, started, stopping, reading, stdout, listeners, ends>>

\* The handlers of exit, error and of an error on stdin: each belongs to its process.
Fails(c) ==
    /\ failed' = failed \cup {c}
    /\ IF process = c
       THEN /\ exitError' = TRUE /\ pendingRequests' = {}
            /\ requests' = Settled(pendingRequests, "rejected")
       ELSE UNCHANGED <<exitError, requests, pendingRequests>>
    /\ UNCHANGED <<process, started, stopping, reading, stdout, listeners, ends>>

Exit(c) == c \in alive /\ alive' = alive \ {c} /\ Fails(c)

StdinFails(c) == c \in alive \ failed /\ Fails(c) /\ UNCHANGED alive

\* send(), unless it throws at once.
Send ==
    /\ process # 0 /\ ~exitError /\ Len(requests) < MaxRequests
    /\ requests' = Append(requests, [process |-> process, outcome |-> "none",
                                            answered |-> FALSE])
    /\ pendingRequests' = pendingRequests \cup {Len(requests')}
    /\ UNCHANGED <<procVars, exitError, stdout, listeners, ends>>

\* Thirty seconds have passed.
Timeout(i) ==
    /\ i \in DOMAIN requests /\ requests[i].outcome = "none"
    /\ requests' = Settled({i}, "timeout")
    /\ pendingRequests' = pendingRequests \ {i}
    /\ UNCHANGED <<procVars, exitError, stdout, listeners, ends>>

\* waitForIdle() and collectEvents() listen until the next end, or their own timeout.
Listen(w) ==
    /\ w \notin Range(listeners)
    /\ listeners' = Append(listeners, w)
    /\ UNCHANGED <<procVars, exitError, stdout, requests, pendingRequests, ends>>

Unlisten(w) ==
    /\ \E i \in DOMAIN listeners : listeners[i] = w /\ listeners' = RemoveAt(listeners, i)
    /\ UNCHANGED <<procVars, exitError, stdout, requests, pendingRequests, ends>>

\* Each listener that hears the end leaves the array the loop runs over, and
\* the one behind it moves to the place the loop has passed.
Skipped ==
    [n \in 1..(Len(listeners) \div 2) |-> listeners[2 * n]]

\* handleLine: a response whose id is in the map settles its request; any other
\* line is an event for the listeners.
ReadLine ==
    /\ reading # 0 /\ stdout[reading] # <<>>
    /\ LET line == Head(stdout[reading]) IN
       /\ stdout' = [stdout EXCEPT ![reading] = Tail(@)]
       /\ IF line \in pendingRequests
          THEN /\ requests' = Settled({line}, "response")
               /\ pendingRequests' = pendingRequests \ {line}
          ELSE UNCHANGED <<requests, pendingRequests>>
       /\ listeners' = IF line = End THEN Skipped ELSE listeners
    /\ UNCHANGED <<procVars, exitError, ends>>

\* The agent process: it answers what it was sent, in any order, and runs end.
Answer(c) ==
    /\ c \in alive
    /\ \E i \in DOMAIN requests :
          /\ requests[i].process = c /\ ~requests[i].answered
          /\ requests' = [requests EXCEPT ![i].answered = TRUE]
          /\ stdout' = [stdout EXCEPT ![c] = Append(@, i)]
    /\ UNCHANGED <<procVars, exitError, pendingRequests, listeners, ends>>

RunEnds(c) ==
    /\ c \in alive /\ ends < MaxEnds /\ ends' = ends + 1
    /\ stdout' = [stdout EXCEPT ![c] = Append(@, End)]
    /\ UNCHANGED <<procVars, exitError, requests, pendingRequests, listeners>>

Init ==
    /\ process = 0 /\ started = 0 /\ alive = {} /\ failed = {} /\ exitError = FALSE /\ stopping = FALSE
    /\ reading = 0 /\ stdout = [c \in Processes |-> <<>>]
    /\ requests = <<>> /\ pendingRequests = {} /\ listeners = <<>> /\ ends = 0

Next ==
    \/ Start \/ Stop \/ StopEnds \/ Send \/ ReadLine
    \/ \E c \in Processes : Exit(c) \/ StdinFails(c) \/ Answer(c) \/ RunEnds(c)
    \/ \E i \in Ids : Timeout(i)
    \/ \E w \in Waiters : Listen(w) \/ Unlisten(w)

Spec == Init /\ [][Next]_vars

-----------------------------------------------------------------------------
(* Properties.                                                             *)

\* The types of the variables.
TypeOK ==
    /\ {process, reading, started} \subseteq 0..MaxProcesses /\ alive \cup failed \subseteq Processes
    /\ {exitError, stopping} \subseteq BOOLEAN
    /\ \A c \in Processes : Range(stdout[c]) \subseteq Ids \cup {End}
    /\ requests \in Seq([process : Processes, answered : BOOLEAN,
                         outcome : {"none", "response", "rejected", "timeout"}])
    /\ pendingRequests \subseteq DOMAIN requests
    /\ Range(listeners) \subseteq Waiters

\* In whatever order stops, starts and late exits come: the map holds unanswered
\* requests to the process the client talks to, never one to a process that was
\* stopped before; and a request is rejected only when the process it was sent to
\* has exited or closed its stdin.
RequestsOfOwnProcess ==
    \A i \in DOMAIN requests :
        /\ i \in pendingRequests => requests[i].outcome = "none" /\ requests[i].process = process
        /\ requests[i].outcome = "rejected" => requests[i].process \in failed

\* rpc-client.ts says of waitForIdle(): "Resolves when agent_end event is
\* received".  It holds for one waiter and not for two: one of them is skipped.
WaitersHearTheEnd ==
    [][ends' = ends /\ (\E c \in Processes : stdout[c] # <<>> /\ Head(stdout[c]) = End
                                             /\ stdout'[c] = Tail(stdout[c]))
       => listeners' = <<>>]_vars

=============================================================================
