------------------------------ MODULE MCParts ------------------------------
(***************************************************************************)
(* Six parts of the system that share no state, for one run of TLC: the    *)
(* initial state chooses a part, and only the chosen part takes steps, so  *)
(* the state space is the union of theirs and not their product.           *)
(* FileMutation is extended, the other parts are instances, with the       *)
(* variables renamed that two parts call alike.                            *)
(***************************************************************************)
EXTENDS FileMutation

\* Calls name a file, the same by its alias, and one that does not exist.
MCRequests == {[tool |-> "edit", path |-> "file"], [tool |-> "edit", path |-> "alias"],
               [tool |-> "write", path |-> "alias"], [tool |-> "write", path |-> "other"]}

CONSTANTS
    Readers, MaxDeltas, Forwarder, Nothing,     \* EventStream
    Chain, CoreFamily, Picks,                   \* ModelFallback
    Procs, MaxIssued, Torn,                     \* AuthStorage and SettingsManager
    Waiters, MaxRequests, MaxProcesses, MaxEnds,    \* RpcClient
    Fields, MaxSets, MaxFailures    \* SettingsManager

\* Three models in a row; one more belongs to the family of the chain.
MCChain == <<"potassium", "lightning", "sol">>
MCCoreFamily == {"potassium", "lightning", "mini"}

VARIABLES
    part,
    stream, reader, loading, log,
    model, record, due, run, handler, pick, lost,
    authDisk, lock, compromised, data, authLoadError, authPc, authSeen,
    valid, issued, expired, trouble, refused, unsaved,
    process, started, alive, failed, exitError, stopping, reading, stdout, requests,
    pendingRequests, listeners, ends,
    disk, settings, modified, loadError, writeQueue, trusted, sets, failures, cleared, owed

Streams == INSTANCE EventStream
Fallback == INSTANCE ModelFallback
Auth == INSTANCE AuthStorage WITH
    disk <- authDisk, loadError <- authLoadError, pc <- authPc, seen <- authSeen
Rpc == INSTANCE RpcClient
Settings == INSTANCE SettingsManager

-----------------------------------------------------------------------------
(* What the proofs assume of the constants.                                *)

\* The forwarder is no reader of its own stream; there is a bound on the events.
ASSUME StreamAssumption ==
    /\ MaxDeltas \in Nat /\ Nothing \notin 0..MaxDeltas
    /\ Forwarder \notin Readers

\* FALLBACK_CHAIN (model-fallback.ts) names at least one model.
ASSUME ChainAssumption ==
    /\ Chain \in Seq(Fallback!Models) /\ Chain # <<>>
    /\ None \notin Fallback!Models \cup Fallback!Records
    /\ None \notin [appends : Fallback!Records, then : BOOLEAN]

\* Processes and requests are counted.
ASSUME RpcAssumption == MaxProcesses \in Nat /\ MaxRequests \in Nat

\* A process is not a state of the lock, a token is not "none", a torn file has
\* no contents.
ASSUME AuthAssumption ==
    /\ MaxIssued \in Nat \ {0} /\ None \notin Auth!Tokens /\ None # "set"
    /\ None \notin Procs /\ "dead" \notin Procs /\ None # "dead"
    /\ Torn \notin Auth!Contents

-----------------------------------------------------------------------------
PartsInit ==
    /\ part \in {"files", "streams", "fallback", "auth", "rpc", "settings"}
    /\ Init /\ Streams!Init /\ Auth!Init /\ Rpc!Init /\ Settings!Init
    /\ Fallback!Init /\ (part # "fallback" => pick = CHOOSE m \in Picks : TRUE)

streamVars == <<stream, reader, loading, log>>
fallbackVars == <<model, record, due, run, handler, pick, lost>>
authVars == <<authDisk, lock, compromised, data, authLoadError, authPc, authSeen,
              valid, issued, expired, trouble, refused, unsaved>>
rpcVars == <<process, started, alive, failed, exitError, stopping, reading, stdout,
             requests, pendingRequests, listeners, ends>>
settingsVars == <<disk, settings, modified, loadError, writeQueue, trusted, sets, failures,
                  cleared, owed>>
partsVars == <<part, vars, streamVars, fallbackVars, authVars, rpcVars, settingsVars>>

PartsNext ==
    \/ /\ part = "files" /\ Next
       /\ UNCHANGED <<part, streamVars, fallbackVars, authVars, rpcVars, settingsVars>>
    \/ /\ part = "streams" /\ Streams!Next
       /\ UNCHANGED <<part, vars, fallbackVars, authVars, rpcVars, settingsVars>>
    \/ /\ part = "fallback" /\ Fallback!Next
       /\ UNCHANGED <<part, vars, streamVars, authVars, rpcVars, settingsVars>>
    \/ /\ part = "auth" /\ Auth!Next
       /\ UNCHANGED <<part, vars, streamVars, fallbackVars, rpcVars, settingsVars>>
    \/ /\ part = "rpc" /\ Rpc!Next
       /\ UNCHANGED <<part, vars, streamVars, fallbackVars, authVars, settingsVars>>
    \/ /\ part = "settings" /\ Settings!Next
       /\ UNCHANGED <<part, vars, streamVars, fallbackVars, authVars, rpcVars>>

\* The fairness of the two parts with liveness. A part that is not chosen stays in
\* its initial state, where no fair action is enabled but the readers' of a stream.
PartsFairness ==
    /\ Fairness
    \* Promise callbacks run; nothing promises that a provider ends its stream.
    /\ \A i \in Streams!Iterations :
          WF_streamVars(part = "streams" /\
                          (Streams!Iterate(i) \/ Streams!Resume(i) \/ Streams!Read(i)))
    /\ WF_streamVars(Streams!Forward \/ Streams!ForwardEnd)
    /\ WF_streamVars(Streams!FailureEnds)

PartsSpec == PartsInit /\ [][PartsNext]_partsVars /\ PartsFairness

-----------------------------------------------------------------------------
(* The properties of the instances, stated in their modules.               *)

\* The types of the variables of every part.
TypesOK ==
    /\ TypeOK /\ Streams!TypeOK /\ Fallback!TypeOK /\ Auth!TypeOK /\ Rpc!TypeOK /\ Settings!TypeOK

\* Both streams together are one channel, in order and without loss (event-stream.ts,
\* register-builtins.ts).
ImplementsChannel == Streams!ImplementsChannel

\* withFileMutationQueue() settles (file-mutation-queue.ts), and no reader of a
\* stream that has ended waits for ever (event-stream.ts).
WaitsEnd == CallsSettle /\ Streams!ReadersReturn

\* The user's choice of a model is used, or will be restored, but for the cases
\* that the extension does not guard against (model-fallback.ts).
PickSurvives == Fallback!PickSurvives

\* Concurrent refreshes of a login leave one that works (auth-storage.ts).
RefreshedOnce == Auth!RefreshedOnce

\* A write changes only what its process has set, and only where it may
\* (auth-storage.ts, settings-manager.ts).
OthersAreKept == Auth!OneProviderAtATime /\ Settings!OthersAreKept

\* A changed field stays queued or marked until it is written (settings-manager.ts).
ChangesStayMarked == Settings!ChangesStayMarked

\* Requests are settled by their own process (rpc-client.ts).
RequestsOfOwnProcess == Rpc!RequestsOfOwnProcess

=============================================================================
