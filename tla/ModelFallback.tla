--------------------------- MODULE ModelFallback ----------------------------
(***************************************************************************)
(* The model-fallback extension (linc/extensions/model-fallback.ts): a     *)
(* request that fails moves the session to the next model of a chain and   *)
(* records the model it came from in the session; the next run after a     *)
(* time window restores that model, unless the user picked one meanwhile.  *)
(* A handler switches the model first (applyModel, which awaits the        *)
(* model_select handlers) and appends its record afterwards.               *)
(***************************************************************************)
EXTENDS Naturals, Sequences, Functions

CONSTANTS
    Chain,          \* getFallbackChain(): a sequence of distinct models
    CoreFamily,     \* the models isCoreFamilyModel() accepts
    Picks,          \* the models a user selects
    None

Models == Range(Chain) \cup CoreFamily \cup Picks

VARIABLES
    model,      \* the session's model
    record,     \* the last linc.model-fallback entry of the session
    due,        \* Date.now() >= record.restoreAt
    run,        \* an agent run is under way
    handler,    \* a handler inside applyModel and what it appends after it
    pick,       \* history: the model the user chose last
    lost        \* history: that choice met one of the three cases below

\* What the handlers do not guard against, each recorded in lost:
\*   RequestFails behind the window: the fallback becomes the original (the window
\*       may end while a run goes on, or the original could not be restored);
\*   Pick while a handler applies a fallback: its record follows the choice;
\*   Pick of the fallback model itself, or of the model the session is on: nothing
\*       tells the extension, and the original will replace it.

vars == <<model, record, due, run, handler, pick, lost>>

Busy == handler # None

Active == record # None /\ record.state = "active"

ActiveInWindow == Active /\ ~due

-----------------------------------------------------------------------------

\* getNextFallbackModelId
NextInChain(m) ==
    IF m \in Range(Chain)
    THEN LET i == CHOOSE i \in DOMAIN Chain : Chain[i] = m
         IN  IF i < Len(Chain) THEN Chain[i + 1] ELSE None
    ELSE IF m \in CoreFamily THEN Chain[1] ELSE None

\* Mutant: each hop starts from the model that failed.
OriginalCurrent == model

\* Where a fallback will return to.
Original == IF ActiveInWindow THEN record.original ELSE model

\* applyModel: the model is set, the handler awaits.
Apply(target, appends, then) ==
    /\ model' = target
    /\ handler' = [appends |-> appends, then |-> then]
    /\ UNCHANGED <<record, due, run, pick>>

\* Mutant: the end of the chain is not looked for.
RequestFailsAtEnd ==
    /\ run /\ ~Busy
    /\ LET next == NextInChain(model) IN
       /\ ~(ActiveInWindow /\ record.fallback = next)
       /\ Apply(next, [original |-> Original, fallback |-> next, state |-> "active"], TRUE)
    /\ lost' = (lost \/ (Active /\ due))

\* after_provider_response with a fallback status; a model that is not
\* registered or has no credentials leaves everything as it is.
RequestFails ==
    /\ run /\ ~Busy
    /\ LET next == NextInChain(model) IN
       /\ next # None
       /\ ~(ActiveInWindow /\ record.fallback = next)
       /\ Apply(next, [original |-> Original, fallback |-> next, state |-> "active"], TRUE)
    /\ lost' = (lost \/ (Active /\ due))

\* restoreIfDue finds nothing to do, or cannot switch: the original is not
\* registered any more, or has no credentials.
StartWithoutRestore ==
    /\ run' = TRUE
    /\ UNCHANGED <<model, record, due, handler, pick, lost>>

\* restoreIfDue, then a run (before_agent_start) or none (session_start).
Restore(starts) ==
    /\ ~run /\ ~Busy /\ Active /\ due
    /\ IF model = record.original
       THEN /\ record' = [record EXCEPT !.state = "restored"]
            /\ run' = starts
            /\ UNCHANGED <<model, due, handler, pick>>
       ELSE Apply(record.original, [record EXCEPT !.state = "restored"], starts)
    /\ UNCHANGED lost

BeginRun ==
    /\ ~run /\ ~Busy
    /\ Restore(TRUE) \/ StartWithoutRestore

SessionStart == Restore(FALSE)

\* applyModel returns; the handler appends its record.
Applied ==
    /\ Busy
    /\ record' = handler.appends
    /\ due' = IF handler.appends.state = "active" THEN FALSE ELSE due
    /\ run' = handler.then
    /\ handler' = None
    /\ UNCHANGED <<model, pick, lost>>

EndRun ==
    /\ run /\ ~Busy
    /\ run' = FALSE
    /\ UNCHANGED <<model, record, due, handler, pick, lost>>

\* A selection that model_select reports and an active record does not name.
Heard(m) == ~Busy /\ m # model /\ m # record.fallback

\* The user's setModel or cycleModel and its model_select: not heard while a
\* handler applies a model of its own, nor for the model the session has.
Pick(m) ==
    /\ model' = m /\ pick' = m
    /\ record' = IF Active /\ Heard(m) THEN [record EXCEPT !.state = "cancelled"] ELSE record
    /\ lost' = IF Busy THEN handler.appends.state = "active" ELSE Active /\ ~Heard(m)
    /\ UNCHANGED <<due, run, handler>>

WindowEnds ==
    /\ Active /\ ~due
    /\ due' = TRUE
    /\ UNCHANGED <<model, record, run, handler, pick, lost>>

Init ==
    /\ pick \in Picks /\ model = pick
    /\ record = None /\ due = FALSE /\ run = FALSE /\ handler = None /\ lost = FALSE

Next ==
    \/ RequestFails \/ BeginRun \/ SessionStart \/ Applied \/ EndRun
    \/ \E m \in Picks : Pick(m)
    \/ WindowEnds

Spec == Init /\ [][Next]_vars

-----------------------------------------------------------------------------
(* Properties.                                                             *)

Records == [original : Models, fallback : Models, state : {"active", "restored", "cancelled"}]

\* The types of the variables.
TypeOK ==
    /\ model \in Models /\ pick \in Models
    /\ record \in Records \cup {None}
    /\ due \in BOOLEAN /\ run \in BOOLEAN /\ lost \in BOOLEAN
    /\ handler \in [appends : Records, then : BOOLEAN] \cup {None}

\* However many hops a fallback has made, and whenever its window ends or the user
\* selects a model meanwhile: between handlers the session runs on the model the
\* user picked, or on the fallback the record names, and the model it will restore
\* is that pick.  The three cases that lose a pick lose it only until the user's
\* next selection that is heard, or is made during a restore.
PickSurvives ==
    ~Busy /\ ~lost =>
        IF Active THEN record.original = pick /\ model = record.fallback ELSE model = pick

=============================================================================
