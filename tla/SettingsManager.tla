--------------------------- MODULE SettingsManager --------------------------
(***************************************************************************)
(* SettingsManager (core/settings-manager.ts): each process keeps a copy   *)
(* of the global and of the project settings, marks the fields it changes  *)
(* and queues a write of a snapshot; a write merges the marked fields into *)
(* the file as it is then and clears the marks.  A value is the process    *)
(* that set it.                                                            *)
(***************************************************************************)
EXTENDS Naturals, Sequences, Functions

CONSTANTS
    Procs, Fields, None,
    MaxSets,            \* bound on the changes
    MaxFailures         \* bound on the writes and loads that fail

Scopes == {"global", "project"}

Empty == [x \in Fields |-> None]

VARIABLES
    disk,       \* the files, by scope
    settings,   \* settings[p][s]: globalSettings and projectSettings
    modified,   \* modified[p][s]: the marked fields
    loadError,  \* loadError[p][s]
    writeQueue, \* writeQueue[p]: scope, snapshot and marked fields of each write
    trusted,    \* projectTrusted
    sets, failures,     \* counters for the bounds
    cleared,    \* history: marks were cleared while a write was queued
    owed        \* history: owed[p][s], the fields set, neither written nor given up:
                \* a reload, a change of trust, and a set under a load error give up,
                \* and so does a write that fails when its marks have been cleared

vars == <<disk, settings, modified, loadError, writeQueue, trusted, sets, failures, cleared, owed>>

-----------------------------------------------------------------------------
\* save(), saveProjectSettings(): memory changes at once, the write is queued
\* unless the file could not be loaded.
Set(p, s, x) ==
    /\ sets < MaxSets /\ sets' = sets + 1
    /\ s = "project" => trusted[p]
    /\ settings' = [settings EXCEPT ![p][s][x] = p]
    /\ modified' = [modified EXCEPT ![p][s] = @ \cup {x}]
    /\ owed' = IF loadError[p][s] THEN owed ELSE [owed EXCEPT ![p][s] = @ \cup {x}]
    /\ writeQueue' =
          IF loadError[p][s] THEN writeQueue
          ELSE [writeQueue EXCEPT ![p] =
                  Append(@, [scope |-> s, values |-> settings'[p][s], fields |-> modified'[p][s]])]
    /\ UNCHANGED <<disk, loadError, trusted, failures, cleared>>

\* Mutant: the whole snapshot is written.
MergedWhole(file, write) == write.values

\* persistScopedSettings: the marked fields over the file.
Merged(file, write) == [x \in Fields |-> IF x \in write.fields THEN write.values[x] ELSE file[x]]

\* assertProjectTrustedForWrite in the queue.
MayWrite(p, write) == write.scope = "project" => trusted[p]

Write(p) ==
    /\ writeQueue[p] # <<>>
    /\ LET write == Head(writeQueue[p]) IN
       /\ MayWrite(p, write)
       /\ disk' = [disk EXCEPT ![write.scope] = Merged(@, write)]
       /\ modified' = [modified EXCEPT ![p][write.scope] = {}]
       /\ owed' = [owed EXCEPT ![p][write.scope] = @ \ write.fields]
    /\ writeQueue' = [writeQueue EXCEPT ![p] = Tail(@)]
    /\ cleared' = [cleared EXCEPT ![p] = writeQueue'[p] # <<>>]
    /\ UNCHANGED <<settings, loadError, trusted, sets, failures>>

\* What is still owed when the head of the queue fails: a success while it was
\* queued has cleared the marks of its scope, and only those set since then stand.
GivenUp(p) ==
    LET write == Head(writeQueue[p]) IN
    IF cleared[p]
    THEN [owed[p] EXCEPT ![write.scope] = @ \ (write.fields \ modified[p][write.scope])]
    ELSE owed[p]

\* Mutant: the marks are cleared whether the write succeeds or not.
WriteFailsClearing(p) ==
    /\ writeQueue[p] # <<>>
    /\ failures < MaxFailures /\ failures' = failures + 1
    /\ writeQueue' = [writeQueue EXCEPT ![p] = Tail(@)]
    /\ modified' = [modified EXCEPT ![p][Head(writeQueue[p]).scope] = {}]
    /\ owed' = [owed EXCEPT ![p] = GivenUp(p)]
    /\ cleared' = [cleared EXCEPT ![p] = @ /\ writeQueue'[p] # <<>>]
    /\ UNCHANGED <<disk, settings, loadError, trusted, sets>>

\* The lock or the file cannot be had: the error is recorded, the marks stay.
WriteFails(p) ==
    /\ writeQueue[p] # <<>>
    /\ failures < MaxFailures /\ failures' = failures + 1
    /\ writeQueue' = [writeQueue EXCEPT ![p] = Tail(@)]
    /\ owed' = [owed EXCEPT ![p] = GivenUp(p)]
    /\ cleared' = [cleared EXCEPT ![p] = @ /\ writeQueue'[p] # <<>>]
    /\ UNCHANGED <<disk, settings, modified, loadError, trusted, sets>>

\* The project is no longer trusted.
WriteRefused(p) ==
    /\ writeQueue[p] # <<>> /\ ~MayWrite(p, Head(writeQueue[p]))
    /\ writeQueue' = [writeQueue EXCEPT ![p] = Tail(@)]
    /\ cleared' = [cleared EXCEPT ![p] = @ /\ writeQueue'[p] # <<>>]
    /\ UNCHANGED <<disk, settings, modified, loadError, trusted, sets, failures, owed>>

\* loadFromStorage
Loaded(p, s) == IF s = "project" /\ ~trusted[p] THEN Empty ELSE disk[s]

\* reload(), behind the writes queued when it was called: later ones may wait. A
\* file that cannot be loaded keeps what was in memory. The marks are cleared.
Reload(p) ==
    /\ \E broken \in SUBSET Scopes :
          /\ "project" \in broken => trusted[p]
          /\ broken # {} => failures < MaxFailures
          /\ failures' = IF broken = {} THEN failures ELSE failures + 1
          /\ settings' = [settings EXCEPT ![p] =
                [s \in Scopes |-> IF s \in broken THEN @[s] ELSE Loaded(p, s)]]
          /\ loadError' = [loadError EXCEPT ![p] = [s \in Scopes |-> s \in broken]]
    /\ modified' = [modified EXCEPT ![p] = [s \in Scopes |-> {}]]
    /\ owed' = [owed EXCEPT ![p] = [s \in Scopes |-> {}]]
    /\ UNCHANGED <<disk, writeQueue, trusted, sets, cleared>>

\* setProjectTrusted: trust loads the file; one that cannot be loaded leaves nothing.
SetProjectTrusted(p) ==
    /\ trusted' = [trusted EXCEPT ![p] = ~@]
    /\ modified' = [modified EXCEPT ![p]["project"] = {}]
    /\ owed' = [owed EXCEPT ![p]["project"] = {}]
    /\ \E broken \in BOOLEAN :
          /\ broken => trusted'[p] /\ failures < MaxFailures
          /\ failures' = IF broken THEN failures + 1 ELSE failures
          /\ settings' = [settings EXCEPT ![p]["project"] =
                            IF broken \/ trusted[p] THEN Empty ELSE disk["project"]]
          /\ loadError' = [loadError EXCEPT ![p]["project"] = broken]
    /\ UNCHANGED <<disk, writeQueue, sets, cleared>>

Init ==
    /\ disk = [s \in Scopes |-> Empty]
    /\ settings = [p \in Procs |-> disk]
    /\ modified = [p \in Procs |-> [s \in Scopes |-> {}]]
    /\ loadError = [p \in Procs |-> [s \in Scopes |-> FALSE]]
    /\ writeQueue = [p \in Procs |-> <<>>]
    /\ trusted = [p \in Procs |-> TRUE]
    /\ sets = 0 /\ failures = 0
    /\ cleared = [p \in Procs |-> FALSE]
    /\ owed = modified

Next ==
    \E p \in Procs :
       \/ \E s \in Scopes, x \in Fields : Set(p, s, x)
       \/ Write(p) \/ WriteFails(p) \/ WriteRefused(p)
       \/ Reload(p) \/ SetProjectTrusted(p)

Spec == Init /\ [][Next]_vars

-----------------------------------------------------------------------------
(* Properties.                                                             *)

\* The types of the variables.
TypeOK ==
    LET Values == [Fields -> Procs \cup {None}] IN
    /\ disk \in [Scopes -> Values]
    /\ settings \in [Procs -> [Scopes -> Values]]
    /\ modified \in [Procs -> [Scopes -> SUBSET Fields]]
    /\ owed \in [Procs -> [Scopes -> SUBSET Fields]]
    /\ loadError \in [Procs -> [Scopes -> BOOLEAN]]
    /\ \A p \in Procs : \A w \in Range(writeQueue[p]) :
          w \in [scope : Scopes, values : Values, fields : SUBSET Fields]
    /\ trusted \in [Procs -> BOOLEAN] /\ cleared \in [Procs -> BOOLEAN]

\* A write leaves every field alone that its process has not changed, however
\* old its copy of the file is; and the settings of a project change only by a
\* process that trusts it, also when trust is withdrawn while a write is queued.
OthersAreKept ==
    [][\A s \in Scopes, x \in Fields : disk'[s][x] # disk[s][x] =>
          \E p \in Procs : /\ writeQueue'[p] # writeQueue[p] /\ disk'[s][x] = p
                           /\ s = "project" => trusted[p]]_vars

\* A changed field is queued, or still marked for the next save, until it is
\* written, also behind writes that failed; the one way to lose it is the failure of
\* its write behind one that succeeded meanwhile and took its mark.
ChangesStayMarked ==
    \A p \in Procs, s \in Scopes : \A x \in owed[p][s] :
        x \in modified[p][s] \/ \E w \in Range(writeQueue[p]) : w.scope = s /\ x \in w.fields

=============================================================================
