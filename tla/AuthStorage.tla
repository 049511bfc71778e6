---------------------------- MODULE AuthStorage -----------------------------
(***************************************************************************)
(* AuthStorage (core/auth-storage.ts): several processes share auth.json   *)
(* under a file lock.  A refresh of an OAuth token holds the lock while it *)
(* asks the server, which accepts each refresh token once; set() and       *)
(* reload() take the lock for the time of a synchronous call and give up   *)
(* when they do not get it.                                                *)
(***************************************************************************)
EXTENDS Naturals, FiniteSets

CONSTANTS
    Procs,          \* processes
    MaxIssued,      \* bound on the tokens the server issues
    None, Torn

Tokens == 1..MaxIssued

\* The file: the OAuth credential of one provider, the API key of another.
Contents == [oauth : Tokens \cup {None}, key : {None, "set"}]

Empty == [oauth |-> None, key |-> None]

VARIABLES
    disk,           \* auth.json: Contents, or Torn
    lock,           \* its lock: a process, "dead" or None
    compromised,    \* compromised[p]: "no", "unnoticed", "noticed"
    data,           \* data[p], the credentials in memory
    loadError,      \* loadError[p]
    pc,             \* where getApiKey stands, or "down"
    seen,           \* what a refresh read under the lock, then what it will write
    valid, issued, expired,     \* the server's tokens, and time
    trouble,        \* history: a lock was taken from the living, a process died
                    \* or an answer was lost; one such fault is modelled
    refused,        \* history: the server refused a token
    unsaved         \* history: a login that is not on disk

serverVars == <<valid, issued, expired>>
histVars == <<trouble, refused, unsaved>>
procVars == <<data, loadError, pc, seen>>
vars == <<disk, lock, compromised, procVars, serverVars, histVars>>

Refreshing == {"locking", "asking", "answered", "failed"}

-----------------------------------------------------------------------------
\* reload(), also in the constructor: another holder of the lock or a file that
\* does not parse is a load error, and what was in memory stays.
Reload(p, then) ==
    /\ IF lock = None /\ disk # Torn
       THEN data' = [data EXCEPT ![p] = disk] /\ loadError' = [loadError EXCEPT ![p] = FALSE]
       ELSE UNCHANGED data /\ loadError' = [loadError EXCEPT ![p] = TRUE]
    /\ pc' = [pc EXCEPT ![p] = then]
    /\ UNCHANGED <<disk, lock, compromised, seen, serverVars, histVars>>

Start(p) == pc[p] = "down" /\ Reload(p, "idle")

\* persistProviderChange: the provider that changed is merged into the file.
Persist(p, old, new) ==
    IF loadError[p] \/ lock # None \/ disk = Torn THEN disk
    ELSE [oauth |-> IF new.oauth # old.oauth THEN new.oauth ELSE disk.oauth,
          key |-> IF new.key # old.key THEN new.key ELSE disk.key]

Change(p, new) ==
    /\ pc[p] # "down"
    /\ data' = [data EXCEPT ![p] = new]
    /\ disk' = Persist(p, data[p], new)
    /\ UNCHANGED <<lock, compromised, loadError, pc, seen, expired, trouble, refused>>

\* login(): the server issues a token, set() stores it.
Login(p) ==
    /\ issued < MaxIssued
    /\ issued' = issued + 1 /\ valid' = valid \cup {issued'}
    /\ Change(p, [data[p] EXCEPT !.oauth = issued'])
    /\ unsaved' = (disk' = disk)

\* set() of an API key, remove() of either credential.
SetKey(p) ==
    /\ data[p].key = None
    /\ Change(p, [data[p] EXCEPT !.key = "set"])
    /\ UNCHANGED <<valid, issued, unsaved>>

Logout(p) ==
    /\ \E f \in {"oauth", "key"} : /\ data[p][f] # None
                                   /\ Change(p, [data[p] EXCEPT ![f] = None])
    /\ UNCHANGED <<valid, issued, unsaved>>

\* getApiKey() of an expired token starts a refresh.
GetApiKey(p) ==
    /\ pc[p] = "idle" /\ data[p].oauth \in expired
    /\ pc' = [pc EXCEPT ![p] = "locking"]
    /\ UNCHANGED <<disk, lock, compromised, data, loadError, seen, serverVars, histVars>>

\* Mutant: the token of the memory is refreshed, not the one of the file.
AcquireStale(p) ==
    /\ pc[p] = "locking" /\ lock = None /\ disk # Torn
    /\ lock' = p
    /\ compromised' = [compromised EXCEPT ![p] = "no"]
    /\ seen' = [seen EXCEPT ![p] = data[p]]
    /\ pc' = [pc EXCEPT ![p] = IF data[p].oauth = None THEN "failed" ELSE "asking"]
    /\ UNCHANGED <<disk, data, loadError, serverVars, histVars>>

\* The lock, and the file read under it: a credential that is gone or that
\* another process has refreshed ends the refresh, a torn file fails it.
Acquire(p) ==
    /\ pc[p] = "locking" /\ lock = None
    /\ \/ /\ disk = Torn
          /\ pc' = [pc EXCEPT ![p] = "failed"]
          /\ UNCHANGED <<lock, compromised, data, loadError, seen>>
       \/ /\ disk # Torn
          /\ data' = [data EXCEPT ![p] = disk]
          /\ loadError' = [loadError EXCEPT ![p] = FALSE]
          /\ IF disk.oauth \in expired
             THEN /\ lock' = p /\ compromised' = [compromised EXCEPT ![p] = "no"]
                  /\ seen' = [seen EXCEPT ![p] = disk]
                  /\ pc' = [pc EXCEPT ![p] = "asking"]
             ELSE /\ pc' = [pc EXCEPT ![p] = "idle"]
                  /\ UNCHANGED <<lock, compromised, seen>>
    /\ UNCHANGED <<disk, serverVars, histVars>>

\* Ten retries, then ELOCKED.
GiveUp(p) ==
    /\ pc[p] = "locking" /\ lock # None
    /\ pc' = [pc EXCEPT ![p] = "failed"]
    /\ UNCHANGED <<disk, lock, compromised, data, loadError, seen, serverVars, histVars>>

\* The server accepts a refresh token once and answers with the next.
ServerAnswers(p) ==
    /\ pc[p] = "asking" /\ seen[p].oauth \in valid /\ issued < MaxIssued
    /\ issued' = issued + 1
    /\ valid' = (valid \ {seen[p].oauth}) \cup {issued'}
    /\ \/ /\ seen' = [seen EXCEPT ![p].oauth = issued']
          /\ pc' = [pc EXCEPT ![p] = "answered"]
          /\ UNCHANGED <<lock, trouble>>
       \/ \* the answer is lost
          /\ ~trouble /\ trouble' = TRUE
          /\ seen' = [seen EXCEPT ![p] = Empty]
          /\ pc' = [pc EXCEPT ![p] = "failed"]
          /\ lock' = IF lock = p THEN None ELSE lock
    /\ UNCHANGED <<disk, compromised, data, loadError, expired, refused, unsaved>>

\* The request fails, or the server does not know the token: the lock is
\* released and the error thrown.
RequestFails(p) ==
    /\ pc[p] = "asking"
    /\ pc' = [pc EXCEPT ![p] = "failed"]
    /\ lock' = IF lock = p THEN None ELSE lock
    /\ refused' = (refused \/ seen[p].oauth \notin valid)
    /\ seen' = [seen EXCEPT ![p] = Empty]
    /\ UNCHANGED <<disk, compromised, data, loadError, serverVars, trouble, unsaved>>

\* The merged file is written unless the lock is known to be lost.
Commit(p) ==
    /\ pc[p] = "answered"
    /\ data' = [data EXCEPT ![p] = seen[p]]
    /\ loadError' = [loadError EXCEPT ![p] = FALSE]
    /\ IF compromised[p] = "noticed"
       THEN UNCHANGED disk /\ pc' = [pc EXCEPT ![p] = "failed"]
       ELSE disk' = seen[p] /\ pc' = [pc EXCEPT ![p] = "idle"]
    /\ lock' = IF lock = p THEN None ELSE lock
    /\ seen' = [seen EXCEPT ![p] = Empty]
    /\ UNCHANGED <<compromised, serverVars, histVars>>

\* getApiKey() catches the error and reloads.
Recover(p) == pc[p] = "failed" /\ Reload(p, "idle")

-----------------------------------------------------------------------------
(* The lock (proper-lockfile) and faults.                                  *)

\* A synchronous call takes a lock it finds stale after 10 seconds; the holder
\* of an asynchronous one renews it every 15.
Steal(p) ==
    /\ lock = p /\ ~trouble
    /\ lock' = None /\ trouble' = TRUE
    /\ compromised' = [compromised EXCEPT ![p] = "unnoticed"]
    /\ UNCHANGED <<disk, procVars, serverVars, refused, unsaved>>

Notice(p) ==
    /\ compromised[p] = "unnoticed"
    /\ compromised' = [compromised EXCEPT ![p] = "noticed"]
    /\ UNCHANGED <<disk, lock, procVars, serverVars, histVars>>

Stale ==
    /\ lock = "dead" /\ lock' = None
    /\ UNCHANGED <<disk, compromised, procVars, serverVars, histVars>>

Writes(p) ==
    \/ pc[p] = "answered" /\ compromised[p] # "noticed"
    \/ lock = None /\ ~loadError[p]

\* A process ends; in the middle of a write it leaves a torn file.
Crash(p) ==
    /\ pc[p] # "down" /\ ~trouble
    /\ pc' = [pc EXCEPT ![p] = "down"]
    /\ data' = [data EXCEPT ![p] = Empty]
    /\ loadError' = [loadError EXCEPT ![p] = FALSE]
    /\ lock' = IF lock = p THEN "dead" ELSE lock
    /\ \/ UNCHANGED disk
       \/ Writes(p) /\ disk' = Torn
    /\ trouble' = TRUE
    /\ seen' = [seen EXCEPT ![p] = Empty]
    /\ UNCHANGED <<compromised, serverVars, refused, unsaved>>

Expire ==
    /\ \E t \in 1..issued : t \notin expired /\ expired' = expired \cup {t}
    /\ UNCHANGED <<disk, lock, compromised, procVars, valid, issued, histVars>>

Init ==
    /\ disk = [oauth |-> 1, key |-> None]
    /\ lock = None /\ compromised = [p \in Procs |-> "no"]
    /\ data = [p \in Procs |-> Empty] /\ loadError = [p \in Procs |-> FALSE]
    /\ pc = [p \in Procs |-> "down"]
    /\ seen = [p \in Procs |-> Empty]
    /\ issued = 1 /\ valid = {1} /\ expired = {}
    /\ trouble = FALSE /\ refused = FALSE /\ unsaved = FALSE

Next ==
    \/ \E p \in Procs :
          \/ Start(p) \/ Login(p) \/ SetKey(p) \/ Logout(p)
          \/ GetApiKey(p) \/ Acquire(p) \/ GiveUp(p) \/ ServerAnswers(p)
          \/ RequestFails(p) \/ Commit(p) \/ Recover(p)
          \/ Steal(p) \/ Notice(p) \/ Crash(p)
    \/ Stale \/ Expire

Spec == Init /\ [][Next]_vars

-----------------------------------------------------------------------------
(* Properties.                                                             *)

\* The types of the variables.
TypeOK ==
    /\ disk \in Contents \cup {Torn}
    /\ lock \in Procs \cup {"dead", None}
    /\ compromised \in [Procs -> {"no", "unnoticed", "noticed"}]
    /\ data \in [Procs -> Contents] /\ loadError \in [Procs -> BOOLEAN]
    /\ pc \in [Procs -> {"down", "idle"} \cup Refreshing]
    /\ seen \in [Procs -> Contents]
    /\ valid \subseteq Tokens /\ issued \in Tokens /\ expired \subseteq Tokens
    /\ {trouble, refused, unsaved} \subseteq BOOLEAN

\* While no process dies, loses its lock or an answer, no process presents a
\* refresh token that has been used, and the token in the file is one the server
\* accepts whenever nobody holds the lock: the lock and the second look at the
\* file under it keep concurrent refreshes apart.
RefreshedOnce ==
    ~trouble =>
        /\ ~refused
        /\ lock = None /\ disk # Torn /\ disk.oauth # None => disk.oauth \in valid

\* A write for one provider leaves the credential of the other alone, however
\* old the writer's memory is; and a file that does not parse is left for its
\* owner to repair, as long as no writer has lost its lock.
OneProviderAtATime ==
    [][/\ ~trouble' => disk'.oauth = disk.oauth \/ disk'.key = disk.key
       /\ disk = Torn => \E p \in Procs : compromised[p] # "no"]_disk

\* After a login its credential is in auth.json.
LoginIsStored == ~trouble => ~unsaved

=============================================================================
