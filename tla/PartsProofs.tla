---------------------------- MODULE PartsProofs ----------------------------
(***************************************************************************)
(* Proofs about the parts that MCParts puts together: the file mutation    *)
(* queue, the model fallback, the client of the RPC mode, the settings and *)
(* the stored credentials.  Each theorem is about the specification of one *)
(* part.  The streams have a module of their own, StreamProofs; the types  *)
(* of all the parts, and what the parts of a run have to do with their own *)
(* specifications, is at the end.                                          *)
(***************************************************************************)
EXTENDS StreamProofs

-----------------------------------------------------------------------------
(* File mutation queue: mutual exclusion, in call order, for any set of    *)
(* calls.  The queue of a key is a chain of promises, and a key is dropped *)
(* from the map when the last call of its chain settles.                   *)

Registered == {"queued"} \cup Inside

\* Calls have distinct tickets, and register in the order of their tickets.
TicketsInv ==
    /\ \A c \in Calls : ticket[c] <= calls
    /\ \A c \in Calls : (pc[c] = "idle") <=> (ticket[c] = 0)
    /\ \A c, d \in Calls : c # d /\ ticket[c] = ticket[d] => ticket[c] = 0
    /\ \A c, d \in Calls :
          /\ c # d
          /\ pc[c] \in {"called", "resolved"}
          /\ pc[d] \in Registered \cup {"resolved"}
          => ticket[d] < ticket[c]

\* A call has its key from its resolution on.
KeysInv ==
    \A c \in Calls : /\ pc[c] \in {"idle", "called"} => key[c] = None
                     /\ pc[c] \in Registered \cup {"resolved"} => key[c] \in Paths

\* The tail of a key is the last of its calls that have registered.
TailInv ==
    /\ \A c \in Calls : pc[c] \in Registered =>
          tail[key[c]] # None /\ ticket[c] <= ticket[tail[key[c]]]
    /\ \A p \in Paths : tail[p] # None => pc[tail[p]] \in Registered /\ key[tail[p]] = p

\* While an earlier call of its key is not settled, a call that is queued
\* waits for one of that key which is not, and is not before it.
ChainInv ==
    \A c, d \in Calls :
        /\ pc[c] \in Registered /\ pc[d] = "queued"
        /\ key[c] = key[d] /\ ticket[c] < ticket[d]
        => /\ waits[d] # None /\ pc[waits[d]] \in Registered
           /\ key[waits[d]] = key[d] /\ ticket[c] <= ticket[waits[d]]

QueueInv == TypeOK /\ TicketsInv /\ KeysInv /\ TailInv /\ ChainInv /\ InCallOrder

-----------------------------------------------------------------------------
\* The initial states satisfy the invariant.
LEMMA QueueInit == Init => QueueInv
  <1> SUFFICES ASSUME Init PROVE QueueInv
    OBVIOUS
  <1> USE DEF Init, Registered, Inside, Paths, Files
  <1>1. TypeOK
    <2>1. <<>> \in Seq(Calls \cup {None}) /\ Missing \in Seq(Calls \cup {None})
      BY DEF Missing
    <2>2. content \in [Files -> Seq(Calls \cup {None})]
      BY <2>1
    <2>3. seen \in [Calls -> Seq(Calls \cup {None})]
      BY <2>1
    <2> QED BY <2>2, <2>3 DEF TypeOK, PCs, AllRequests
  <1>2. TicketsInv /\ KeysInv /\ TailInv /\ ChainInv /\ InCallOrder
    BY FileMutationAssumption DEF TicketsInv, KeysInv, TailInv, ChainInv, InCallOrder
  <1> QED BY <1>1, <1>2 DEF QueueInv

\* Every step keeps the variables in their types.
LEMMA QueueTypesStep == ASSUME TypeOK, NEW c \in Calls, Step(c), KeysInv PROVE TypeOK'
  <1> USE DEF TypeOK, PCs, Inside, Registered
  <1>1. CASE Call(c)
    BY <1>1, FileMutationAssumption DEF Call, AllRequests
  <1>2. CASE Resolve(c)
    <2>1. RealPath(args[c].path) \in Paths
      BY DEF RealPath, FileOf, Paths, AllRequests
    <2> QED BY <1>2, <2>1 DEF Resolve
  <1>3. CASE ResolveFails(c)
    BY <1>3 DEF ResolveFails
  <1>4. CASE Register(c)
    BY <1>4 DEF Register, KeysInv
  <1>5. CASE Start(c)
    BY <1>5 DEF Start
  <1>6. CASE Read(c)
    BY <1>6 DEF Read, FileOf, Files
  <1>7. CASE WriteFile(c)
    <2>1. Append(seen[c], c) \in Seq(Calls \cup {None}) /\ <<c>> \in Seq(Calls \cup {None})
      OBVIOUS
    <2> QED BY <1>7, <2>1 DEF WriteFile, FileOf, Files
  <1>8. CASE Settle(c)
    BY <1>8 DEF Settle, KeysInv
  <1> QED BY <1>1, <1>2, <1>3, <1>4, <1>5, <1>6, <1>7, <1>8 DEF Step

\* Every step keeps the invariant.
LEMMA QueueStep == ASSUME QueueInv, NEW c \in Calls, Step(c) PROVE QueueInv'
  <1>0. TypeOK' BY QueueTypesStep DEF QueueInv
  <1> USE <1>0 DEF QueueInv, TypeOK, PCs, Inside, Registered
  <1>1. CASE Call(c)
    <2> USE <1>1 DEF Call
    <2>1. TicketsInv' BY DEF TicketsInv
    <2>2. KeysInv' BY DEF KeysInv
    <2>3. TailInv' BY FileMutationAssumption DEF TailInv, KeysInv
    <2>4. ChainInv' BY FileMutationAssumption DEF ChainInv
    <2>5. InCallOrder' BY DEF InCallOrder, KeysInv
    <2> QED BY <2>1, <2>2, <2>3, <2>4, <2>5
  <1>2. CASE Resolve(c)
    <2> USE <1>2 DEF Resolve, Turn
    <2>0. key'[c] \in Paths BY DEF RealPath, FileOf, Paths, AllRequests
    <2>1. TicketsInv' BY DEF TicketsInv
    <2>2. KeysInv' BY <2>0 DEF KeysInv
    <2>3. TailInv' BY FileMutationAssumption DEF TailInv, KeysInv
    <2>4. ChainInv' BY FileMutationAssumption DEF ChainInv, KeysInv
    <2>5. InCallOrder' BY DEF InCallOrder, TicketsInv
    <2> QED BY <2>1, <2>2, <2>3, <2>4, <2>5
  <1>3. CASE ResolveFails(c)
    <2> USE <1>3 DEF ResolveFails, Turn
    <2>1. TicketsInv' BY DEF TicketsInv
    <2>2. KeysInv' BY DEF KeysInv
    <2>3. TailInv' BY FileMutationAssumption DEF TailInv
    <2>4. ChainInv' BY FileMutationAssumption DEF ChainInv
    <2>5. InCallOrder' BY DEF InCallOrder
    <2> QED BY <2>1, <2>2, <2>3, <2>4, <2>5
  <1>4. CASE Register(c)
    <2> USE <1>4 DEF Register
    <2>0. key[c] \in Paths /\ key[c] # None BY FileMutationAssumption DEF KeysInv
    <2>1. TicketsInv' BY DEF TicketsInv
    <2>2. KeysInv' BY DEF KeysInv
    <2>3. TailInv'
      <3>1. \A d \in Calls : pc[d] \in Registered => ticket[d] < ticket[c]
        BY DEF TicketsInv
      <3> QED BY <2>0, <3>1, FileMutationAssumption DEF TailInv, KeysInv
    <2>4. ChainInv'
      <3> SUFFICES ASSUME NEW e \in Calls, NEW d \in Calls,
                          (/\ pc[e] \in Registered /\ pc[d] = "queued"
                           /\ key[e] = key[d] /\ ticket[e] < ticket[d])'
                   PROVE  (/\ waits[d] # None /\ pc[waits[d]] \in Registered
                           /\ key[waits[d]] = key[d] /\ ticket[e] <= ticket[waits[d]])'
        BY DEF ChainInv
      <3>1. e # c
        BY DEF TicketsInv
      <3>2. CASE d = c
        BY <3>1, <3>2, <2>0, FileMutationAssumption DEF TailInv
      <3>3. CASE d # c
        BY <3>1, <3>3, FileMutationAssumption DEF ChainInv
      <3> QED BY <3>2, <3>3
    <2>5. InCallOrder' BY DEF InCallOrder
    <2> QED BY <2>1, <2>2, <2>3, <2>4, <2>5
  <1>5. CASE Start(c)
    <2> USE <1>5 DEF Start
    <2>1. TicketsInv' BY DEF TicketsInv
    <2>2. KeysInv' BY DEF KeysInv
    <2>3. TailInv' BY FileMutationAssumption DEF TailInv, KeysInv
    <2>4. ChainInv' BY FileMutationAssumption DEF ChainInv
    <2>5. InCallOrder'
      <3>1. \A d \in Calls : key[d] = key[c] /\ ticket[d] < ticket[c] /\ key[d] # None
                             => pc[d] = "settled"
        <4> SUFFICES ASSUME NEW d \in Calls, key[d] = key[c], ticket[d] < ticket[c],
                            key[d] # None
                     PROVE  pc[d] = "settled"
          OBVIOUS
        <4>1. pc[d] \notin {"idle", "called"} BY DEF KeysInv
        <4>2. pc[d] # "resolved"
          <5>1. pc[d] = "resolved" => ticket[c] < ticket[d] BY DEF TicketsInv
          <5> QED BY <5>1
        <4>3. pc[d] \notin Registered BY DEF ChainInv
        <4> QED BY <4>1, <4>2, <4>3
      <3> QED BY <3>1 DEF InCallOrder
    <2> QED BY <2>1, <2>2, <2>3, <2>4, <2>5
  <1>6. CASE Read(c)
    <2> USE <1>6 DEF Read
    <2>1. TicketsInv' BY DEF TicketsInv
    <2>2. KeysInv' BY DEF KeysInv
    <2>3. TailInv' BY FileMutationAssumption DEF TailInv, KeysInv
    <2>4. ChainInv' BY FileMutationAssumption DEF ChainInv
    <2>5. InCallOrder' BY DEF InCallOrder
    <2> QED BY <2>1, <2>2, <2>3, <2>4, <2>5
  <1>7. CASE WriteFile(c)
    <2> USE <1>7 DEF WriteFile
    <2>1. TicketsInv' BY DEF TicketsInv
    <2>2. KeysInv' BY DEF KeysInv
    <2>3. TailInv' BY FileMutationAssumption DEF TailInv, KeysInv
    <2>4. ChainInv' BY FileMutationAssumption DEF ChainInv
    <2>5. InCallOrder' BY DEF InCallOrder
    <2> QED BY <2>1, <2>2, <2>3, <2>4, <2>5
  <1>8. CASE Settle(c)
    <2> USE <1>8 DEF Settle
    <2>0. key[c] \in Paths /\ key[c] # None BY FileMutationAssumption DEF KeysInv
    <2>e. \A d \in Calls : pc[d] \in Registered /\ key[d] = key[c] /\ d # c => ticket[c] < ticket[d]
      <3> SUFFICES ASSUME NEW d \in Calls, pc[d] \in Registered, key[d] = key[c], d # c
                   PROVE  ticket[c] < ticket[d]
        OBVIOUS
      <3>1. ticket[d] # ticket[c] BY DEF TicketsInv
      <3>2. ~(ticket[d] < ticket[c]) BY <2>0 DEF InCallOrder
      <3>3. ticket[c] \in Nat /\ ticket[d] \in Nat OBVIOUS
      <3> QED BY <3>1, <3>2, <3>3
    <2>1. TicketsInv' BY DEF TicketsInv
    <2>2. KeysInv' BY DEF KeysInv
    <2>3. TailInv'
      <3>1. ASSUME NEW d \in Calls, pc'[d] \in Registered
            PROVE  tail'[key[d]] # None /\ ticket[d] <= ticket[tail'[key[d]]]
        <4>1. d # c /\ pc[d] \in Registered /\ key[d] \in Paths
          BY <3>1 DEF KeysInv
        <4>2. CASE key[d] = key[c]
          BY <2>e, <4>1, <4>2, <2>0 DEF TailInv
        <4>3. CASE key[d] # key[c]
          BY <4>1, <4>3 DEF TailInv
        <4> QED BY <4>2, <4>3
      <3>2. ASSUME NEW p \in Paths, tail'[p] # None
            PROVE  pc'[tail'[p]] \in Registered /\ key[tail'[p]] = p
        BY <3>2, <2>0, FileMutationAssumption DEF TailInv
      <3> QED BY <3>1, <3>2 DEF TailInv
    <2>4. ChainInv'
      <3> SUFFICES ASSUME NEW e \in Calls, NEW d \in Calls,
                          (/\ pc[e] \in Registered /\ pc[d] = "queued"
                           /\ key[e] = key[d] /\ ticket[e] < ticket[d])'
                   PROVE  (/\ waits[d] # None /\ pc[waits[d]] \in Registered
                           /\ key[waits[d]] = key[d] /\ ticket[e] <= ticket[waits[d]])'
        BY DEF ChainInv
      <3>1. e # c /\ d # c /\ pc[e] \in Registered /\ pc[d] = "queued"
        OBVIOUS
      <3>2. waits[d] # c
        BY <3>1, <2>e DEF ChainInv
      <3> QED BY <3>1, <3>2, FileMutationAssumption DEF ChainInv
    <2>5. InCallOrder' BY DEF InCallOrder
    <2> QED BY <2>1, <2>2, <2>3, <2>4, <2>5
  <1> QED BY <1>1, <1>2, <1>3, <1>4, <1>5, <1>6, <1>7, <1>8 DEF Step

\* The invariant holds in every state.
LEMMA QueueInvariance == Spec => []QueueInv
  <1>1. Init => QueueInv BY QueueInit
  <1>2. QueueInv /\ [Next]_vars => QueueInv'
    <2> SUFFICES ASSUME QueueInv, [Next]_vars PROVE QueueInv'
      OBVIOUS
    <2>1. CASE Next BY <2>1, QueueStep DEF Next
    <2>2. CASE UNCHANGED vars
      BY <2>2 DEF vars, QueueInv, TypeOK, TicketsInv, KeysInv, TailInv, ChainInv, InCallOrder
    <2> QED BY <2>1, <2>2
  <1> QED BY <1>1, <1>2, PTL DEF Spec

\* Two mutations under one key are never inside at once, and go inside in the
\* order of their calls (withFileMutationQueue), for any set of calls.
THEOREM MutualExclusion == Spec => []InCallOrder
  <1>1. QueueInv => InCallOrder BY DEF QueueInv
  <1> QED BY <1>1, QueueInvariance, PTL

\* The map of queues holds no key whose calls have all settled.
THEOREM NoKeyLeaks == Spec => []KeysAreDropped
  <1>1. QueueInv => KeysAreDropped BY DEF QueueInv, TailInv, KeysAreDropped, Registered, Inside
  <1> QED BY <1>1, QueueInvariance, PTL

-----------------------------------------------------------------------------
(* No lost update.  A path that leads nowhere is its own key, so a link to a *)
(* file that does not exist yet is not queued with the file's own name: what *)
(* the queue promises, it promises of links to files that exist.             *)

LinkedFileExists ==
    "file" \in MissingAtStart => \A request \in Requests : request.path # "alias"

\* A call that has begun names a path that was asked for.
ArgsInv == \A c \in Calls : pc[c] # "idle" => args[c] \in Requests

\* No tool removes a file.
FileStays == "file" \notin MissingAtStart => content["file"] # Missing

\* Whatever a file is called, its calls have one key.
KeyIsFile == \A c \in Calls : key[c] # None => key[c] = FileOf(args[c].path)

\* What a call is about to write is still what its file holds.
SeenIsFile == \A c \in Calls : pc[c] = "read" => seen[c] = content[FileOf(args[c].path)]

FileInv == ArgsInv /\ FileStays /\ KeyIsFile /\ SeenIsFile

\* What a tool writes is a file.
LEMMA WrittenIsFile ==
    ASSUME TypeOK, NEW c \in Calls
    PROVE  Append(seen[c], c) # Missing /\ <<c>> # Missing
  <1>1. seen[c] \in Seq(Calls \cup {None}) /\ c # None /\ Missing[1] = None /\ Len(Missing) = 1
    BY FileMutationAssumption DEF TypeOK, Missing
  <1>2. /\ Len(Append(seen[c], c)) = Len(seen[c]) + 1
        /\ Append(seen[c], c)[Len(seen[c]) + 1] = c
    BY <1>1
  <1>3. ASSUME Append(seen[c], c) = Missing PROVE FALSE
    BY <1>1, <1>2, <1>3
  <1>4. <<c>>[1] = c
    OBVIOUS
  <1> QED BY <1>1, <1>3, <1>4

\* Two calls that are about to write do not name one file.
LEMMA OneWriter ==
    ASSUME QueueInv, KeyIsFile, NEW c \in Calls, NEW d \in Calls, c # d,
           pc[c] \in Inside, pc[d] \in Inside
    PROVE  FileOf(args[c].path) # FileOf(args[d].path)
  <1> SUFFICES ASSUME FileOf(args[c].path) = FileOf(args[d].path) PROVE FALSE
    OBVIOUS
  <1>1. key[c] \in Paths /\ key[d] \in Paths
    BY DEF QueueInv, KeysInv, Registered
  <1>2. key[c] = key[d] /\ key[c] # None
    BY <1>1, FileMutationAssumption DEF KeyIsFile
  <1>3. ticket[c] # ticket[d] /\ ticket[c] \in Nat /\ ticket[d] \in Nat
    BY DEF QueueInv, TicketsInv, TypeOK, Inside
  <1>4. ~(ticket[c] < ticket[d]) /\ ~(ticket[d] < ticket[c])
    BY <1>2 DEF QueueInv, InCallOrder, Inside
  <1> QED BY <1>3, <1>4

\* Every step keeps the files' invariant.
LEMMA FileStep ==
    ASSUME LinkedFileExists, QueueInv, FileInv, NEW c \in Calls, Step(c)
    PROVE  FileInv'
  <1> USE DEF FileInv, QueueInv, TypeOK
  <1>1. CASE Call(c)
    <2>1. ArgsInv' /\ FileStays' BY <1>1 DEF Call, ArgsInv, FileStays
    <2>2. KeyIsFile' BY <1>1 DEF Call, KeyIsFile, KeysInv
    <2>3. SeenIsFile' BY <1>1 DEF Call, SeenIsFile
    <2> QED BY <2>1, <2>2, <2>3
  <1>2. CASE Resolve(c)
    <2>1. args[c] \in Requests /\ args[c].path \in Paths
      BY <1>2 DEF Resolve, Turn, ArgsInv, AllRequests
    <2>2. RealPath(args[c].path) = FileOf(args[c].path)
      BY <2>1 DEF RealPath, FileOf, LinkedFileExists, FileStays, Paths
    <2>3. ArgsInv' /\ FileStays' /\ SeenIsFile'
      BY <1>2 DEF Resolve, Turn, ArgsInv, FileStays, SeenIsFile
    <2>4. KeyIsFile'
      BY <1>2, <2>2 DEF Resolve, KeyIsFile
    <2> QED BY <2>3, <2>4
  <1>3. CASE ResolveFails(c) \/ Register(c) \/ Start(c) \/ Settle(c)
    BY <1>3 DEF ResolveFails, Register, Start, Settle, Turn, Inside, ArgsInv, FileStays, KeyIsFile, SeenIsFile
  <1>4. CASE Read(c)
    BY <1>4 DEF Read, ArgsInv, FileStays, KeyIsFile, SeenIsFile
  <1>5. CASE WriteFile(c)
    <2>1. ArgsInv' /\ KeyIsFile' BY <1>5 DEF WriteFile, ArgsInv, KeyIsFile
    <2>2. FileStays'
      BY <1>5, WrittenIsFile DEF WriteFile, FileStays, Files
    <2>3. SeenIsFile'
      <3> SUFFICES ASSUME NEW d \in Calls, pc'[d] = "read"
                   PROVE  seen[d] = content'[FileOf(args[d].path)]
        BY <1>5 DEF WriteFile, SeenIsFile
      <3>1. d # c /\ pc[d] = "read" /\ pc[c] = "read"
        BY <1>5 DEF WriteFile
      <3>2. FileOf(args[c].path) # FileOf(args[d].path)
        BY <3>1, OneWriter DEF Inside
      <3> QED BY <1>5, <3>1, <3>2 DEF WriteFile, SeenIsFile, FileOf, Files
    <2> QED BY <2>1, <2>2, <2>3
  <1> QED BY <1>1, <1>2, <1>3, <1>4, <1>5 DEF Step

\* What an edit or a write leaves in a file holds all the file held, or is new,
\* whichever of its names the calls used (edit.ts, write.ts under
\* withFileMutationQueue), if a file that is also named by a link exists.
THEOREM NoUpdateIsLost == ASSUME LinkedFileExists PROVE Spec => NoLostUpdate
  <1>1. Init => FileInv
    BY DEF Init, FileInv, ArgsInv, FileStays, KeyIsFile, SeenIsFile, Files, Missing
  <1>2. QueueInv /\ FileInv /\ [Next]_vars => FileInv'
    <2> SUFFICES ASSUME QueueInv, FileInv, [Next]_vars PROVE FileInv'
      OBVIOUS
    <2>1. CASE Next BY <2>1, FileStep DEF Next
    <2>2. CASE UNCHANGED vars
      BY <2>2 DEF vars, FileInv, ArgsInv, FileStays, KeyIsFile, SeenIsFile
    <2> QED BY <2>1, <2>2
  <1>3. QueueInv /\ FileInv /\ [Next]_vars =>
          [\A f \in Files : content'[f] # content[f] =>
              \E c \in Calls : content'[f] \in {Append(content[f], c), <<c>>}]_vars
    <2> SUFFICES ASSUME QueueInv, FileInv, [Next]_vars, NEW f \in Files, content'[f] # content[f]
                 PROVE  \E c \in Calls : content'[f] \in {Append(content[f], c), <<c>>}
      OBVIOUS
    <2>1. PICK c \in Calls : WriteFile(c)
      BY DEF Next, Step, Call, Resolve, ResolveFails, Register, Start, Read, Settle, vars
    <2>2. f = FileOf(args[c].path) /\ seen[c] = content[f]
      BY <2>1 DEF WriteFile, FileInv, SeenIsFile, QueueInv, TypeOK
    <2> QED BY <2>1, <2>2 DEF WriteFile, QueueInv, TypeOK
  <1> QED BY <1>1, <1>2, <1>3, QueueInvariance, PTL DEF Spec, NoLostUpdate

-----------------------------------------------------------------------------
(* Model fallback.                                                         *)

\* A handler that has switched the model will append a record of that switch: to
\* the fallback it has switched to, or back to the user's model, which the user may
\* have replaced meanwhile.
SwitchIsRecorded ==
    Fallback!Busy =>
        /\ handler.appends.state \in {"active", "restored"}
        /\ ~lost /\ handler.appends.state = "active" =>
                handler.appends.original = pick /\ model = handler.appends.fallback
        /\ ~lost /\ handler.appends.state = "restored" => model = pick

FallbackInv == Fallback!TypeOK /\ PickSurvives /\ SwitchIsRecorded

\* The chain leads from a model to a model, or nowhere.
LEMMA NextIsModel ==
    ASSUME NEW m \in Fallback!Models
    PROVE  Fallback!NextInChain(m) \in Fallback!Models \cup {None}
<1> DEFINE i == CHOOSE i \in DOMAIN Chain : Chain[i] = m
<1>1. CASE m \in Fallback!Range(Chain)
  <2>1. i \in DOMAIN Chain
    BY <1>1 DEF Fallback!Range
  <2>2. i < Len(Chain) => Chain[i + 1] \in Fallback!Models
    BY <2>1, ChainAssumption
  <2>3. Fallback!NextInChain(m) = IF i < Len(Chain) THEN Chain[i + 1] ELSE None
    BY <1>1 DEF Fallback!NextInChain
  <2> QED BY <2>2, <2>3
<1>2. CASE m \notin Fallback!Range(Chain)
  BY <1>2, ChainAssumption DEF Fallback!NextInChain
<1> QED BY <1>1, <1>2

\* The invariant of the fallback holds at first.
LEMMA FallbackInit == Fallback!Init => FallbackInv
BY DEF Fallback!Init, FallbackInv, Fallback!TypeOK, PickSurvives, Fallback!PickSurvives,
       SwitchIsRecorded, Fallback!Busy, Fallback!Active, Fallback!Models

\* Every step of the extension, of a run or of the user keeps what the proof needs.
LEMMA FallbackStep ==
    ASSUME FallbackInv, [Fallback!Next]_fallbackVars
    PROVE  FallbackInv'
<1> USE DEF FallbackInv, PickSurvives, Fallback!PickSurvives, SwitchIsRecorded,
            Fallback!Busy, Fallback!Active
<1> DEFINE Rec == Fallback!Records
<1>0. Fallback!TypeOK /\ None \notin Rec /\ None \notin [appends : Rec, then : BOOLEAN]
  BY ChainAssumption
<1>1. CASE Fallback!RequestFails
  <2> DEFINE next == Fallback!NextInChain(model)
             new == [original |-> Fallback!Original, fallback |-> next, state |-> "active"]
  <2>1. next # None /\ next \in Fallback!Models
    BY <1>1, <1>0, NextIsModel DEF Fallback!RequestFails, Fallback!TypeOK
  <2>2. /\ handler = None
        /\ model' = next /\ handler' = [appends |-> new, then |-> TRUE]
        /\ lost' = (lost \/ (Fallback!Active /\ due))
        /\ UNCHANGED <<record, due, run, pick>>
    BY <1>1 DEF Fallback!RequestFails, Fallback!Apply
  <2>3. ~lost' => Fallback!Original = pick
    BY <2>2 DEF Fallback!Original, Fallback!ActiveInWindow
  <2> HIDE DEF next
  <2>4. new \in Rec
    <3>1. Fallback!Original \in Fallback!Models
      BY <1>0 DEF Fallback!TypeOK, Fallback!Original, Fallback!ActiveInWindow, Fallback!Records
    <3> QED BY <2>1, <3>1 DEF Fallback!Records
  <2>5. handler' \in [appends : Rec, then : BOOLEAN] /\ handler' # None
    <3> HIDE DEF new
    <3>1. [appends |-> new, then |-> TRUE] \in [appends : Rec, then : BOOLEAN]
      BY <2>4, Zenon
    <3> QED BY <2>2, <3>1, <1>0, Zenon
  <2>6. Fallback!TypeOK'
    <3>1. lost' \in BOOLEAN
      BY <2>2
    <3> QED BY <2>1, <2>2, <2>5, <3>1, <1>0 DEF Fallback!TypeOK
  <2>7. PickSurvives' /\ SwitchIsRecorded'
    BY <2>2, <2>3, <2>5
  <2> QED BY <2>6, <2>7
<1>2. ASSUME NEW starts \in BOOLEAN, Fallback!Restore(starts)
      PROVE  FallbackInv'
  <2> DEFINE new == [record EXCEPT !.state = "restored"]
  <2>1. /\ handler = None /\ record # None /\ record.state = "active"
        /\ record \in Rec /\ new \in Rec /\ new.state = "restored"
        /\ ~lost => record.original = pick
        /\ record.original \in Fallback!Models /\ lost' = lost
    BY <1>2, <1>0 DEF Fallback!Restore, Fallback!Records, Fallback!TypeOK
  <2>2. CASE model = record.original
    <3>1. /\ record' = new /\ run' = starts
          /\ UNCHANGED <<model, due, handler, pick>>
      BY <1>2, <2>2 DEF Fallback!Restore
    <3> QED BY <3>1, <2>1, <2>2, <1>0, <1>2 DEF Fallback!TypeOK
  <2>3. CASE model # record.original
    <3>1. /\ model' = record.original /\ handler' = [appends |-> new, then |-> starts]
          /\ UNCHANGED <<record, due, run, pick>>
      BY <1>2, <2>1, <2>3 DEF Fallback!Restore, Fallback!Apply
    <3>2. handler' # None /\ handler' \in [appends : Rec, then : BOOLEAN]
      BY <3>1, <2>1, <1>0, <1>2
    <3>3. Fallback!TypeOK'
      BY <2>1, <3>1, <3>2, <1>0 DEF Fallback!TypeOK
    <3> QED BY <3>1, <3>2, <3>3, <2>1
  <2> QED BY <2>2, <2>3
<1>3. CASE Fallback!BeginRun
  <2>1. CASE Fallback!Restore(TRUE)
    BY <2>1, <1>2
  <2>2. CASE Fallback!StartWithoutRestore
    BY <2>2, <1>0 DEF Fallback!StartWithoutRestore, Fallback!TypeOK
  <2> QED BY <1>3, <2>1, <2>2 DEF Fallback!BeginRun
<1>4. CASE Fallback!SessionStart
  BY <1>4, <1>2 DEF Fallback!SessionStart
<1>5. CASE Fallback!Applied
  <2>1. /\ handler # None /\ handler \in [appends : Rec, then : BOOLEAN]
        /\ record' = handler.appends /\ run' = handler.then /\ handler' = None
        /\ due' = IF handler.appends.state = "active" THEN FALSE ELSE due
        /\ UNCHANGED <<model, pick, lost>>
    BY <1>5, <1>0 DEF Fallback!Applied, Fallback!TypeOK
  <2>2. Fallback!TypeOK' /\ handler.appends \in Rec
    BY <2>1, <1>0 DEF Fallback!TypeOK
  <2> QED BY <2>1, <2>2, <1>0
<1>6. CASE Fallback!EndRun
  BY <1>6, <1>0 DEF Fallback!EndRun, Fallback!TypeOK
<1>7. ASSUME NEW m \in Picks, Fallback!Pick(m)
      PROVE  FallbackInv'
  <2>1. /\ model' = m /\ pick' = m
        /\ record' = IF Fallback!Active /\ Fallback!Heard(m)
                     THEN [record EXCEPT !.state = "cancelled"] ELSE record
        /\ lost' = IF Fallback!Busy THEN handler.appends.state = "active"
                   ELSE Fallback!Active /\ ~Fallback!Heard(m)
        /\ UNCHANGED <<due, run, handler>>
    BY <1>7 DEF Fallback!Pick
  <2>2. m \in Fallback!Models /\ lost' \in BOOLEAN
    BY <2>1 DEF Fallback!Models
  <2>3. CASE Fallback!Active /\ Fallback!Heard(m)
    <3>1. record' \in Rec /\ record'.state = "cancelled" /\ ~lost' /\ handler' = None
      BY <2>1, <2>3, <1>0 DEF Fallback!TypeOK, Fallback!Records, Fallback!Heard
    <3>2. Fallback!TypeOK'
      BY <2>1, <2>2, <3>1, <1>0 DEF Fallback!TypeOK
    <3> QED BY <2>1, <3>1, <3>2
  <2>4. CASE ~(Fallback!Active /\ Fallback!Heard(m))
    <3>1. record' = record
      BY <2>1, <2>4
    <3>2. Fallback!TypeOK'
      BY <2>1, <2>2, <3>1, <1>0 DEF Fallback!TypeOK
    <3>3. CASE Fallback!Busy
      BY <2>1, <3>1, <3>2, <3>3
    <3>4. CASE ~Fallback!Busy
      BY <2>1, <2>4, <3>1, <3>2, <3>4
    <3> QED BY <3>3, <3>4
  <2> QED BY <2>3, <2>4
<1>8. CASE Fallback!WindowEnds
  BY <1>8, <1>0 DEF Fallback!WindowEnds, Fallback!TypeOK
<1>9. CASE UNCHANGED fallbackVars
  BY <1>9, <1>0 DEF fallbackVars, Fallback!TypeOK
<1> QED BY <1>1, <1>3, <1>4, <1>5, <1>6, <1>7, <1>8, <1>9 DEF Fallback!Next

\* However many hops a fallback makes, whenever its window ends and whenever the
\* user selects a model, the user's pick is in use or will be restored
\* (model-fallback.ts); the three cases its handlers do not guard against lose a
\* pick, and that no longer than to the user's next selection that is heard.
THEOREM UsersModelSurvives == Fallback!Spec => []PickSurvives
<1>1. Fallback!Init => FallbackInv
  BY FallbackInit, Zenon
<1>2. FallbackInv /\ [Fallback!Next]_fallbackVars => FallbackInv'
  BY FallbackStep, Zenon
<1>3. FallbackInv => PickSurvives
  BY DEF FallbackInv
<1> QED BY <1>1, <1>2, <1>3, PTL DEF Fallback!Spec, Fallback!vars, fallbackVars

-----------------------------------------------------------------------------
(* RPC client.                                                             *)

RpcRequest == [process : Rpc!Processes, answered : BOOLEAN,
               outcome : {"none", "response", "rejected", "timeout"}]

\* What RequestsOfOwnProcess relies on: processes are numbered from 1, and 0 is
\* the client without one.
RpcInv ==
    /\ started \in 0..MaxProcesses /\ process \in 0..MaxProcesses
    /\ requests \in Seq(RpcRequest)
    /\ pendingRequests \subseteq DOMAIN requests
    /\ RequestsOfOwnProcess

\* The entries of the map settle, the other requests stay as they are.
LEMMA SettledRequests ==
    ASSUME RpcInv, NEW ids \in SUBSET DOMAIN requests,
           NEW outcome \in {"none", "response", "rejected", "timeout"}
    PROVE  /\ DOMAIN Rpc!Settled(ids, outcome) = DOMAIN requests
           /\ Rpc!Settled(ids, outcome) \in Seq(RpcRequest)
           /\ \A i \in DOMAIN requests :
                 /\ Rpc!Settled(ids, outcome)[i].process = requests[i].process
                 /\ Rpc!Settled(ids, outcome)[i].outcome =
                       IF i \in ids THEN outcome ELSE requests[i].outcome
<1>1. \A i \in DOMAIN requests :
        LET s == IF i \in ids THEN [requests[i] EXCEPT !.outcome = outcome] ELSE requests[i]
        IN  /\ s \in RpcRequest /\ s.process = requests[i].process
            /\ s.outcome = IF i \in ids THEN outcome ELSE requests[i].outcome
  <2> SUFFICES ASSUME NEW i \in DOMAIN requests
               PROVE  LET s == IF i \in ids THEN [requests[i] EXCEPT !.outcome = outcome]
                                            ELSE requests[i]
                      IN  /\ s \in RpcRequest /\ s.process = requests[i].process
                          /\ s.outcome = IF i \in ids THEN outcome ELSE requests[i].outcome
    OBVIOUS
  <2>1. requests[i] \in RpcRequest
    BY DEF RpcInv
  <2> QED BY <2>1 DEF RpcRequest
<1>2. DOMAIN requests = 1..Len(requests) /\ Len(requests) \in Nat
  BY DEF RpcInv
<1> QED BY <1>1, <1>2 DEF Rpc!Settled

\* Requests that leave the map settle; a rejection follows a failure of their process.
LEMMA RequestsSettle ==
    ASSUME RpcInv, NEW ids \in SUBSET DOMAIN requests,
           NEW outcome \in {"none", "response", "rejected", "timeout"},
           requests' = Rpc!Settled(ids, outcome), pendingRequests' \in SUBSET (pendingRequests \ ids),
           UNCHANGED <<process, started>>, failed \subseteq failed',
           outcome = "rejected" => \A i \in ids : requests[i].process \in failed'
    PROVE  RpcInv'
<1>1. /\ DOMAIN requests' = DOMAIN requests /\ requests' \in Seq(RpcRequest)
      /\ \A i \in DOMAIN requests :
            /\ requests'[i].process = requests[i].process
            /\ requests'[i].outcome = IF i \in ids THEN outcome ELSE requests[i].outcome
  BY SettledRequests
<1> QED BY <1>1 DEF RpcInv, RequestsOfOwnProcess, Rpc!RequestsOfOwnProcess

\* The invariant of the client holds at first.
LEMMA RpcInit == Rpc!Init => RpcInv
BY RpcAssumption DEF Rpc!Init, RpcInv, RequestsOfOwnProcess, Rpc!RequestsOfOwnProcess

\* Every step of the client keeps its invariant.
LEMMA RpcStep ==
    ASSUME RpcInv, [Rpc!Next]_rpcVars
    PROVE  RpcInv'
<1> USE DEF RequestsOfOwnProcess, Rpc!RequestsOfOwnProcess
<1>0. /\ \A i \in DOMAIN requests : requests[i] \in RpcRequest
      /\ DOMAIN requests = 1..Len(requests) /\ Len(requests) \in Nat
  BY DEF RpcInv
<1>1. CASE Rpc!Start
  <2>1. pendingRequests = {}
    BY <1>1, <1>0 DEF Rpc!Start, RpcInv, Rpc!Processes, RpcRequest
  <2> QED BY <1>1, <2>1, RpcAssumption DEF Rpc!Start, RpcInv
<1>2. CASE Rpc!Stop
  BY <1>2 DEF Rpc!Stop, RpcInv
<1>3. CASE Rpc!StopEnds
  BY <1>3, RpcAssumption DEF Rpc!StopEnds, RpcInv
<1>4. CASE Rpc!Send
  <2> DEFINE new == [process |-> process, outcome |-> "none", answered |-> FALSE]
             n == Len(requests) + 1
  <2>1. /\ requests' = Append(requests, new) /\ process # 0
        /\ pendingRequests' = pendingRequests \cup {n}
        /\ UNCHANGED <<process, started, failed>>
    BY <1>4, <1>0 DEF Rpc!Send, Rpc!procVars
  <2>2. new \in RpcRequest
    BY <2>1 DEF RpcInv, Rpc!Processes, RpcRequest
  <2> HIDE DEF new
  <2>3. /\ requests' \in Seq(RpcRequest) /\ DOMAIN requests' = DOMAIN requests \cup {n}
        /\ requests'[n] = new /\ \A i \in DOMAIN requests : requests'[i] = requests[i]
    BY <2>1, <2>2, <1>0 DEF RpcInv
  <2> QED BY <2>1, <2>3 DEF RpcInv, new
<1>5. CASE Rpc!ReadLine
  <2>1. PICK line : /\ UNCHANGED <<process, started, failed>>
                    /\ IF line \in pendingRequests
                       THEN /\ requests' = Rpc!Settled({line}, "response")
                            /\ pendingRequests' = pendingRequests \ {line}
                       ELSE UNCHANGED <<requests, pendingRequests>>
    BY <1>5 DEF Rpc!ReadLine, Rpc!procVars
  <2>2. CASE line \in pendingRequests
    <3>1. {line} \in SUBSET DOMAIN requests
      BY <2>2 DEF RpcInv
    <3> QED BY <2>1, <2>2, <3>1, RequestsSettle
  <2> QED BY <2>1, <2>2 DEF RpcInv
<1>6. ASSUME NEW c \in Rpc!Processes, Rpc!Fails(c)
      PROVE  RpcInv'
  <2>1. CASE process = c
    <3>1. pendingRequests \in SUBSET DOMAIN requests
      BY DEF RpcInv
    <3>2. \A i \in pendingRequests : requests[i].process = c
      BY <2>1, <3>1 DEF RpcInv
    <3> QED BY <1>6, <2>1, <3>1, <3>2, RequestsSettle DEF Rpc!Fails
  <2>2. CASE process # c
    BY <1>6, <2>2 DEF Rpc!Fails, RpcInv
  <2> QED BY <2>1, <2>2
<1>7. ASSUME NEW c \in Rpc!Processes, Rpc!Answer(c)
      PROVE  RpcInv'
  <2>1. PICK i \in DOMAIN requests : /\ requests' = [requests EXCEPT ![i].answered = TRUE]
                                     /\ UNCHANGED <<process, started, failed, pendingRequests>>
    BY <1>7 DEF Rpc!Answer, Rpc!procVars
  <2>2. [requests[i] EXCEPT !.answered = TRUE] \in RpcRequest
    BY <1>0 DEF RpcRequest
  <2>3. requests' \in Seq(RpcRequest) /\ DOMAIN requests' = DOMAIN requests
    BY <2>1, <2>2, <1>0 DEF RpcInv
  <2>4. \A j \in DOMAIN requests : /\ requests'[j].process = requests[j].process
                                   /\ requests'[j].outcome = requests[j].outcome
    BY <2>1, <1>0 DEF RpcRequest
  <2> QED BY <2>1, <2>3, <2>4 DEF RpcInv
<1>8. ASSUME NEW i \in Rpc!Ids, Rpc!Timeout(i)
      PROVE  RpcInv'
  <2>1. {i} \in SUBSET DOMAIN requests
    BY <1>8 DEF Rpc!Timeout
  <2> QED BY <1>8, <2>1, RequestsSettle DEF Rpc!Timeout, Rpc!procVars
<1>9. ASSUME UNCHANGED <<process, started, failed, requests, pendingRequests>>
      PROVE  RpcInv'
  BY <1>9 DEF RpcInv
<1>10. ASSUME NEW c \in Rpc!Processes,
              Rpc!Exit(c) \/ Rpc!StdinFails(c) \/ Rpc!Answer(c) \/ Rpc!RunEnds(c)
       PROVE  RpcInv'
  BY <1>6, <1>7, <1>9, <1>10 DEF Rpc!Exit, Rpc!StdinFails, Rpc!RunEnds, Rpc!procVars
<1>11. ASSUME NEW w \in Waiters, Rpc!Listen(w) \/ Rpc!Unlisten(w)
       PROVE  RpcInv'
  BY <1>9, <1>11 DEF Rpc!Listen, Rpc!Unlisten, Rpc!procVars
<1>12. CASE UNCHANGED rpcVars
  BY <1>9, <1>12 DEF rpcVars
<1> QED BY <1>1, <1>2, <1>3, <1>4, <1>5, <1>8, <1>10, <1>11, <1>12 DEF Rpc!Next

\* However stops, starts, late exits, timers and late answers come one after the
\* other, the client's map holds unanswered requests to the process it talks to,
\* and rejects a request only when its own process has failed (rpc-client.ts).
THEOREM RequestsSettleByTheirProcess == Rpc!Spec => []RequestsOfOwnProcess
<1>1. Rpc!Init => RpcInv
  BY RpcInit, Zenon
<1>2. RpcInv /\ [Rpc!Next]_rpcVars => RpcInv'
  BY RpcStep, Zenon
<1>3. RpcInv => RequestsOfOwnProcess
  BY DEF RpcInv
<1> QED BY <1>1, <1>2, <1>3, PTL DEF Rpc!Spec, Rpc!vars, rpcVars

-----------------------------------------------------------------------------
(* Settings manager.                                                       *)

SettingsValues == [Fields -> Procs \cup {None}]
SettingsWrite == [scope : Settings!Scopes, values : SettingsValues, fields : SUBSET Fields]

SettingsTypes ==
    /\ disk \in [Settings!Scopes -> SettingsValues]
    /\ settings \in [Procs -> [Settings!Scopes -> SettingsValues]]
    /\ modified \in [Procs -> [Settings!Scopes -> SUBSET Fields]]
    /\ owed \in [Procs -> [Settings!Scopes -> SUBSET Fields]]
    /\ loadError \in [Procs -> [Settings!Scopes -> BOOLEAN]]
    /\ writeQueue \in [Procs -> Seq(SettingsWrite)]
    /\ trusted \in [Procs -> BOOLEAN] /\ cleared \in [Procs -> BOOLEAN]

\* What a process has marked or queued it has set itself.
OwnValues ==
    \A p \in Procs :
        /\ \A s \in Settings!Scopes : \A x \in modified[p][s] : settings[p][s][x] = p
        /\ \A k \in DOMAIN writeQueue[p] :
              \A x \in writeQueue[p][k].fields : writeQueue[p][k].values[x] = p

\* The write at a place of the queue is for this scope and contains the field.
Carries(q, k, s, x) == q[k].scope = s /\ x \in q[k].fields

\* What a process owes, one of its writes carries, or a mark.
OwedIsKept(p, s) ==
    \A x \in owed[p][s] :
        x \in modified[p][s] \/ \E k \in DOMAIN writeQueue[p] : Carries(writeQueue[p], k, s, x)

\* Each write of the scope has one at its place or behind it that carries the field.
CarriesLast(q, s, x) ==
    \A k \in DOMAIN q : q[k].scope = s => \E l \in DOMAIN q : k <= l /\ Carries(q, l, s, x)

\* A field that is owed and marked is part of the last write of its scope.
MarksAreQueued(p, s) ==
    \A x \in owed[p][s] \cap modified[p][s] : CarriesLast(writeQueue[p], s, x)

\* Until a write succeeds while others are queued, all that is owed is marked.
OwedIsMarked(p, s) == ~cleared[p] => owed[p][s] \subseteq modified[p][s]

\* Nothing is owed where nothing may be written.
NothingOwed(p) ==
    /\ \A s \in Settings!Scopes : loadError[p][s] => owed[p][s] = {}
    /\ ~trusted[p] => owed[p]["project"] = {}

OwedInv ==
    \A p \in Procs :
        /\ NothingOwed(p)
        /\ \A s \in Settings!Scopes :
              OwedIsKept(p, s) /\ MarksAreQueued(p, s) /\ OwedIsMarked(p, s)

\* The head and the tail of a queue.
LEMMA FirstOf ==
    ASSUME NEW S, NEW q \in Seq(S), q # <<>>
    PROVE  /\ Tail(q) \in Seq(S) /\ Tail(q) # q
           /\ 1 \in DOMAIN q /\ Head(q) = q[1] /\ Head(q) \in S
           /\ DOMAIN q \subseteq Nat /\ DOMAIN Tail(q) \subseteq Nat
           /\ \A k \in DOMAIN Tail(q) : k + 1 \in DOMAIN q /\ Tail(q)[k] = q[k + 1]
           /\ \A k \in DOMAIN q : k # 1 => k - 1 \in DOMAIN Tail(q)
<1>1. Len(q) \in Nat \ {0} /\ DOMAIN q = 1..Len(q)
  OBVIOUS
<1>2. /\ Tail(q) \in Seq(S) /\ Len(Tail(q)) = Len(q) - 1 /\ DOMAIN Tail(q) = 1..Len(Tail(q))
      /\ \A k \in 1..Len(q) - 1 : Tail(q)[k] = q[k + 1]
  BY <1>1
<1>3. DOMAIN Tail(q) = 1..Len(q) - 1
  BY <1>2
<1>4. /\ \A k \in 1..Len(q) : k # 1 => k - 1 \in 1..Len(q) - 1
      /\ \A k \in 1..Len(q) - 1 : k + 1 \in 1..Len(q)
      /\ 1 \in 1..Len(q) /\ 1..Len(q) \subseteq Nat /\ 1..Len(q) - 1 \subseteq Nat
  BY <1>1
<1>5. Tail(q) # q
  <2>1. \A n \in Nat : n - 1 # n
    OBVIOUS
  <2>2. Len(Tail(q)) = Len(q) - 1 /\ Len(q) \in Nat
    BY <1>1, <1>2, Zenon
  <2> QED BY <2>1, <2>2, Zenon
<1>6. Head(q) = q[1] /\ Head(q) \in S
  BY <1>1
<1> QED BY <1>1, <1>2, <1>3, <1>4, <1>5, <1>6, Zenon

\* A queue with an element behind it.
LEMMA LastOf ==
    ASSUME NEW S, NEW q \in Seq(S), NEW e \in S, NEW r, r = Append(q, e)
    PROVE  /\ r \in Seq(S) /\ Len(q) + 1 \in DOMAIN r /\ r[Len(q) + 1] = e
           /\ \A k \in DOMAIN q : k \in DOMAIN r /\ r[k] = q[k]
           /\ \A k \in DOMAIN r : k <= Len(q) + 1 /\ (k \in DOMAIN q \/ k = Len(q) + 1)
OBVIOUS

\* A write of marked fields over a file is a file.
LEMMA MergedIsFile ==
    ASSUME NEW file \in SettingsValues, NEW write \in SettingsWrite
    PROVE  Settings!Merged(file, write) \in SettingsValues
BY DEF Settings!Merged, SettingsValues, SettingsWrite

\* The invariant of the settings holds at first.
LEMMA SettingsTypesInit == Settings!Init => SettingsTypes /\ OwnValues /\ OwedInv
BY DEF Settings!Init, SettingsTypes, OwnValues, OwedInv, NothingOwed, OwedIsKept, MarksAreQueued,
       OwedIsMarked, Settings!Empty, SettingsValues, Settings!Scopes

\* What a write of the queue leaves, whether it succeeds or not.
LEMMA WriteLeaves ==
    ASSUME SettingsTypes, OwnValues, NEW p \in Procs, writeQueue[p] # <<>>,
           writeQueue' = [writeQueue EXCEPT ![p] = Tail(@)]
    PROVE  /\ writeQueue' \in [Procs -> Seq(SettingsWrite)] /\ writeQueue'[p] # writeQueue[p]
           /\ Head(writeQueue[p]) \in SettingsWrite
           /\ \A x \in Head(writeQueue[p]).fields : Head(writeQueue[p]).values[x] = p
           /\ \A q \in Procs : \A k \in DOMAIN writeQueue'[q] :
                 \A x \in writeQueue'[q][k].fields : writeQueue'[q][k].values[x] = q
<1> DEFINE q == writeQueue[p]
<1>1. q \in Seq(SettingsWrite)
  BY DEF SettingsTypes
<1>2. writeQueue'[p] = Tail(q) /\ \A r \in Procs : r # p => writeQueue'[r] = writeQueue[r]
  BY DEF SettingsTypes
<1>3. /\ Tail(q) \in Seq(SettingsWrite) /\ Tail(q) # q
      /\ 1 \in DOMAIN q /\ Head(q) = q[1] /\ Head(q) \in SettingsWrite
      /\ \A k \in DOMAIN Tail(q) : k + 1 \in DOMAIN q /\ Tail(q)[k] = q[k + 1]
  BY <1>1, FirstOf
<1>4. writeQueue' \in [Procs -> Seq(SettingsWrite)]
  BY <1>3 DEF SettingsTypes
<1>5. \A k \in DOMAIN q : \A x \in q[k].fields : q[k].values[x] = p
  BY DEF OwnValues
<1>6. \A r \in Procs : \A k \in DOMAIN writeQueue'[r] :
         \A x \in writeQueue'[r][k].fields : writeQueue'[r][k].values[x] = r
  <2> SUFFICES ASSUME NEW r \in Procs, NEW k \in DOMAIN writeQueue'[r],
                      NEW x \in writeQueue'[r][k].fields
               PROVE  writeQueue'[r][k].values[x] = r
    OBVIOUS
  <2>1. CASE r = p
    <3>1. k \in DOMAIN Tail(q) /\ writeQueue'[r][k] = Tail(q)[k]
      BY <1>2, <2>1
    <3> QED BY <1>3, <1>5, <2>1, <3>1
  <2>2. CASE r # p
    BY <1>2, <2>2 DEF OwnValues
  <2> QED BY <2>1, <2>2
<1> QED BY <1>2, <1>3, <1>4, <1>5, <1>6

\* What is owed when a write fails was owed before.
LEMMA LessIsOwed ==
    ASSUME SettingsTypes, NEW p \in Procs
    PROVE  /\ Settings!GivenUp(p) \in [Settings!Scopes -> SUBSET Fields]
           /\ \A s \in Settings!Scopes : Settings!GivenUp(p)[s] \subseteq owed[p][s]
<1>1. /\ owed[p] \in [Settings!Scopes -> SUBSET Fields]
      /\ \A s \in Settings!Scopes : owed[p][s] \in SUBSET Fields
  BY DEF SettingsTypes
<1>2. CASE ~cleared[p]
  BY <1>1, <1>2 DEF Settings!GivenUp
<1>3. CASE cleared[p]
  <2> DEFINE z == Head(writeQueue[p]).scope
             gone == Head(writeQueue[p]).fields \ modified[p][z]
  <2>1. Settings!GivenUp(p) = [owed[p] EXCEPT ![z] = @ \ gone]
    BY <1>3 DEF Settings!GivenUp
  <2> HIDE DEF z, gone
  <2> QED BY <1>1, <2>1
<1> QED BY <1>2, <1>3

\* What the settings' steps keep for the writes.
LEMMA SettingsStep ==
    ASSUME SettingsTypes, OwnValues, [Settings!Next]_settingsVars
    PROVE  SettingsTypes' /\ OwnValues'
<1>1. ASSUME NEW p \in Procs, NEW s \in Settings!Scopes, NEW x \in Fields, Settings!Set(p, s, x)
      PROVE  SettingsTypes' /\ OwnValues'
  <2> DEFINE new == [scope |-> s, values |-> settings'[p][s], fields |-> modified'[p][s]]
  <2>1. /\ settings' = [settings EXCEPT ![p][s][x] = p]
        /\ modified' = [modified EXCEPT ![p][s] = @ \cup {x}]
        /\ owed' = IF loadError[p][s] THEN owed ELSE [owed EXCEPT ![p][s] = @ \cup {x}]
        /\ writeQueue' = IF loadError[p][s] THEN writeQueue
                         ELSE [writeQueue EXCEPT ![p] = Append(@, new)]
        /\ UNCHANGED <<disk, loadError, trusted, cleared>>
    BY <1>1 DEF Settings!Set
  <2>2. /\ settings' \in [Procs -> [Settings!Scopes -> SettingsValues]]
        /\ modified' \in [Procs -> [Settings!Scopes -> SUBSET Fields]]
        /\ owed' \in [Procs -> [Settings!Scopes -> SUBSET Fields]]
    BY <2>1 DEF SettingsTypes, SettingsValues
  <2>3. \A q \in Procs : \A t \in Settings!Scopes : \A y \in modified'[q][t] : settings'[q][t][y] = q
    BY <2>1 DEF SettingsTypes, SettingsValues, OwnValues
  <2>4. new \in SettingsWrite /\ \A y \in new.fields : new.values[y] = p
    BY <2>2, <2>3 DEF SettingsWrite
  <2> HIDE DEF new
  <2>5. /\ writeQueue' \in [Procs -> Seq(SettingsWrite)]
        /\ \A q \in Procs : \A k \in DOMAIN writeQueue'[q] :
              \A y \in writeQueue'[q][k].fields : writeQueue'[q][k].values[y] = q
    <3>1. CASE loadError[p][s]
      BY <2>1, <3>1 DEF SettingsTypes, OwnValues
    <3>2. CASE ~loadError[p][s]
      <4> DEFINE q == writeQueue[p]
      <4>1. /\ q \in Seq(SettingsWrite) /\ writeQueue'[p] = Append(q, new)
            /\ \A r \in Procs : r # p => writeQueue'[r] = writeQueue[r]
            /\ DOMAIN writeQueue' = Procs
            /\ writeQueue' = [r \in Procs |-> IF r = p THEN Append(q, new) ELSE writeQueue[r]]
        BY <2>1, <3>2 DEF SettingsTypes
      <4> HIDE DEF q
      <4>2. /\ writeQueue'[p] \in Seq(SettingsWrite) /\ writeQueue'[p][Len(q) + 1] = new
            /\ \A k \in DOMAIN q : writeQueue'[p][k] = q[k]
            /\ \A k \in DOMAIN writeQueue'[p] : k \in DOMAIN q \/ k = Len(q) + 1
        BY <4>1, <2>4, LastOf
      <4>3. writeQueue' \in [Procs -> Seq(SettingsWrite)]
        BY <4>1, <4>2 DEF SettingsTypes
      <4>4. ASSUME NEW r \in Procs, NEW k \in DOMAIN writeQueue'[r],
                   NEW y \in writeQueue'[r][k].fields
            PROVE  writeQueue'[r][k].values[y] = r
        BY <4>1, <4>2, <2>4 DEF OwnValues, q
      <4> QED BY <4>3, <4>4
    <3> QED BY <3>1, <3>2
  <2> QED BY <2>1, <2>2, <2>3, <2>5 DEF SettingsTypes, OwnValues
<1>2. ASSUME NEW p \in Procs, Settings!Write(p)
      PROVE  SettingsTypes' /\ OwnValues'
  <2> DEFINE write == Head(writeQueue[p])
  <2>1. /\ writeQueue[p] # <<>> /\ writeQueue' = [writeQueue EXCEPT ![p] = Tail(@)]
        /\ disk' = [disk EXCEPT ![write.scope] = Settings!Merged(@, write)]
        /\ modified' = [modified EXCEPT ![p][write.scope] = {}]
        /\ owed' = [owed EXCEPT ![p][write.scope] = @ \ write.fields]
        /\ cleared' = [cleared EXCEPT ![p] = writeQueue'[p] # <<>>]
        /\ UNCHANGED <<settings, loadError, trusted>>
    BY <1>2 DEF Settings!Write
  <2>2. write \in SettingsWrite /\ write.scope \in Settings!Scopes
    BY <2>1, WriteLeaves DEF SettingsWrite
  <2> HIDE DEF write
  <2>3. Settings!Merged(disk[write.scope], write) \in SettingsValues
    BY <2>2, MergedIsFile DEF SettingsTypes
  <2>4. disk' \in [Settings!Scopes -> SettingsValues]
    BY <2>1, <2>2, <2>3 DEF SettingsTypes
  <2>5. /\ modified' \in [Procs -> [Settings!Scopes -> SUBSET Fields]]
        /\ owed' \in [Procs -> [Settings!Scopes -> SUBSET Fields]]
        /\ cleared' \in [Procs -> BOOLEAN]
    BY <2>1, <2>2 DEF SettingsTypes
  <2>6. \A q \in Procs : \A t \in Settings!Scopes : modified'[q][t] \subseteq modified[q][t]
    BY <2>1, <2>2 DEF SettingsTypes
  <2> QED BY <2>1, <2>4, <2>5, <2>6, WriteLeaves DEF SettingsTypes, OwnValues
<1>3. ASSUME NEW p \in Procs, Settings!WriteFails(p) \/ Settings!WriteRefused(p)
      PROVE  SettingsTypes' /\ OwnValues'
  <2>1. /\ writeQueue[p] # <<>> /\ writeQueue' = [writeQueue EXCEPT ![p] = Tail(@)]
        /\ cleared' = [cleared EXCEPT ![p] = @ /\ writeQueue'[p] # <<>>]
        /\ owed' = owed \/ owed' = [owed EXCEPT ![p] = Settings!GivenUp(p)]
        /\ UNCHANGED <<disk, settings, modified, loadError, trusted>>
    BY <1>3 DEF Settings!WriteFails, Settings!WriteRefused
  <2>2. cleared' \in [Procs -> BOOLEAN] /\ owed' \in [Procs -> [Settings!Scopes -> SUBSET Fields]]
    BY <2>1, LessIsOwed DEF SettingsTypes
  <2> QED BY <2>1, <2>2, WriteLeaves DEF SettingsTypes, OwnValues
<1>4. ASSUME NEW p \in Procs, Settings!Reload(p)
      PROVE  SettingsTypes' /\ OwnValues'
  <2>1. PICK broken \in SUBSET Settings!Scopes :
           /\ settings' = [settings EXCEPT ![p] =
                [s \in Settings!Scopes |-> IF s \in broken THEN @[s] ELSE Settings!Loaded(p, s)]]
           /\ loadError' = [loadError EXCEPT ![p] = [s \in Settings!Scopes |-> s \in broken]]
           /\ modified' = [modified EXCEPT ![p] = [s \in Settings!Scopes |-> {}]]
           /\ owed' = [owed EXCEPT ![p] = [s \in Settings!Scopes |-> {}]]
           /\ UNCHANGED <<disk, writeQueue, trusted, cleared>>
    BY <1>4 DEF Settings!Reload
  <2>2. \A s \in Settings!Scopes : Settings!Loaded(p, s) \in SettingsValues
    BY DEF Settings!Loaded, Settings!Empty, SettingsValues, SettingsTypes
  <2>3. settings' \in [Procs -> [Settings!Scopes -> SettingsValues]]
    BY <2>1, <2>2 DEF SettingsTypes
  <2>4. /\ modified' \in [Procs -> [Settings!Scopes -> SUBSET Fields]]
        /\ owed' \in [Procs -> [Settings!Scopes -> SUBSET Fields]]
        /\ loadError' \in [Procs -> [Settings!Scopes -> BOOLEAN]]
    BY <2>1 DEF SettingsTypes
  <2>5. OwnValues'
    BY <2>1 DEF SettingsTypes, OwnValues
  <2> QED BY <2>1, <2>3, <2>4, <2>5 DEF SettingsTypes
<1>5. ASSUME NEW p \in Procs, Settings!SetProjectTrusted(p)
      PROVE  SettingsTypes' /\ OwnValues'
  <2>1. PICK broken \in BOOLEAN :
           /\ trusted' = [trusted EXCEPT ![p] = ~@]
           /\ settings' = [settings EXCEPT ![p]["project"] =
                            IF broken \/ trusted[p] THEN Settings!Empty ELSE disk["project"]]
           /\ loadError' = [loadError EXCEPT ![p]["project"] = broken]
           /\ modified' = [modified EXCEPT ![p]["project"] = {}]
           /\ owed' = [owed EXCEPT ![p]["project"] = {}]
           /\ UNCHANGED <<disk, writeQueue, cleared>>
    BY <1>5 DEF Settings!SetProjectTrusted
  <2>2. Settings!Empty \in SettingsValues /\ disk["project"] \in SettingsValues
    BY DEF Settings!Empty, SettingsValues, SettingsTypes, Settings!Scopes
  <2>3. settings' \in [Procs -> [Settings!Scopes -> SettingsValues]]
    BY <2>1, <2>2 DEF SettingsTypes, Settings!Scopes
  <2>4. /\ modified' \in [Procs -> [Settings!Scopes -> SUBSET Fields]]
        /\ owed' \in [Procs -> [Settings!Scopes -> SUBSET Fields]]
        /\ loadError' \in [Procs -> [Settings!Scopes -> BOOLEAN]]
        /\ trusted' \in [Procs -> BOOLEAN]
    BY <2>1 DEF SettingsTypes, Settings!Scopes
  <2>5. OwnValues'
    BY <2>1 DEF SettingsTypes, OwnValues, Settings!Scopes
  <2> QED BY <2>1, <2>3, <2>4, <2>5 DEF SettingsTypes
<1>6. CASE UNCHANGED settingsVars
  BY <1>6 DEF settingsVars, SettingsTypes, OwnValues
<1> QED BY <1>1, <1>2, <1>3, <1>4, <1>5, <1>6 DEF Settings!Next

\* A write leaves the fields alone that its process has not changed, whatever the
\* other processes have written since it was queued, and a project's settings
\* are written by a process that trusts it (settings-manager.ts).
THEOREM WritesKeepOthers == Settings!Spec => Settings!OthersAreKept
<1>1. Settings!Init => SettingsTypes /\ OwnValues
  BY SettingsTypesInit
<1>2. SettingsTypes /\ OwnValues /\ [Settings!Next]_settingsVars => SettingsTypes' /\ OwnValues'
  BY SettingsStep, Zenon
<1> DEFINE Kept == \A s \in Settings!Scopes, x \in Fields : disk'[s][x] # disk[s][x] =>
                      \E p \in Procs : /\ writeQueue'[p] # writeQueue[p] /\ disk'[s][x] = p
                                       /\ s = "project" => trusted[p]
<1>3. ASSUME SettingsTypes, OwnValues, [Settings!Next]_settingsVars
      PROVE  Kept
  <2> SUFFICES ASSUME NEW s \in Settings!Scopes, NEW x \in Fields, disk'[s][x] # disk[s][x]
               PROVE  \E p \in Procs : /\ writeQueue'[p] # writeQueue[p] /\ disk'[s][x] = p
                                       /\ s = "project" => trusted[p]
    OBVIOUS
  <2>1. PICK p \in Procs : Settings!Write(p)
    BY <1>3 DEF Settings!Next, Settings!Set, Settings!WriteFails, Settings!WriteRefused,
                Settings!Reload, Settings!SetProjectTrusted, settingsVars
  <2> DEFINE write == Head(writeQueue[p])
  <2>2. /\ writeQueue[p] # <<>> /\ writeQueue' = [writeQueue EXCEPT ![p] = Tail(@)]
        /\ disk' = [disk EXCEPT ![write.scope] = Settings!Merged(@, write)]
        /\ write.scope = "project" => trusted[p]
    BY <2>1 DEF Settings!Write, Settings!MayWrite
  <2>3. /\ write \in SettingsWrite /\ writeQueue'[p] # writeQueue[p]
        /\ \A y \in write.fields : write.values[y] = p
    BY <2>2, <1>3, WriteLeaves
  <2> HIDE DEF write
  <2>4. write.scope = s /\ disk'[s] = Settings!Merged(disk[s], write)
    BY <2>2, <2>3, <1>3 DEF SettingsTypes
  <2>5. x \in write.fields /\ disk'[s][x] = write.values[x]
    BY <2>4 DEF Settings!Merged
  <2> QED BY <2>2, <2>3, <2>4, <2>5
<1>4. SettingsTypes /\ OwnValues /\ [Settings!Next]_settingsVars => [Kept]_settingsVars
  BY <1>3, Zenon
<1> QED BY <1>1, <1>2, <1>4, PTL DEF Settings!Spec, Settings!OthersAreKept, Settings!vars, settingsVars

\* Popping the head of a queue keeps the writes of a field that are not the head.
LEMMA CarriesBehind ==
    ASSUME NEW q \in Seq(SettingsWrite), q # <<>>, NEW s, NEW x, NEW k \in DOMAIN q,
           Carries(q, k, s, x), ~Carries(q, 1, s, x)
    PROVE  k - 1 \in DOMAIN Tail(q) /\ Carries(Tail(q), k - 1, s, x)
<1>1. k # 1 /\ k \in Nat /\ k - 1 \in DOMAIN Tail(q)
  BY FirstOf, Zenon
<1>2. (k - 1) + 1 = k
  BY <1>1
<1>3. Tail(q)[k - 1] = q[(k - 1) + 1]
  BY <1>1, FirstOf, Zenon
<1> QED BY <1>1, <1>2, <1>3 DEF Carries

\* The last write that carries a field stays the last when the first write is taken.
LEMMA LastBehind ==
    ASSUME NEW q \in Seq(SettingsWrite), q # <<>>, NEW s, NEW x, CarriesLast(q, s, x)
    PROVE  CarriesLast(Tail(q), s, x)
<1> SUFFICES ASSUME NEW k \in DOMAIN Tail(q), Tail(q)[k].scope = s
             PROVE  \E l \in DOMAIN Tail(q) : k <= l /\ Carries(Tail(q), l, s, x)
  BY DEF CarriesLast
<1>1. k \in Nat /\ k + 1 \in DOMAIN q /\ Tail(q)[k] = q[k + 1]
  BY FirstOf, Zenon
<1>2. PICK l \in DOMAIN q : k + 1 <= l /\ Carries(q, l, s, x)
  BY <1>1 DEF CarriesLast
<1>3. l \in Nat
  BY FirstOf, Zenon
<1>4. l # 1 /\ k <= l - 1 /\ (l - 1) + 1 = l
  BY <1>1, <1>2, <1>3
<1>5. l - 1 \in DOMAIN Tail(q)
  BY <1>4, FirstOf, Zenon
<1>6. Tail(q)[l - 1] = q[(l - 1) + 1]
  BY <1>5, FirstOf, Zenon
<1>7. Carries(Tail(q), l - 1, s, x)
  BY <1>2, <1>4, <1>6 DEF Carries
<1> QED BY <1>4, <1>5, <1>7

\* What an appended write carries, and what those before it still carry.
LEMMA CarriesAppended ==
    ASSUME NEW q \in Seq(SettingsWrite), NEW e \in SettingsWrite, NEW s, NEW x
    PROVE  /\ e.scope = s /\ x \in e.fields =>
                 /\ CarriesLast(Append(q, e), s, x)
                 /\ \E k \in DOMAIN Append(q, e) : Carries(Append(q, e), k, s, x)
           /\ e.scope # s /\ CarriesLast(q, s, x) => CarriesLast(Append(q, e), s, x)
           /\ \A k \in DOMAIN q : Carries(q, k, s, x) => /\ k \in DOMAIN Append(q, e)
                                                         /\ Carries(Append(q, e), k, s, x)
<1> DEFINE r == Append(q, e)
           n == Len(q) + 1
<1>1. /\ n \in DOMAIN r /\ r[n] = e
      /\ \A k \in DOMAIN q : k \in DOMAIN r /\ r[k] = q[k]
      /\ \A k \in DOMAIN r : k <= n /\ (k \in DOMAIN q \/ k = n)
  BY LastOf
<1> HIDE DEF r, n
<1>2. \A k \in DOMAIN q : Carries(q, k, s, x) => k \in DOMAIN r /\ Carries(r, k, s, x)
  BY <1>1 DEF Carries
<1>3. ASSUME e.scope = s, x \in e.fields
      PROVE  CarriesLast(r, s, x) /\ \E k \in DOMAIN r : Carries(r, k, s, x)
  BY <1>1, <1>3 DEF CarriesLast, Carries
<1>4. ASSUME e.scope # s, CarriesLast(q, s, x)
      PROVE  CarriesLast(r, s, x)
  <2> SUFFICES ASSUME NEW k \in DOMAIN r, r[k].scope = s
               PROVE  \E l \in DOMAIN r : k <= l /\ Carries(r, l, s, x)
    BY DEF CarriesLast
  <2>1. k \in DOMAIN q /\ q[k].scope = s
    BY <1>1, <1>4
  <2>2. PICK l \in DOMAIN q : k <= l /\ Carries(q, l, s, x)
    BY <2>1, <1>4 DEF CarriesLast
  <2> QED BY <2>2, <1>2
<1> QED BY <1>2, <1>3, <1>4 DEF r

\* Every step of a process keeps, for itself and for the others, that what is owed
\* is queued or marked.
LEMMA OwedStep ==
    ASSUME SettingsTypes, OwnValues, OwedInv, [Settings!Next]_settingsVars
    PROVE  OwedInv'
<1> DEFINE Kept(r, t) == OwedIsKept(r, t) /\ MarksAreQueued(r, t) /\ OwedIsMarked(r, t)
\* A process and scope whose state a step leaves alone.
<1>0. ASSUME NEW r \in Procs, NEW t \in Settings!Scopes,
             owed'[r][t] \subseteq owed[r][t], modified'[r][t] = modified[r][t],
             writeQueue'[r] = writeQueue[r], cleared'[r] = cleared[r]
      PROVE  Kept(r, t)'
  BY <1>0 DEF OwedInv, OwedIsKept, MarksAreQueued, OwedIsMarked
\* One that owes nothing.
<1>00. ASSUME NEW r \in Procs, NEW t \in Settings!Scopes, owed'[r][t] = {}
       PROVE  Kept(r, t)'
  BY <1>00 DEF OwedIsKept, MarksAreQueued, OwedIsMarked
<1>1. ASSUME NEW p \in Procs, NEW s \in Settings!Scopes, NEW x \in Fields, Settings!Set(p, s, x)
      PROVE  OwedInv'
  <2> DEFINE new == [scope |-> s, values |-> settings'[p][s], fields |-> modified'[p][s]]
             q == writeQueue[p]
  <2>1. /\ modified' = [modified EXCEPT ![p][s] = @ \cup {x}]
        /\ owed' = IF loadError[p][s] THEN owed ELSE [owed EXCEPT ![p][s] = @ \cup {x}]
        /\ writeQueue' = IF loadError[p][s] THEN writeQueue
                         ELSE [writeQueue EXCEPT ![p] = Append(@, new)]
        /\ s = "project" => trusted[p]
        /\ UNCHANGED <<loadError, trusted, cleared>>
    BY <1>1 DEF Settings!Set
  <2>2. \A r \in Procs : NothingOwed(r)'
    BY <2>1 DEF OwedInv, NothingOwed, SettingsTypes
  <2>3. ASSUME NEW r \in Procs, NEW t \in Settings!Scopes, r # p \/ (loadError[p][s] /\ t # s)
        PROVE  Kept(r, t)'
    <3>1. /\ owed'[r][t] = owed[r][t] /\ modified'[r][t] = modified[r][t]
          /\ writeQueue'[r] = writeQueue[r] /\ cleared'[r] = cleared[r]
      BY <2>1, <2>3 DEF SettingsTypes
    <3> QED BY <3>1, <1>0
  <2>4. ASSUME loadError[p][s]
        PROVE  Kept(p, s)'
    <3>1. owed'[p][s] = {}
      BY <2>1, <2>4 DEF OwedInv, NothingOwed
    <3> QED BY <3>1, <1>00
  <2>5. ASSUME NEW t \in Settings!Scopes, ~loadError[p][s]
        PROVE  Kept(p, t)'
    <3>1. q \in Seq(SettingsWrite) /\ writeQueue'[p] = Append(q, new)
      BY <2>1, <2>5 DEF SettingsTypes
    <3>2. new \in SettingsWrite
      <4>1. settings'[p][s] \in SettingsValues /\ modified'[p][s] \in SUBSET Fields
        BY <1>1, SettingsStep DEF Settings!Next, SettingsTypes
      <4> QED BY <4>1 DEF SettingsWrite
    <3>3. new.scope = s /\ new.fields = modified'[p][s]
      OBVIOUS
    <3>4. /\ modified'[p][t] = IF t = s THEN modified[p][t] \cup {x} ELSE modified[p][t]
          /\ owed'[p][t] = IF t = s THEN owed[p][t] \cup {x} ELSE owed[p][t]
          /\ cleared'[p] = cleared[p]
      BY <2>1, <2>5 DEF SettingsTypes
    <3> HIDE DEF q, new
    <3>5. OwedIsKept(p, t)'
      <4> SUFFICES ASSUME NEW y \in owed'[p][t], y \notin modified'[p][t]
                   PROVE  \E k \in DOMAIN writeQueue'[p] : Carries(writeQueue'[p], k, t, y)
        BY DEF OwedIsKept
      <4>1. y \in owed[p][t] /\ y \notin modified[p][t]
        BY <3>4
      <4>2. PICK k \in DOMAIN q : Carries(q, k, t, y)
        BY <4>1 DEF OwedInv, OwedIsKept, q
      <4> QED BY <4>2, <3>1, <3>2, CarriesAppended
    <3>6. MarksAreQueued(p, t)'
      <4> SUFFICES ASSUME NEW y \in owed'[p][t] \cap modified'[p][t]
                   PROVE  CarriesLast(writeQueue'[p], t, y)
        BY DEF MarksAreQueued
      <4>1. CASE t = s
        BY <4>1, <3>1, <3>2, <3>3, CarriesAppended
      <4>2. CASE t # s
        <5>1. CarriesLast(q, t, y)
          BY <4>2, <3>4 DEF OwedInv, MarksAreQueued, q
        <5> QED BY <4>2, <5>1, <3>1, <3>2, <3>3, CarriesAppended
      <4> QED BY <4>1, <4>2
    <3>7. OwedIsMarked(p, t)'
      BY <3>4 DEF OwedInv, OwedIsMarked
    <3> QED BY <3>5, <3>6, <3>7
  <2>6. \A r \in Procs, t \in Settings!Scopes : Kept(r, t)'
    <3> SUFFICES ASSUME NEW r \in Procs, NEW t \in Settings!Scopes
                 PROVE  Kept(r, t)'
      OBVIOUS
    <3>1. CASE r # p \/ (loadError[p][s] /\ t # s)
      BY <3>1, <2>3
    <3>2. CASE r = p /\ loadError[p][s] /\ t = s
      BY <3>2, <2>4
    <3>3. CASE r = p /\ ~loadError[p][s]
      BY <3>3, <2>5
    <3> QED BY <3>1, <3>2, <3>3, Zenon
  <2> QED BY <2>2, <2>6 DEF OwedInv
<1>2. ASSUME NEW p \in Procs, Settings!Write(p)
      PROVE  OwedInv'
  <2> DEFINE write == Head(writeQueue[p])
             q == writeQueue[p]
  <2>1. /\ q # <<>> /\ writeQueue' = [writeQueue EXCEPT ![p] = Tail(@)]
        /\ modified' = [modified EXCEPT ![p][write.scope] = {}]
        /\ owed' = [owed EXCEPT ![p][write.scope] = @ \ write.fields]
        /\ cleared' = [cleared EXCEPT ![p] = writeQueue'[p] # <<>>]
        /\ UNCHANGED <<loadError, trusted>>
    BY <1>2 DEF Settings!Write
  <2>2. /\ q \in Seq(SettingsWrite) /\ writeQueue'[p] = Tail(q) /\ write = q[1] /\ 1 \in DOMAIN q
        /\ write \in SettingsWrite /\ write.scope \in Settings!Scopes
    <3>1. q \in Seq(SettingsWrite) /\ writeQueue'[p] = Tail(q)
      BY <2>1 DEF SettingsTypes
    <3>2. write = q[1] /\ 1 \in DOMAIN q /\ write \in SettingsWrite
      BY <2>1, <3>1, FirstOf
    <3>3. write.scope \in Settings!Scopes
      BY <3>2 DEF SettingsWrite
    <3> QED BY <3>1, <3>2, <3>3
  <2>3. \A r \in Procs : NothingOwed(r)'
    BY <2>1, <2>2 DEF OwedInv, NothingOwed, SettingsTypes
  <2>4. ASSUME NEW r \in Procs, NEW t \in Settings!Scopes, r # p
        PROVE  Kept(r, t)'
    <3>1. /\ owed'[r][t] = owed[r][t] /\ modified'[r][t] = modified[r][t]
          /\ writeQueue'[r] = writeQueue[r] /\ cleared'[r] = cleared[r]
      BY <2>1, <2>2, <2>4 DEF SettingsTypes
    <3> QED BY <3>1, <1>0
  <2>5. ASSUME NEW t \in Settings!Scopes
        PROVE  Kept(p, t)'
    <3>1. /\ modified'[p][t] = IF t = write.scope THEN {} ELSE modified[p][t]
          /\ owed'[p][t] = IF t = write.scope THEN owed[p][t] \ write.fields ELSE owed[p][t]
          /\ cleared'[p] = (writeQueue'[p] # <<>>)
      BY <2>1, <2>2 DEF SettingsTypes
    <3> HIDE DEF write, q
    <3>2. OwedIsKept(p, t)'
      <4> SUFFICES ASSUME NEW y \in owed'[p][t], y \notin modified'[p][t]
                   PROVE  \E k \in DOMAIN Tail(q) : Carries(Tail(q), k, t, y)
        BY <2>2 DEF OwedIsKept
      <4>1. y \in owed[p][t] /\ ~Carries(q, 1, t, y)
        BY <3>1, <2>2 DEF Carries
      <4>2. \E k \in DOMAIN q : Carries(q, k, t, y)
        <5>1. CASE t = write.scope /\ y \in modified[p][t]
          <6>1. CarriesLast(q, t, y) /\ q[1].scope = t
            BY <4>1, <5>1, <2>2 DEF OwedInv, MarksAreQueued, q
          <6> QED BY <6>1, <2>2 DEF CarriesLast
        <5>2. CASE y \notin modified[p][t]
          BY <4>1, <5>2 DEF OwedInv, OwedIsKept, q
        <5> QED BY <3>1, <5>1, <5>2
      <4>3. PICK k \in DOMAIN q : Carries(q, k, t, y)
        BY <4>2
      <4> QED BY <4>1, <4>3, <2>1, <2>2, CarriesBehind
    <3>3. MarksAreQueued(p, t)'
      <4> SUFFICES ASSUME NEW y \in owed'[p][t] \cap modified'[p][t]
                   PROVE  CarriesLast(Tail(q), t, y)
        BY <2>2 DEF MarksAreQueued
      <4>1. CarriesLast(q, t, y)
        BY <3>1 DEF OwedInv, MarksAreQueued, q
      <4> QED BY <4>1, <2>1, <2>2, LastBehind
    <3>4. OwedIsMarked(p, t)'
      <4> SUFFICES ASSUME Tail(q) = <<>>
                   PROVE  owed'[p][t] \subseteq modified'[p][t]
        BY <2>2, <3>1 DEF OwedIsMarked
      <4>1. DOMAIN writeQueue'[p] = {}
        BY <2>2
      <4> QED BY <4>1, <3>2 DEF OwedIsKept
    <3> QED BY <3>2, <3>3, <3>4
  <2> QED BY <2>3, <2>4, <2>5 DEF OwedInv
<1>3. ASSUME NEW p \in Procs, Settings!WriteFails(p) \/ Settings!WriteRefused(p)
      PROVE  OwedInv'
  <2> DEFINE q == writeQueue[p]
  <2>1. /\ q # <<>> /\ writeQueue' = [writeQueue EXCEPT ![p] = Tail(@)]
        /\ cleared' = [cleared EXCEPT ![p] = @ /\ writeQueue'[p] # <<>>]
        /\ owed' = owed \/ owed' = [owed EXCEPT ![p] = Settings!GivenUp(p)]
        /\ UNCHANGED <<modified, loadError, trusted>>
    BY <1>3 DEF Settings!WriteFails, Settings!WriteRefused
  <2>2. /\ q \in Seq(SettingsWrite) /\ writeQueue'[p] = Tail(q) /\ Head(q) = q[1]
    BY <2>1, FirstOf DEF SettingsTypes
  <2>0. \A r \in Procs, t \in Settings!Scopes : owed'[r][t] \subseteq owed[r][t]
    BY <2>1, LessIsOwed DEF SettingsTypes
  <2>3. \A r \in Procs : NothingOwed(r)'
    BY <2>0, <2>1 DEF OwedInv, NothingOwed, Settings!Scopes
  <2>4. ASSUME NEW r \in Procs, NEW t \in Settings!Scopes, r # p
        PROVE  Kept(r, t)'
    <3>1. /\ modified'[r][t] = modified[r][t]
          /\ writeQueue'[r] = writeQueue[r] /\ cleared'[r] = cleared[r]
      BY <2>1, <2>4 DEF SettingsTypes
    <3> QED BY <2>0, <3>1, <1>0
  <2>5. ASSUME NEW t \in Settings!Scopes
        PROVE  Kept(p, t)'
    \* A write that fails leaves the marks, or they were cleared and what it carries
    \* is given up; a refused one carried nothing that is owed.
    <3>1. \A y \in owed'[p][t] : Carries(q, 1, t, y) => y \in modified[p][t]
      <4>1. CASE Settings!WriteFails(p)
        <5>1. owed'[p] = Settings!GivenUp(p)
          BY <4>1 DEF Settings!WriteFails, SettingsTypes
        <5>2. CASE cleared[p]
          BY <2>2, <5>1, <5>2 DEF Settings!GivenUp, Carries, SettingsTypes
        <5>3. CASE ~cleared[p]
          BY <5>1, <5>3 DEF Settings!GivenUp, OwedInv, OwedIsMarked
        <5> QED BY <5>2, <5>3
      <4>2. CASE Settings!WriteRefused(p)
        <5>1. q[1].scope = "project" /\ ~trusted[p]
          BY <4>2, <2>2 DEF Settings!WriteRefused, Settings!MayWrite
        <5> QED BY <2>0, <5>1 DEF Carries, OwedInv, NothingOwed
      <4> QED BY <4>1, <4>2, <1>3
    <3>2. cleared'[p] = (cleared[p] /\ Tail(q) # <<>>)
      BY <2>1, <2>2 DEF SettingsTypes
    <3> HIDE DEF q
    <3>3. OwedIsKept(p, t)'
      <4> SUFFICES ASSUME NEW y \in owed'[p][t], y \notin modified[p][t]
                   PROVE  \E k \in DOMAIN Tail(q) : Carries(Tail(q), k, t, y)
        BY <2>1, <2>2 DEF OwedIsKept
      <4>1. PICK k \in DOMAIN q : Carries(q, k, t, y)
        BY <2>0 DEF OwedInv, OwedIsKept, q
      <4> QED BY <3>1, <4>1, <2>1, <2>2, CarriesBehind
    <3>4. MarksAreQueued(p, t)'
      <4> SUFFICES ASSUME NEW y \in owed'[p][t] \cap modified[p][t]
                   PROVE  CarriesLast(Tail(q), t, y)
        BY <2>1, <2>2 DEF MarksAreQueued
      <4>1. CarriesLast(q, t, y)
        BY <2>0 DEF OwedInv, MarksAreQueued, q
      <4> QED BY <4>1, <2>1, <2>2, LastBehind
    <3>5. OwedIsMarked(p, t)'
      <4>1. CASE Tail(q) = <<>>
        <5>1. DOMAIN writeQueue'[p] = {}
          BY <4>1, <2>2
        <5> QED BY <5>1, <3>3 DEF OwedIsMarked, OwedIsKept
      <4>2. CASE Tail(q) # <<>>
        BY <4>2, <3>2, <2>0, <2>1 DEF OwedInv, OwedIsMarked
      <4> QED BY <4>1, <4>2
    <3> QED BY <3>3, <3>4, <3>5
  <2> QED BY <2>3, <2>4, <2>5 DEF OwedInv
<1>4. ASSUME NEW p \in Procs, Settings!Reload(p)
      PROVE  OwedInv'
  <2>1. /\ owed' = [owed EXCEPT ![p] = [s \in Settings!Scopes |-> {}]]
        /\ modified' = [modified EXCEPT ![p] = [s \in Settings!Scopes |-> {}]]
        /\ \A r \in Procs : r # p => loadError'[r] = loadError[r]
        /\ UNCHANGED <<writeQueue, trusted, cleared>>
    BY <1>4 DEF Settings!Reload, SettingsTypes
  <2>2. \A t \in Settings!Scopes : owed'[p][t] = {}
    BY <2>1 DEF SettingsTypes
  <2>3. \A r \in Procs : r # p => owed'[r] = owed[r] /\ modified'[r] = modified[r]
    BY <2>1 DEF SettingsTypes
  <2>4. \A r \in Procs : NothingOwed(r)'
    BY <2>1, <2>2, <2>3 DEF OwedInv, NothingOwed, Settings!Scopes
  <2>5. \A r \in Procs, t \in Settings!Scopes : Kept(r, t)'
    BY <1>0, <1>00, <2>1, <2>2, <2>3
  <2> QED BY <2>4, <2>5 DEF OwedInv
<1>5. ASSUME NEW p \in Procs, Settings!SetProjectTrusted(p)
      PROVE  OwedInv'
  <2>1. /\ owed' = [owed EXCEPT ![p]["project"] = {}]
        /\ modified' = [modified EXCEPT ![p]["project"] = {}]
        /\ \A r \in Procs, t \in Settings!Scopes :
              r # p \/ t # "project" => loadError'[r][t] = loadError[r][t]
        /\ \A r \in Procs : r # p => trusted'[r] = trusted[r]
        /\ UNCHANGED <<writeQueue, cleared>>
    BY <1>5 DEF Settings!SetProjectTrusted, SettingsTypes
  <2>2. owed'[p]["project"] = {}
    BY <2>1 DEF SettingsTypes, Settings!Scopes
  <2>3. \A r \in Procs, t \in Settings!Scopes : r # p \/ t # "project" =>
            owed'[r][t] = owed[r][t] /\ modified'[r][t] = modified[r][t]
    BY <2>1 DEF SettingsTypes
  <2>4. \A r \in Procs : NothingOwed(r)'
    BY <2>1, <2>2, <2>3 DEF OwedInv, NothingOwed, Settings!Scopes
  <2>5. \A r \in Procs, t \in Settings!Scopes : Kept(r, t)'
    BY <1>0, <1>00, <2>1, <2>2, <2>3
  <2> QED BY <2>4, <2>5 DEF OwedInv
<1>6. CASE UNCHANGED settingsVars
  BY <1>6 DEF settingsVars, OwedInv, NothingOwed, OwedIsKept, MarksAreQueued, OwedIsMarked
<1> QED BY <1>1, <1>2, <1>3, <1>4, <1>5, <1>6 DEF Settings!Next

\* A setting that was changed is queued, or marked for the next save, until it is
\* written, whatever fails in between (settings-manager.ts); what its own write loses
\* by failing behind one that took its mark is no longer owed, all else still is.
THEOREM ChangesAreNotForgotten == Settings!Spec => []ChangesStayMarked
<1> DEFINE Inv == SettingsTypes /\ OwnValues /\ OwedInv
<1>1. Settings!Init => Inv
  BY SettingsTypesInit, Zenon
<1>2. Inv /\ [Settings!Next]_settingsVars => Inv'
  BY SettingsStep, OwedStep, Zenon
<1>3. Inv => ChangesStayMarked
  BY DEF SettingsTypes, OwedInv, OwedIsKept, Carries, ChangesStayMarked, Settings!ChangesStayMarked,
         Settings!Range
<1> QED BY <1>1, <1>2, <1>3, PTL DEF Settings!Spec, Settings!vars, settingsVars

-----------------------------------------------------------------------------
(* Stored credentials.                                                     *)

\* A refresh that has taken the lock, and has not given it back.
Locked(p) == authPc[p] \in {"asking", "answered"}

\* The lock is held by a refresh that knows of no loss; a fault is behind any other
\* state of it, and behind a torn file.
LockInv ==
    /\ \A p \in Procs : Locked(p) =>
          IF compromised[p] = "no" THEN lock = p /\ authDisk # Torn ELSE trouble
    /\ lock \in Procs => Locked(lock)
    /\ lock = "dead" \/ authDisk = Torn => trouble

\* Without a fault: who asks presents the token of the file, which the server
\* knows; who was answered will write a token the server knows.
RefreshInv ==
    ~trouble =>
        /\ ~refused
        /\ lock = None /\ authDisk.oauth # None => authDisk.oauth \in valid
        /\ \A p \in Procs :
              /\ authPc[p] = "asking" => authSeen[p] = authDisk /\ authSeen[p].oauth \in valid
              /\ authPc[p] = "answered" => /\ authSeen[p].key = authDisk.key
                                           /\ authSeen[p].oauth \in valid

AuthInv == Auth!TypeOK /\ LockInv /\ RefreshInv

\* The invariant of the credentials holds at first.
LEMMA AuthInit == Auth!Init => AuthInv
<1> SUFFICES ASSUME Auth!Init
             PROVE  AuthInv
  OBVIOUS
<1>1. authDisk \in Auth!Contents /\ Auth!Empty \in Auth!Contents
  BY AuthAssumption DEF Auth!Init, Auth!Contents, Auth!Empty, Auth!Tokens
<1>2. Auth!TypeOK
  <2>1. 1 \in Auth!Tokens
    BY AuthAssumption DEF Auth!Tokens
  <2> QED BY <1>1, <2>1 DEF Auth!Init, Auth!TypeOK
<1>3. LockInv
  BY <1>1, AuthAssumption DEF Auth!Init, LockInv, Locked
<1>4. RefreshInv
  BY DEF Auth!Init, RefreshInv
<1> QED BY <1>2, <1>3, <1>4 DEF AuthInv

\* A change is written only to a file that parses, and while nobody holds the lock;
\* of the two credentials the one that did not change is the file's.
LEMMA Persisted ==
    ASSUME Auth!TypeOK, NEW p \in Procs, NEW old \in Auth!Contents, NEW new \in Auth!Contents
    PROVE  LET after == Auth!Persist(p, old, new) IN
           /\ after \in Auth!Contents \cup {Torn}
           /\ after # authDisk => /\ lock = None /\ authDisk # Torn /\ after # Torn
                                  /\ after.oauth = IF new.oauth # old.oauth THEN new.oauth ELSE authDisk.oauth
                                  /\ after.key = IF new.key # old.key THEN new.key ELSE authDisk.key
<1> DEFINE after == Auth!Persist(p, old, new)
           merged == [oauth |-> IF new.oauth # old.oauth THEN new.oauth ELSE authDisk.oauth,
                      key |-> IF new.key # old.key THEN new.key ELSE authDisk.key]
<1>1. CASE authLoadError[p] \/ lock # None \/ authDisk = Torn
  BY <1>1 DEF Auth!Persist, Auth!TypeOK
<1>2. CASE ~authLoadError[p] /\ lock = None /\ authDisk # Torn
  <2>1. after = merged /\ authDisk \in Auth!Contents
    BY <1>2 DEF Auth!Persist, Auth!TypeOK
  <2>2. merged \in Auth!Contents
    BY <2>1 DEF Auth!Contents
  <2>3. merged # Torn
    BY <2>2, AuthAssumption
  <2> QED BY <1>2, <2>1, <2>2, <2>3
<1> QED BY <1>1, <1>2

\* set() and remove() keep the invariant.
LEMMA ChangeStep ==
    ASSUME AuthInv, NEW p \in Procs, NEW new \in Auth!Contents, Auth!Change(p, new),
           valid \subseteq valid', valid' \subseteq Auth!Tokens, issued' \in Auth!Tokens,
           unsaved' \in BOOLEAN,
           new.oauth # data[p].oauth => new.oauth \in valid' \cup {None}
    PROVE  AuthInv'
<1>1. /\ data' = [data EXCEPT ![p] = new]
      /\ authDisk' = Auth!Persist(p, data[p], new)
      /\ UNCHANGED <<lock, compromised, authLoadError, authPc, authSeen, expired, trouble, refused>>
  BY DEF Auth!Change
<1>2. /\ authDisk' \in Auth!Contents \cup {Torn}
      /\ authDisk' # authDisk =>
            /\ lock = None /\ authDisk # Torn /\ authDisk' # Torn
            /\ authDisk'.oauth = IF new.oauth # data[p].oauth THEN new.oauth ELSE authDisk.oauth
  BY <1>1, Persisted DEF AuthInv, Auth!TypeOK
<1>3. Auth!TypeOK'
  BY <1>1, <1>2 DEF AuthInv, Auth!TypeOK
<1>4. LockInv'
  BY <1>1, <1>2, AuthAssumption DEF AuthInv, LockInv, Locked
<1>5. RefreshInv'
  <2> SUFFICES ASSUME ~trouble
               PROVE  /\ ~refused
                      /\ lock = None /\ authDisk'.oauth # None => authDisk'.oauth \in valid'
                      /\ \A r \in Procs :
                            /\ authPc[r] = "asking" => /\ authSeen[r] = authDisk'
                                                       /\ authSeen[r].oauth \in valid'
                            /\ authPc[r] = "answered" => /\ authSeen[r].key = authDisk'.key
                                                         /\ authSeen[r].oauth \in valid'
    BY <1>1 DEF RefreshInv
  <2>1. CASE authDisk' = authDisk
    BY <2>1 DEF AuthInv, RefreshInv
  <2>2. CASE authDisk' # authDisk
    <3>1. \A r \in Procs : ~Locked(r)
      BY <1>2, <2>2, AuthAssumption DEF AuthInv, LockInv
    <3>2. authDisk'.oauth # None => authDisk'.oauth \in valid'
      BY <1>2, <2>2 DEF AuthInv, RefreshInv
    <3> QED BY <3>1, <3>2 DEF AuthInv, RefreshInv, Locked
  <2> QED BY <2>1, <2>2
<1> QED BY <1>3, <1>4, <1>5 DEF AuthInv

\* A step that leaves the file, the lock and every refresh alone.
LEMMA AuthUntouched ==
    ASSUME AuthInv, Auth!TypeOK',
           UNCHANGED <<authDisk, lock, compromised, authSeen, valid, trouble, refused>>,
           \A p \in Procs : Locked(p)' <=> Locked(p),
           \A p \in Procs : Locked(p) => authPc'[p] = authPc[p]
    PROVE  AuthInv'
<1>1. LockInv'
  BY DEF AuthInv, LockInv
<1>2. RefreshInv'
  BY DEF AuthInv, RefreshInv, Locked
<1> QED BY <1>1, <1>2 DEF AuthInv

\* A refresh that ends without a write gives the lock back.
LEMMA AuthReleases ==
    ASSUME AuthInv, Auth!TypeOK', NEW p \in Procs, Locked(p),
           authPc' = [authPc EXCEPT ![p] = "failed"],
           lock' = IF lock = p THEN None ELSE lock,
           authSeen' = [authSeen EXCEPT ![p] = Auth!Empty],
           UNCHANGED <<authDisk, compromised>>, trouble => trouble',
           ~trouble' => ~refused' /\ authDisk.oauth \in valid' /\ lock = p
    PROVE  AuthInv'
<1>1. /\ ~Locked(p)' /\ \A r \in Procs : r # p => authPc'[r] = authPc[r] /\ authSeen'[r] = authSeen[r]
      /\ \A r \in Procs : r # p => (Locked(r)' <=> Locked(r))
  BY DEF AuthInv, Auth!TypeOK, Locked
<1>2. LockInv'
  BY <1>1, AuthAssumption DEF AuthInv, LockInv
<1>3. RefreshInv'
  <2> SUFFICES ASSUME ~trouble'
               PROVE  \A r \in Procs : authPc'[r] \notin {"asking", "answered"}
    BY DEF RefreshInv
  <2>1. \A r \in Procs : Locked(r) => lock = r
    BY DEF AuthInv, LockInv
  <2> QED BY <1>1, <2>1 DEF Locked
<1> QED BY <1>2, <1>3 DEF AuthInv

\* reload() of a process that does not hold the lock keeps the invariant.
LEMMA ReloadStep ==
    ASSUME AuthInv, NEW p \in Procs, ~Locked(p), Auth!Reload(p, "idle")
    PROVE  AuthInv'
<1>1. Auth!TypeOK'
  BY DEF Auth!Reload, AuthInv, Auth!TypeOK, Auth!serverVars, Auth!histVars
<1>2. /\ UNCHANGED <<authDisk, lock, compromised, authSeen, valid, trouble, refused>>
      /\ authPc' = [authPc EXCEPT ![p] = "idle"]
  BY DEF Auth!Reload, Auth!serverVars, Auth!histVars
<1> QED BY <1>1, <1>2, AuthUntouched DEF AuthInv, Auth!TypeOK, Locked

\* Every step keeps the invariant of the credentials.
LEMMA AuthStep ==
    ASSUME AuthInv, [Auth!Next]_authVars
    PROVE  AuthInv'
<1>0. Auth!TypeOK /\ LockInv /\ RefreshInv
  BY DEF AuthInv
<1> USE DEF Auth!serverVars, Auth!histVars, Auth!procVars
<1>1. ASSUME NEW p \in Procs, Auth!Start(p) \/ Auth!Recover(p)
      PROVE  AuthInv'
  BY <1>1, ReloadStep DEF Auth!Start, Auth!Recover, Locked
<1>2. ASSUME NEW p \in Procs, Auth!Login(p)
      PROVE  AuthInv'
  <2> DEFINE new == [data[p] EXCEPT !.oauth = issued']
  <2>1. /\ issued' = issued + 1 /\ issued < MaxIssued /\ valid' = valid \cup {issued'}
        /\ Auth!Change(p, new) /\ unsaved' \in BOOLEAN
    BY <1>2 DEF Auth!Login
  <2>2. issued' \in Auth!Tokens /\ valid' \subseteq Auth!Tokens
    BY <2>1, <1>0, AuthAssumption DEF Auth!TypeOK, Auth!Tokens
  <2>3. new \in Auth!Contents /\ new.oauth = issued'
    BY <2>2, <1>0 DEF Auth!TypeOK, Auth!Contents
  <2> HIDE DEF new
  <2> QED BY <2>1, <2>2, <2>3, ChangeStep
<1>3. ASSUME NEW p \in Procs, Auth!SetKey(p)
      PROVE  AuthInv'
  <2> DEFINE new == [data[p] EXCEPT !.key = "set"]
  <2>1. Auth!Change(p, new) /\ UNCHANGED <<valid, issued, unsaved>>
    BY <1>3 DEF Auth!SetKey
  <2>2. new \in Auth!Contents /\ new.oauth = data[p].oauth
    BY <1>0 DEF Auth!TypeOK, Auth!Contents
  <2> HIDE DEF new
  <2> QED BY <2>1, <2>2, <1>0, ChangeStep DEF Auth!TypeOK
<1>4. ASSUME NEW p \in Procs, Auth!Logout(p)
      PROVE  AuthInv'
  <2>1. PICK f \in {"oauth", "key"} : Auth!Change(p, [data[p] EXCEPT ![f] = None])
    BY <1>4 DEF Auth!Logout
  <2> DEFINE new == [data[p] EXCEPT ![f] = None]
  <2>2. new \in Auth!Contents /\ new.oauth \in {data[p].oauth, None}
    BY <1>0 DEF Auth!TypeOK, Auth!Contents
  <2>3. Auth!Change(p, new) /\ UNCHANGED <<valid, issued, unsaved>>
    BY <1>4, <2>1 DEF Auth!Logout
  <2> HIDE DEF new
  <2> QED BY <2>2, <2>3, <1>0, ChangeStep DEF Auth!TypeOK
<1>5. ASSUME NEW p \in Procs, Auth!GetApiKey(p)
      PROVE  AuthInv'
  <2>1. Auth!TypeOK'
    BY <1>5, <1>0 DEF Auth!GetApiKey, Auth!TypeOK, Auth!Refreshing
  <2> QED BY <1>5, <1>0, <2>1, AuthUntouched DEF Auth!GetApiKey, Auth!TypeOK, Locked
<1>6. ASSUME NEW p \in Procs, Auth!Acquire(p)
      PROVE  AuthInv'
  <2>1. lock = None /\ authPc[p] = "locking"
        /\ UNCHANGED <<authDisk, valid, issued, expired, trouble, refused, unsaved>>
    BY <1>6 DEF Auth!Acquire
  <2>2. \A r \in Procs : Locked(r) => compromised[r] # "no"
    BY <2>1, <1>0, AuthAssumption DEF LockInv
  <2>3. CASE authDisk = Torn
    <3>1. authPc' = [authPc EXCEPT ![p] = "failed"] /\ UNCHANGED <<lock, compromised, data, authLoadError, authSeen>>
      BY <1>6, <2>3 DEF Auth!Acquire
    <3>2. Auth!TypeOK'
      BY <3>1, <2>1, <1>0 DEF Auth!TypeOK, Auth!Refreshing
    <3> QED BY <3>1, <3>2, <2>1, <1>0, AuthUntouched DEF Auth!TypeOK, Locked
  <2>4. CASE authDisk # Torn /\ authDisk.oauth \notin expired
    <3>1. /\ authPc' = [authPc EXCEPT ![p] = "idle"] /\ UNCHANGED <<lock, compromised, authSeen>>
          /\ data' = [data EXCEPT ![p] = authDisk]
          /\ authLoadError' = [authLoadError EXCEPT ![p] = FALSE]
      BY <1>6, <2>4 DEF Auth!Acquire
    <3>2. Auth!TypeOK'
      BY <3>1, <2>1, <2>4, <1>0 DEF Auth!TypeOK
    <3> QED BY <3>1, <3>2, <2>1, <1>0, AuthUntouched DEF Auth!TypeOK, Locked
  <2>5. CASE authDisk # Torn /\ authDisk.oauth \in expired
    <3>1. /\ authPc' = [authPc EXCEPT ![p] = "asking"] /\ lock' = p
          /\ compromised' = [compromised EXCEPT ![p] = "no"]
          /\ authSeen' = [authSeen EXCEPT ![p] = authDisk]
          /\ data' = [data EXCEPT ![p] = authDisk]
          /\ authLoadError' = [authLoadError EXCEPT ![p] = FALSE]
      BY <1>6, <2>5 DEF Auth!Acquire
    <3>2. Auth!TypeOK'
      BY <3>1, <2>1, <2>5, <1>0 DEF Auth!TypeOK, Auth!Refreshing
    <3>3. /\ \A r \in Procs : r # p => /\ (Locked(r)' <=> Locked(r)) /\ compromised'[r] = compromised[r]
                                       /\ authSeen'[r] = authSeen[r] /\ authPc'[r] = authPc[r]
          /\ Locked(p)' /\ authSeen'[p] = authDisk /\ compromised'[p] = "no" /\ authPc'[p] = "asking"
      BY <3>1, <1>0 DEF Auth!TypeOK, Locked
    <3>4. LockInv'
      BY <3>1, <3>3, <2>1, <2>2, <2>5, <1>0, AuthAssumption DEF LockInv
    <3>5. RefreshInv'
      <4>1. authDisk.oauth # None
        BY <2>5, <1>0, AuthAssumption DEF Auth!TypeOK
      <4>2. ~trouble => \A r \in Procs : ~Locked(r)
        BY <2>2, <1>0 DEF LockInv
      <4> QED BY <4>1, <4>2, <3>1, <3>3, <2>1, <1>0, AuthAssumption DEF RefreshInv, Locked
    <3> QED BY <3>2, <3>4, <3>5 DEF AuthInv
  <2> QED BY <2>3, <2>4, <2>5
<1>7. ASSUME NEW p \in Procs, Auth!GiveUp(p)
      PROVE  AuthInv'
  <2>1. Auth!TypeOK'
    BY <1>7, <1>0 DEF Auth!GiveUp, Auth!TypeOK, Auth!Refreshing
  <2> QED BY <1>7, <1>0, <2>1, AuthUntouched DEF Auth!GiveUp, Auth!TypeOK, Locked
<1>8. ASSUME NEW p \in Procs, Auth!ServerAnswers(p)
      PROVE  AuthInv'
  <2>1. /\ authPc[p] = "asking" /\ issued < MaxIssued
        /\ issued' = issued + 1 /\ valid' = (valid \ {authSeen[p].oauth}) \cup {issued'}
        /\ UNCHANGED <<authDisk, compromised, data, authLoadError, expired, refused, unsaved>>
    BY <1>8 DEF Auth!ServerAnswers
  <2>2. issued' \in Auth!Tokens /\ valid' \subseteq Auth!Tokens
    <3>1. issued' \in Auth!Tokens
      BY <2>1, <1>0, AuthAssumption DEF Auth!TypeOK, Auth!Tokens
    <3> QED BY <2>1, <3>1, <1>0 DEF Auth!TypeOK
  <2>3. CASE authPc'[p] = "answered"
    <3>1. /\ authSeen' = [authSeen EXCEPT ![p].oauth = issued']
          /\ authPc' = [authPc EXCEPT ![p] = "answered"]
          /\ UNCHANGED <<lock, trouble>>
      BY <1>8, <2>3, <1>0 DEF Auth!ServerAnswers, Auth!TypeOK
    <3>2. [authSeen[p] EXCEPT !.oauth = issued'] \in Auth!Contents
      BY <2>2, <1>0 DEF Auth!TypeOK, Auth!Contents
    <3>3. Auth!TypeOK'
      BY <3>1, <3>2, <2>1, <2>2, <1>0 DEF Auth!TypeOK, Auth!Refreshing
    <3>4. /\ \A r \in Procs : (Locked(r)' <=> Locked(r))
          /\ \A r \in Procs : r # p => authPc'[r] = authPc[r] /\ authSeen'[r] = authSeen[r]
          /\ authPc'[p] = "answered"
          /\ authSeen'[p].oauth = issued' /\ authSeen'[p].key = authSeen[p].key
      BY <3>1, <2>1, <1>0 DEF Auth!TypeOK, Auth!Contents, Locked
    <3>5. LockInv'
      BY <3>1, <3>4, <2>1, <1>0 DEF LockInv
    <3>6. RefreshInv'
      <4> SUFFICES ASSUME ~trouble
                   PROVE  RefreshInv'
        BY <3>1 DEF RefreshInv
      <4>1. lock = p /\ (\A r \in Procs : Locked(r) => r = p)
        BY <2>1, <1>0 DEF LockInv, Locked
      <4>2. lock # None
        BY <4>1, AuthAssumption
      <4> QED BY <4>1, <4>2, <3>1, <3>4, <2>1, <1>0 DEF RefreshInv, Locked
    <3> QED BY <3>3, <3>5, <3>6 DEF AuthInv
  <2>4. CASE authPc'[p] # "answered"
    <3>1. /\ ~trouble /\ trouble' = TRUE
          /\ authSeen' = [authSeen EXCEPT ![p] = Auth!Empty]
          /\ authPc' = [authPc EXCEPT ![p] = "failed"]
          /\ lock' = IF lock = p THEN None ELSE lock
      BY <1>8, <2>4, <1>0 DEF Auth!ServerAnswers, Auth!TypeOK
    <3>2. Auth!TypeOK'
      BY <3>1, <2>1, <2>2, <1>0 DEF Auth!TypeOK, Auth!Refreshing, Auth!Empty, Auth!Contents
    <3> QED BY <3>1, <3>2, <2>1, AuthReleases DEF Locked
  <2> QED BY <2>3, <2>4
<1>9. ASSUME NEW p \in Procs, Auth!RequestFails(p)
      PROVE  AuthInv'
  <2>1. /\ authPc[p] = "asking" /\ authPc' = [authPc EXCEPT ![p] = "failed"]
        /\ lock' = IF lock = p THEN None ELSE lock
        /\ refused' = (refused \/ authSeen[p].oauth \notin valid)
        /\ authSeen' = [authSeen EXCEPT ![p] = Auth!Empty]
        /\ UNCHANGED <<authDisk, compromised, data, authLoadError, valid, issued, expired, trouble, unsaved>>
    BY <1>9 DEF Auth!RequestFails
  <2>2. Auth!TypeOK'
    BY <2>1, <1>0 DEF Auth!TypeOK, Auth!Refreshing, Auth!Empty, Auth!Contents
  <2>3. ~trouble => authSeen[p] = authDisk /\ authDisk.oauth \in valid /\ ~refused /\ lock = p
    BY <2>1, <1>0 DEF RefreshInv, LockInv, Locked
  <2> QED BY <2>1, <2>2, <2>3, AuthReleases DEF Locked
<1>10. ASSUME NEW p \in Procs, Auth!Commit(p)
       PROVE  AuthInv'
  <2>1. /\ authPc[p] = "answered"
        /\ lock' = IF lock = p THEN None ELSE lock
        /\ authSeen' = [authSeen EXCEPT ![p] = Auth!Empty]
        /\ data' = [data EXCEPT ![p] = authSeen[p]]
        /\ authLoadError' = [authLoadError EXCEPT ![p] = FALSE]
        /\ UNCHANGED <<compromised, valid, issued, expired, trouble, refused, unsaved>>
    BY <1>10 DEF Auth!Commit
  <2>2. \/ authDisk' = authDisk /\ authPc' = [authPc EXCEPT ![p] = "failed"] /\ compromised[p] # "no"
        \/ authDisk' = authSeen[p] /\ authPc' = [authPc EXCEPT ![p] = "idle"]
    BY <1>10 DEF Auth!Commit
  <2>3. authSeen[p] \in Auth!Contents /\ authSeen[p] # Torn
    BY <1>0, AuthAssumption DEF Auth!TypeOK
  <2>4. Auth!TypeOK'
    BY <2>1, <2>2, <2>3, <1>0 DEF Auth!TypeOK, Auth!Refreshing, Auth!Empty, Auth!Contents
  <2>5. /\ ~Locked(p)' /\ \A r \in Procs : r # p => /\ authPc'[r] = authPc[r] /\ authSeen'[r] = authSeen[r]
                                                    /\ (Locked(r)' <=> Locked(r))
    BY <2>1, <2>2, <1>0 DEF Auth!TypeOK, Locked
  <2>6. LockInv'
    BY <2>1, <2>2, <2>3, <2>5, <1>0, AuthAssumption DEF LockInv
  <2>7. RefreshInv'
    <3> SUFFICES ASSUME ~trouble
                 PROVE  RefreshInv'
      BY <2>1 DEF RefreshInv
    <3>1. lock = p /\ compromised[p] = "no" /\ (\A r \in Procs : Locked(r) => r = p)
      BY <2>1, <1>0 DEF LockInv, Locked
    <3>2. authDisk' = authSeen[p] /\ authSeen[p].oauth \in valid /\ ~refused
      BY <3>1, <2>1, <2>2, <1>0 DEF RefreshInv
    <3> QED BY <3>1, <3>2, <2>1, <2>5 DEF RefreshInv, Locked
  <2> QED BY <2>4, <2>6, <2>7 DEF AuthInv
<1>11. ASSUME NEW p \in Procs, Auth!Steal(p)
       PROVE  AuthInv'
  <2>1. /\ lock = p /\ lock' = None /\ trouble' = TRUE
        /\ compromised' = [compromised EXCEPT ![p] = "unnoticed"]
        /\ UNCHANGED <<authDisk, data, authLoadError, authPc, authSeen, valid, issued, expired, refused, unsaved>>
    BY <1>11 DEF Auth!Steal
  <2>2. Auth!TypeOK'
    BY <2>1, <1>0 DEF Auth!TypeOK
  <2>3. LockInv'
    BY <2>1, <1>0, AuthAssumption DEF LockInv, Locked, Auth!TypeOK
  <2> QED BY <2>1, <2>2, <2>3 DEF AuthInv, RefreshInv
<1>12. ASSUME NEW p \in Procs, Auth!Notice(p)
       PROVE  AuthInv'
  <2>1. /\ compromised[p] # "no" /\ compromised' = [compromised EXCEPT ![p] = "noticed"]
        /\ UNCHANGED <<authDisk, lock, data, authLoadError, authPc, authSeen, valid, issued, expired,
                       trouble, refused, unsaved>>
    BY <1>12 DEF Auth!Notice
  <2>2. Auth!TypeOK'
    BY <2>1, <1>0 DEF Auth!TypeOK
  <2>3. LockInv'
    BY <2>1, <1>0 DEF LockInv, Locked, Auth!TypeOK
  <2>4. RefreshInv'
    BY <2>1, <1>0 DEF RefreshInv
  <2> QED BY <2>2, <2>3, <2>4 DEF AuthInv
<1>13. ASSUME NEW p \in Procs, Auth!Crash(p)
       PROVE  AuthInv'
  <2>1. /\ authPc' = [authPc EXCEPT ![p] = "down"]
        /\ data' = [data EXCEPT ![p] = Auth!Empty]
        /\ authLoadError' = [authLoadError EXCEPT ![p] = FALSE]
        /\ lock' = IF lock = p THEN "dead" ELSE lock
        /\ authSeen' = [authSeen EXCEPT ![p] = Auth!Empty]
        /\ ~trouble /\ trouble' = TRUE
        /\ UNCHANGED <<compromised, valid, issued, expired, refused, unsaved>>
    BY <1>13 DEF Auth!Crash
  <2>2. \/ authDisk' = authDisk
        \/ authDisk' = Torn /\ Auth!Writes(p)
    BY <1>13 DEF Auth!Crash
  <2>3. Auth!TypeOK'
    BY <2>1, <2>2, <1>0 DEF Auth!TypeOK, Auth!Empty, Auth!Contents
  \* Without a fault before, the file can be torn only by the process that has the lock.
  <2>4. \A r \in Procs : Locked(r) => lock = r /\ compromised[r] = "no"
    BY <2>1, <1>0 DEF LockInv
  <2>5. /\ ~Locked(p)'
        /\ \A r \in Procs : r # p => (Locked(r)' <=> Locked(r))
    BY <2>1, <1>0 DEF Auth!TypeOK, Locked
  <2>6. authDisk' # authDisk => \A r \in Procs : r # p => ~Locked(r)
    BY <2>2, <2>4, AuthAssumption DEF Auth!Writes, Locked
  <2>7. LockInv'
    BY <2>1, <2>2, <2>4, <2>5, <2>6, <1>0, AuthAssumption DEF LockInv
  <2> QED BY <2>1, <2>3, <2>7 DEF AuthInv, RefreshInv
<1>14. CASE Auth!Stale
  <2>1. /\ lock = "dead" /\ lock' = None /\ trouble
        /\ UNCHANGED <<authDisk, compromised, data, authLoadError, authPc, authSeen, valid, issued, expired,
                       trouble, refused, unsaved>>
    BY <1>14, <1>0 DEF Auth!Stale, LockInv
  <2>2. Auth!TypeOK'
    BY <2>1, <1>0 DEF Auth!TypeOK
  <2>3. LockInv'
    BY <2>1, <1>0, AuthAssumption DEF LockInv, Locked
  <2> QED BY <2>1, <2>2, <2>3 DEF AuthInv, RefreshInv
<1>15. CASE Auth!Expire
  <2>1. /\ UNCHANGED <<authDisk, lock, compromised, data, authLoadError, authPc, authSeen, valid, issued,
                       trouble, refused, unsaved>>
        /\ \E t \in 1..issued : expired' = expired \cup {t}
    BY <1>15 DEF Auth!Expire
  <2>2. 1..issued \subseteq Auth!Tokens
    BY <1>0, AuthAssumption DEF Auth!TypeOK, Auth!Tokens
  <2>3. Auth!TypeOK'
    BY <2>1, <2>2, <1>0 DEF Auth!TypeOK
  <2> QED BY <2>1, <2>3, AuthUntouched DEF Locked
<1>16. CASE UNCHANGED authVars
  BY <1>16, <1>0 DEF authVars, AuthInv, Auth!TypeOK, LockInv, RefreshInv, Locked
<1> QED BY <1>1, <1>2, <1>3, <1>4, <1>5, <1>6, <1>7, <1>8, <1>9, <1>10, <1>11, <1>12, <1>13, <1>14,
           <1>15, <1>16 DEF Auth!Next

\* However the refreshes of several processes interleave with logins, changes and
\* reloads: while no process dies, loses its lock or an answer, each refresh token is
\* presented once and the file keeps one that the server accepts (auth-storage.ts).
THEOREM TokensAreRefreshedOnce == Auth!Spec => []RefreshedOnce
<1>1. Auth!Init => AuthInv
  BY AuthInit, Zenon
<1>2. AuthInv /\ [Auth!Next]_(Auth!vars) => AuthInv'
  BY AuthStep DEF authVars, Auth!vars, Auth!procVars, Auth!serverVars, Auth!histVars
<1>3. AuthInv => RefreshedOnce
  BY DEF AuthInv, RefreshInv, RefreshedOnce, Auth!RefreshedOnce
<1> QED BY <1>1, <1>2, <1>3, PTL DEF Auth!Spec

\* What a step of AuthStorage may do to the file.
LEMMA FileStepOfAuth ==
    ASSUME AuthInv, [Auth!Next]_(Auth!vars)
    PROVE  [/\ ~trouble' => authDisk'.oauth = authDisk.oauth \/ authDisk'.key = authDisk.key
            /\ authDisk = Torn => \E p \in Procs : compromised[p] # "no"]_authDisk
<1> SUFFICES ASSUME authDisk' # authDisk
             PROVE  /\ ~trouble' => authDisk'.oauth = authDisk.oauth \/ authDisk'.key = authDisk.key
                    /\ authDisk = Torn => \E p \in Procs : compromised[p] # "no"
  OBVIOUS
<1>0. Auth!TypeOK /\ LockInv /\ RefreshInv
  BY DEF AuthInv
<1> USE DEF Auth!serverVars, Auth!histVars, Auth!procVars
<1>1. ASSUME NEW p \in Procs, NEW new \in Auth!Contents, Auth!Change(p, new),
             new.oauth = data[p].oauth \/ new.key = data[p].key
      PROVE  authDisk # Torn /\ (authDisk'.oauth = authDisk.oauth \/ authDisk'.key = authDisk.key)
  <2>1. authDisk' = Auth!Persist(p, data[p], new) /\ data[p] \in Auth!Contents
    BY <1>0, <1>1 DEF Auth!Change, Auth!TypeOK
  <2> QED BY <1>0, <1>1, <2>1, Persisted
<1>2. ASSUME NEW p \in Procs, Auth!Login(p) \/ Auth!SetKey(p) \/ Auth!Logout(p)
      PROVE  authDisk # Torn /\ (authDisk'.oauth = authDisk.oauth \/ authDisk'.key = authDisk.key)
  <2>1. data[p] \in Auth!Contents
    BY <1>0 DEF Auth!TypeOK
  <2>2. CASE Auth!Login(p)
    <3>1. issued' \in Auth!Tokens
      BY <2>2, <1>0, AuthAssumption DEF Auth!Login, Auth!TypeOK, Auth!Tokens
    <3>2. LET new == [data[p] EXCEPT !.oauth = issued'] IN
             new \in Auth!Contents /\ new.key = data[p].key
      BY <2>1, <3>1 DEF Auth!Contents
    <3> QED BY <2>2, <3>2, <1>1 DEF Auth!Login
  <2>3. CASE Auth!SetKey(p)
    <3>1. LET new == [data[p] EXCEPT !.key = "set"] IN
             new \in Auth!Contents /\ new.oauth = data[p].oauth
      BY <2>1 DEF Auth!Contents
    <3> QED BY <2>3, <3>1, <1>1 DEF Auth!SetKey
  <2>4. CASE Auth!Logout(p)
    <3>1. PICK f \in {"oauth", "key"} : Auth!Change(p, [data[p] EXCEPT ![f] = None])
      BY <2>4 DEF Auth!Logout
    <3>2. LET new == [data[p] EXCEPT ![f] = None] IN
             new \in Auth!Contents /\ (new.oauth = data[p].oauth \/ new.key = data[p].key)
      BY <2>1 DEF Auth!Contents
    <3> QED BY <3>1, <3>2, <1>1
  <2> QED BY <1>2, <2>2, <2>3, <2>4
<1>3. ASSUME NEW p \in Procs, Auth!Commit(p)
      PROVE  /\ ~trouble => authDisk'.key = authDisk.key
             /\ authDisk = Torn => compromised[p] # "no"
  <2>1. authPc[p] = "answered" /\ authDisk' = authSeen[p]
    BY <1>3 DEF Auth!Commit
  <2> QED BY <2>1, <1>0 DEF RefreshInv, LockInv, Locked
<1>4. ASSUME NEW p \in Procs, Auth!Crash(p)
      PROVE  trouble' /\ authDisk # Torn
  BY <1>4 DEF Auth!Crash
<1>5. CASE \E p \in Procs : Auth!Login(p) \/ Auth!SetKey(p) \/ Auth!Logout(p)
  BY <1>2, <1>5
<1>6. CASE \E p \in Procs : Auth!Commit(p)
  <2>1. PICK p \in Procs : Auth!Commit(p)
    BY <1>6
  <2>2. trouble' = trouble
    BY <2>1 DEF Auth!Commit
  <2> QED BY <1>3, <2>1, <2>2
<1>7. CASE \E p \in Procs : Auth!Crash(p)
  BY <1>4, <1>7
<1> QED BY <1>5, <1>6, <1>7
        DEF Auth!Next, Auth!vars, Auth!Start, Auth!Recover, Auth!Reload, Auth!GetApiKey, Auth!Acquire,
            Auth!GiveUp, Auth!ServerAnswers, Auth!RequestFails, Auth!Steal, Auth!Notice, Auth!Stale,
            Auth!Expire

\* A write for one provider leaves the other's credential alone, however old the
\* writer's memory is, and a torn file is only overwritten after a lock was lost.
THEOREM CredentialsKeepOthers == Auth!Spec => Auth!OneProviderAtATime
<1>1. Auth!Init => AuthInv
  BY AuthInit, Zenon
<1>2. AuthInv /\ [Auth!Next]_(Auth!vars) => AuthInv'
  BY AuthStep DEF authVars, Auth!vars, Auth!procVars, Auth!serverVars, Auth!histVars
<1> QED BY <1>1, <1>2, FileStepOfAuth, PTL DEF Auth!Spec, Auth!OneProviderAtATime

\* Both files are changed only where the writing process has changed them
\* (auth-storage.ts, settings-manager.ts).
THEOREM FilesKeepOthers == Auth!Spec /\ Settings!Spec => OthersAreKept
BY CredentialsKeepOthers, WritesKeepOthers, PTL DEF OthersAreKept

-----------------------------------------------------------------------------
(* The types of all parts, and the run of MCParts.                         *)

\* The types of the fallback.
LEMMA FallbackTypesStep ==
    ASSUME Fallback!TypeOK, [Fallback!Next]_fallbackVars
    PROVE  Fallback!TypeOK'
<1> DEFINE Rec == Fallback!Records
           Handlers == [appends : Rec, then : BOOLEAN]
<1>0. None \notin Rec /\ None \notin Handlers
  BY ChainAssumption
<1>1. ASSUME NEW m \in Fallback!Models, NEW r \in Rec, NEW then \in BOOLEAN,
             Fallback!Apply(m, r, then), lost' \in BOOLEAN
      PROVE  Fallback!TypeOK'
  <2>1. [appends |-> r, then |-> then] \in Handlers
    BY <1>1
  <2> QED BY <1>1, <2>1 DEF Fallback!Apply, Fallback!TypeOK
<1>2. CASE Fallback!RequestFails
  <2> DEFINE next == Fallback!NextInChain(model)
             new == [original |-> Fallback!Original, fallback |-> next, state |-> "active"]
  <2>1. next \in Fallback!Models /\ Fallback!Apply(next, new, TRUE)
    BY <1>2, NextIsModel DEF Fallback!RequestFails, Fallback!TypeOK
  <2>2. Fallback!Original \in Fallback!Models
    BY <1>0 DEF Fallback!Original, Fallback!ActiveInWindow, Fallback!Active, Fallback!TypeOK,
                Fallback!Records
  <2>3. lost' \in BOOLEAN
    BY <1>2 DEF Fallback!RequestFails, Fallback!Active, Fallback!TypeOK
  <2> HIDE DEF next
  <2>4. new \in Rec
    BY <2>1, <2>2 DEF Fallback!Records
  <2> QED BY <2>1, <2>3, <2>4, <1>1
<1>3. ASSUME NEW starts \in BOOLEAN, Fallback!Restore(starts)
      PROVE  Fallback!TypeOK'
  <2> DEFINE new == [record EXCEPT !.state = "restored"]
  <2>1. record \in Rec /\ new \in Rec /\ record.original \in Fallback!Models
    BY <1>3, <1>0 DEF Fallback!Restore, Fallback!Active, Fallback!TypeOK, Fallback!Records
  <2>2. CASE model = record.original
    BY <1>3, <2>1, <2>2 DEF Fallback!Restore, Fallback!TypeOK
  <2>3. CASE model # record.original
    BY <1>3, <1>1, <2>1, <2>3 DEF Fallback!Restore, Fallback!TypeOK
  <2> QED BY <2>2, <2>3
<1>4. CASE Fallback!BeginRun
  BY <1>3, <1>4 DEF Fallback!BeginRun, Fallback!StartWithoutRestore, Fallback!TypeOK
<1>5. CASE Fallback!SessionStart
  BY <1>3, <1>5 DEF Fallback!SessionStart
<1>6. CASE Fallback!Applied
  <2>1. handler \in Handlers
    BY <1>6 DEF Fallback!Applied, Fallback!Busy, Fallback!TypeOK
  <2> QED BY <1>6, <2>1 DEF Fallback!Applied, Fallback!TypeOK
<1>7. CASE Fallback!EndRun
  BY <1>7 DEF Fallback!EndRun, Fallback!TypeOK
<1>8. ASSUME NEW m \in Picks, Fallback!Pick(m)
      PROVE  Fallback!TypeOK'
  <2>1. m \in Fallback!Models
    BY DEF Fallback!Models
  <2>2. record' \in Rec \cup {None}
    <3>1. Fallback!Active => record \in Rec
      BY DEF Fallback!Active, Fallback!TypeOK
    <3>2. record \in Rec => [record EXCEPT !.state = "cancelled"] \in Rec
      BY DEF Fallback!Records
    <3> QED BY <1>8, <3>1, <3>2 DEF Fallback!Pick, Fallback!TypeOK
  <2> QED BY <1>8, <2>1, <2>2 DEF Fallback!Pick, Fallback!TypeOK
<1>9. CASE Fallback!WindowEnds
  BY <1>9 DEF Fallback!WindowEnds, Fallback!TypeOK
<1>10. CASE UNCHANGED fallbackVars
  BY <1>10 DEF fallbackVars, Fallback!TypeOK
<1> QED BY <1>2, <1>4, <1>5, <1>6, <1>7, <1>8, <1>9, <1>10 DEF Fallback!Next

\* The types of the client, of what is on its way to it and of its listeners.
RpcTypes ==
    /\ RpcInv /\ Len(requests) <= MaxRequests
    /\ reading \in 0..MaxProcesses /\ alive \cup failed \subseteq Rpc!Processes
    /\ exitError \in BOOLEAN /\ stopping \in BOOLEAN
    /\ stdout \in [Rpc!Processes -> Seq(Rpc!Ids \cup {Rpc!End})]
    /\ listeners \in Seq(Waiters)

\* A listener leaves the array; every second one leaves it.
LEMMA ListenersLeft ==
    ASSUME NEW S, NEW s \in Seq(S)
    PROVE  /\ \A i \in DOMAIN s : Rpc!RemoveAt(s, i) \in Seq(S)
           /\ [n \in 1..(Len(s) \div 2) |-> s[2 * n]] \in Seq(S)
<1>1. ASSUME NEW i \in DOMAIN s
      PROVE  Rpc!RemoveAt(s, i) \in Seq(S)
  <2>1. SubSeq(s, 1, i - 1) \in Seq(S) /\ SubSeq(s, i + 1, Len(s)) \in Seq(S)
    OBVIOUS
  <2> QED BY <2>1 DEF Rpc!RemoveAt
<1> DEFINE half == Len(s) \div 2
<1>2. half \in Nat /\ \A n \in 1..half : 2 * n \in 1..Len(s)
  OBVIOUS
<1>3. \A n \in 1..half : s[2 * n] \in S
  BY <1>2
<1>4. [n \in 1..half |-> s[2 * n]] \in Seq(S)
  <2> HIDE DEF half
  <2> QED BY <1>2, <1>3
<1> QED BY <1>1, <1>4

\* Every step of the client keeps its types.
LEMMA RpcTypesStep ==
    ASSUME RpcTypes, [Rpc!Next]_rpcVars
    PROVE  RpcTypes'
<1> DEFINE Lines == Rpc!Ids \cup {Rpc!End}
<1>0. RpcInv'
  BY RpcStep DEF RpcTypes
<1>1. CASE Rpc!Start
  <2>1. started' \in Rpc!Processes
    BY <1>1, <1>0, RpcAssumption DEF Rpc!Start, Rpc!Processes, RpcInv, RpcTypes
  <2>2. reading' \in 0..MaxProcesses /\ alive' \cup failed' \subseteq Rpc!Processes
    BY <1>1, <2>1, RpcAssumption DEF Rpc!Start, RpcTypes, Rpc!Processes
  <2>3. UNCHANGED <<stopping, stdout, requests, listeners>> /\ exitError' = FALSE
    BY <1>1 DEF Rpc!Start
  <2> QED BY <1>0, <2>2, <2>3 DEF RpcTypes
<1>2. CASE Rpc!Stop
  BY <1>0, <1>2, RpcAssumption DEF Rpc!Stop, RpcTypes
<1>3. CASE Rpc!StopEnds
  BY <1>0, <1>3 DEF Rpc!StopEnds, RpcTypes
<1>4. CASE Rpc!Send
  <2>1. Len(requests') <= MaxRequests
    <3>1. requests \in Seq(RpcRequest) /\ Len(requests) < MaxRequests
      BY <1>4 DEF Rpc!Send, RpcTypes, RpcInv
    <3>2. Len(requests') = Len(requests) + 1
      BY <1>4, <3>1 DEF Rpc!Send
    <3> QED BY <3>1, <3>2, RpcAssumption
  <2> QED BY <1>0, <1>4, <2>1 DEF Rpc!Send, Rpc!procVars, RpcTypes
<1>5. ASSUME NEW ids \in SUBSET DOMAIN requests, NEW o, requests' = Rpc!Settled(ids, o)
      PROVE  Len(requests') = Len(requests)
  <2>1. DOMAIN requests' = DOMAIN requests /\ requests \in Seq(RpcRequest) /\ requests' \in Seq(RpcRequest)
    BY <1>0, <1>5 DEF Rpc!Settled, RpcTypes, RpcInv
  <2> QED BY <2>1
<1>6. CASE Rpc!ReadLine
  <2>1. reading \in Rpc!Processes /\ stdout[reading] # <<>> /\ stdout[reading] \in Seq(Lines)
    BY <1>6, RpcAssumption DEF Rpc!ReadLine, RpcTypes, Rpc!Processes
  <2> DEFINE line == Head(stdout[reading])
  <2>2. Tail(stdout[reading]) \in Seq(Lines)
    BY <2>1
  <2>3. stdout' \in [Rpc!Processes -> Seq(Lines)]
    BY <1>6, <2>1, <2>2 DEF Rpc!ReadLine, RpcTypes
  <2>4. listeners' \in Seq(Waiters)
    BY <1>6, ListenersLeft DEF Rpc!ReadLine, Rpc!Skipped, RpcTypes
  <2>5. Len(requests') <= MaxRequests
    <3>1. CASE line \in pendingRequests
      <4>1. {line} \in SUBSET DOMAIN requests
        BY <3>1 DEF RpcTypes, RpcInv
      <4> QED BY <1>6, <3>1, <4>1, <1>5 DEF Rpc!ReadLine, RpcTypes
    <3>2. CASE line \notin pendingRequests
      BY <1>6, <3>2 DEF Rpc!ReadLine, RpcTypes
    <3> QED BY <3>1, <3>2
  <2> QED BY <1>0, <1>6, <2>3, <2>4, <2>5 DEF Rpc!ReadLine, Rpc!procVars, RpcTypes
<1>7. ASSUME NEW c \in Rpc!Processes, Rpc!Fails(c), alive' \subseteq alive
      PROVE  RpcTypes'
  <2>1. pendingRequests \in SUBSET DOMAIN requests
    BY DEF RpcTypes, RpcInv
  <2>2. Len(requests') <= MaxRequests
    BY <1>7, <2>1, <1>5 DEF Rpc!Fails, RpcTypes
  <2> QED BY <1>0, <1>7, <2>2 DEF Rpc!Fails, RpcTypes
<1>8. ASSUME NEW c \in Rpc!Processes, NEW line \in Lines,
             stdout' = [stdout EXCEPT ![c] = Append(@, line)]
      PROVE  stdout' \in [Rpc!Processes -> Seq(Lines)]
  <2>1. Append(stdout[c], line) \in Seq(Lines)
    BY DEF RpcTypes
  <2> QED BY <1>8, <2>1 DEF RpcTypes
<1>9. ASSUME NEW c \in Rpc!Processes, Rpc!Answer(c)
      PROVE  RpcTypes'
  <2>1. PICK i \in DOMAIN requests : /\ requests' = [requests EXCEPT ![i].answered = TRUE]
                                     /\ stdout' = [stdout EXCEPT ![c] = Append(@, i)]
    BY <1>9 DEF Rpc!Answer
  <2>2. /\ requests \in Seq(RpcRequest) /\ requests' \in Seq(RpcRequest)
        /\ DOMAIN requests' = DOMAIN requests
    BY <1>0, <2>1 DEF RpcTypes, RpcInv
  <2>3. Len(requests') <= MaxRequests /\ i \in Rpc!Ids
    BY <2>2, RpcAssumption DEF RpcTypes, Rpc!Ids
  <2>4. stdout' \in [Rpc!Processes -> Seq(Lines)]
    BY <1>8, <2>1, <2>3
  <2> QED BY <1>0, <1>9, <2>3, <2>4 DEF Rpc!Answer, Rpc!procVars, RpcTypes
<1>10. ASSUME NEW c \in Rpc!Processes, Rpc!RunEnds(c)
       PROVE  RpcTypes'
  <2>1. stdout' \in [Rpc!Processes -> Seq(Lines)]
    BY <1>8, <1>10 DEF Rpc!RunEnds
  <2> QED BY <1>0, <1>10, <2>1 DEF Rpc!RunEnds, Rpc!procVars, RpcTypes
<1>11. ASSUME NEW i \in Rpc!Ids, Rpc!Timeout(i)
       PROVE  RpcTypes'
  <2>1. {i} \in SUBSET DOMAIN requests
    BY <1>11 DEF Rpc!Timeout
  <2> QED BY <1>0, <1>11, <2>1, <1>5 DEF Rpc!Timeout, Rpc!procVars, RpcTypes
<1>12. ASSUME NEW w \in Waiters, Rpc!Listen(w) \/ Rpc!Unlisten(w)
       PROVE  RpcTypes'
  <2>1. listeners' \in Seq(Waiters)
    <3>1. listeners \in Seq(Waiters)
      BY DEF RpcTypes
    <3>2. CASE Rpc!Listen(w)
      BY <3>1, <3>2 DEF Rpc!Listen
    <3>3. CASE Rpc!Unlisten(w)
      BY <3>1, <3>3, ListenersLeft DEF Rpc!Unlisten
    <3> QED BY <1>12, <3>2, <3>3
  <2> QED BY <1>0, <1>12, <2>1 DEF Rpc!Listen, Rpc!Unlisten, Rpc!procVars, RpcTypes
<1>13. CASE UNCHANGED rpcVars
  BY <1>0, <1>13 DEF rpcVars, RpcTypes
<1>14. ASSUME NEW c \in Rpc!Processes, Rpc!Exit(c) \/ Rpc!StdinFails(c)
       PROVE  RpcTypes'
  BY <1>7, <1>14 DEF Rpc!Exit, Rpc!StdinFails
<1> QED BY <1>1, <1>2, <1>3, <1>4, <1>6, <1>9, <1>10, <1>11, <1>12, <1>13, <1>14 DEF Rpc!Next

\* In a run of MCParts every part is at its own beginning and takes its own steps, or
\* stands still: what is proved of a part's specification holds in the run.
THEOREM PartsTakeTheirSteps ==
    PartsSpec => Spec /\ Streams!Spec /\ Fallback!Spec /\ Auth!Spec /\ Rpc!Spec /\ Settings!Spec
<1>1. PartsInit => Init /\ Streams!Init /\ Fallback!Init /\ Auth!Init /\ Rpc!Init /\ Settings!Init
  BY DEF PartsInit
<1>2. ASSUME [PartsNext]_partsVars
      PROVE  /\ [Next]_vars /\ [Streams!Next]_streamVars /\ [Fallback!Next]_fallbackVars
             /\ [Auth!Next]_authVars /\ [Rpc!Next]_rpcVars /\ [Settings!Next]_settingsVars
  BY <1>2 DEF PartsNext, partsVars
<1>3. [Auth!Next]_authVars => [Auth!Next]_(Auth!vars)
  BY DEF authVars, Auth!vars, Auth!procVars, Auth!serverVars, Auth!histVars
<1> QED BY <1>1, <1>2, <1>3, PTL
    DEF PartsSpec, Spec, Streams!Spec, Fallback!Spec, Auth!Spec, Rpc!Spec, Settings!Spec,
        Streams!vars, streamVars, Fallback!vars, fallbackVars, Rpc!vars, rpcVars,
        Settings!vars, settingsVars

\* The types of every part, in the run and for every value of the constants.
THEOREM PartsTypes == PartsSpec => []TypesOK
<1>1. Spec => []TypeOK
  <2>1. QueueInv => TypeOK
    BY DEF QueueInv
  <2> QED BY <2>1, QueueInvariance, PTL
<1>2. Streams!Spec => []Streams!TypeOK
  <2>1. StreamInv => Streams!TypeOK
    <3> SUFFICES ASSUME StreamInv
                 PROVE  Streams!TypeOK
      OBVIOUS
    <3>1. ASSUME NEW s \in Sides
          PROVE  /\ Streams!Range(stream[s].queue) \subseteq Events
                 /\ Streams!Range(stream[s].waiting) \subseteq {i \in Streams!Iterations : Streams!Reads(i) = s}
                 /\ stream[s].done \in BOOLEAN
                 /\ stream[s].result \in {Nothing, Streams!Complete}
                 /\ Streams!Range(log[s].accepted) \cup Streams!Range(log[s].handed) \subseteq Events
      <4>1. stream[s] \in StreamRecord /\ log[s] \in LogRecord /\ StreamOK(s)
        BY DEF StreamInv, StreamTypes
      <4>2. \A k \in DOMAIN stream[s].waiting : stream[s].waiting[k] \in Streams!Iterations
        BY <4>1 DEF StreamRecord
      <4>3. /\ stream[s].queue \in Seq(Events) /\ log[s].accepted \in Seq(Events)
            /\ log[s].handed \in Seq(Events)
            /\ stream[s].done \in BOOLEAN /\ stream[s].result \in {Nothing, Streams!Complete}
        BY <4>1 DEF StreamRecord, LogRecord
      <4>4. \A q \in Seq(Events) : Streams!Range(q) \subseteq Events
        BY DEF Streams!Range
      <4>5. Streams!Range(stream[s].waiting) \subseteq {i \in Streams!Iterations : Streams!Reads(i) = s}
        BY <4>1, <4>2 DEF StreamOK, Streams!Range
      <4> QED BY <4>3, <4>4, <4>5
    <3> QED BY <3>1 DEF StreamInv, StreamTypes, ReaderRecord, Events, Sides, Streams!TypeOK
  <2>2. StreamInv /\ [Streams!Next]_streamVars => StreamInv'
    BY StreamStep, Zenon
  <2> QED BY <2>1, <2>2, StreamInit, PTL DEF Streams!Spec, Streams!vars, streamVars
<1>3. Fallback!Spec => []Fallback!TypeOK
  <2>1. Fallback!Init => Fallback!TypeOK
    BY DEF Fallback!Init, Fallback!TypeOK, Fallback!Models
  <2>2. Fallback!TypeOK /\ [Fallback!Next]_fallbackVars => Fallback!TypeOK'
    BY FallbackTypesStep, Zenon
  <2> QED BY <2>1, <2>2, PTL DEF Fallback!Spec, Fallback!vars, fallbackVars
<1>4. Auth!Spec => []Auth!TypeOK
  <2>1. AuthInv /\ [Auth!Next]_(Auth!vars) => AuthInv'
    BY AuthStep DEF authVars, Auth!vars, Auth!procVars, Auth!serverVars, Auth!histVars
  <2>2. AuthInv => Auth!TypeOK
    BY DEF AuthInv
  <2> QED BY <2>1, <2>2, AuthInit, PTL DEF Auth!Spec
<1>5. Rpc!Spec => []Rpc!TypeOK
  <2>1. Rpc!Init => RpcTypes
    <3> SUFFICES ASSUME Rpc!Init
                 PROVE  RpcTypes
      OBVIOUS
    <3>1. <<>> \in Seq(Rpc!Ids \cup {Rpc!End}) /\ <<>> \in Seq(Waiters)
      OBVIOUS
    <3>2. Len(requests) <= MaxRequests
      BY RpcAssumption DEF Rpc!Init
    <3>3. /\ listeners \in Seq(Waiters) /\ exitError \in BOOLEAN /\ stopping \in BOOLEAN
          /\ reading \in 0..MaxProcesses /\ alive \cup failed \subseteq Rpc!Processes
      <4>1. /\ listeners = <<>> /\ exitError = FALSE /\ stopping = FALSE
            /\ reading = 0 /\ alive = {} /\ failed = {}
        BY DEF Rpc!Init
      <4>2. 0 \in 0..MaxProcesses
        BY RpcAssumption
      <4> QED BY <4>1, <4>2, <3>1
    <3>4. stdout \in [Rpc!Processes -> Seq(Rpc!Ids \cup {Rpc!End})]
      <4>1. stdout = [c \in Rpc!Processes |-> <<>>]
        BY DEF Rpc!Init
      <4> HIDE DEF Rpc!Init
      <4> QED BY <4>1, <3>1, Zenon
    <3> QED BY <3>2, <3>3, <3>4, RpcInit DEF RpcTypes
  <2>2. RpcTypes /\ [Rpc!Next]_rpcVars => RpcTypes'
    BY RpcTypesStep, Zenon
  <2>3. RpcTypes => Rpc!TypeOK
    <3> SUFFICES ASSUME RpcTypes
                 PROVE  Rpc!TypeOK
      OBVIOUS
    <3>1. \A c \in Rpc!Processes : Rpc!Range(stdout[c]) \subseteq Rpc!Ids \cup {Rpc!End}
      BY DEF RpcTypes, Rpc!Range
    <3>2. Rpc!Range(listeners) \subseteq Waiters
      BY DEF RpcTypes, Rpc!Range
    <3> QED BY <3>1, <3>2 DEF RpcTypes, RpcInv, RpcRequest, Rpc!TypeOK
  <2> QED BY <2>1, <2>2, <2>3, PTL DEF Rpc!Spec, Rpc!vars, rpcVars
<1>6. Settings!Spec => []Settings!TypeOK
  <2>1. Settings!Init => SettingsTypes /\ OwnValues
    BY SettingsTypesInit, Zenon
  <2>2. SettingsTypes /\ OwnValues /\ [Settings!Next]_settingsVars => SettingsTypes' /\ OwnValues'
    BY SettingsStep, Zenon
  <2>3. SettingsTypes => Settings!TypeOK
    <3> SUFFICES ASSUME SettingsTypes
                 PROVE  Settings!TypeOK
      OBVIOUS
    <3>1. \A p \in Procs : \A w \in Settings!Range(writeQueue[p]) : w \in SettingsWrite
      BY DEF SettingsTypes, Settings!Range
    <3> QED BY <3>1 DEF SettingsTypes, SettingsWrite, SettingsValues, Settings!TypeOK
  <2> QED BY <2>1, <2>2, <2>3, PTL DEF Settings!Spec, Settings!vars, settingsVars
<1> QED BY <1>1, <1>2, <1>3, <1>4, <1>5, <1>6, PartsTakeTheirSteps, PTL DEF TypesOK

=============================================================================
