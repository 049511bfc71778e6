----------------------------- MODULE SessionLog -----------------------------
(***************************************************************************)
(* SessionManager (coding-agent/src/core/session-manager.ts): a session is *)
(* a tree of entries kept in memory and, from the first response on, in a  *)
(* JSONL file that only grows. A write can fail half way and the process   *)
(* can be killed within one.                                               *)
(*                                                                         *)
(* Entries are numbered in the order of their creation and never change,   *)
(* so memory and files hold numbers; `table` says what each entry is.      *)
(***************************************************************************)
EXTENDS Integers, FiniteSets, SequencesExt, Subsequences

CONSTANTS
    Path,        \* the file names a session may get
    MaxEntries,  \* bound on the entries ever created
    MaxFaults,   \* bound on the writes that fail or tear
    Kinds        \* the kinds of entries the instance appends

ASSUME SessionLogAssumption ==
    /\ MaxEntries \in Nat /\ MaxFaults \in Nat
    /\ Kinds \subseteq {"user", "assistant", "compaction"}

VARIABLES
    table,    \* table[i]: [kind, parent, ref, set] of entry i
    disk,     \* the session files: path -> [lines, tail]
    up,       \* whether a process holds a session open
    file,     \* sessionFile
    entries,  \* fileEntries without the header
    leaf,     \* leafId, 0 for null
    labels,   \* keys of labelsById in the order of the Map
    flushed,
    hurt,     \* files with a write that failed or was torn
    faults    \* number of such writes

vars == <<table, disk, up, file, entries, leaf, labels, flushed, hurt, faults>>
memory == <<file, entries, leaf, labels, flushed>>

Ids == 1..MaxEntries
Header == 0
Junk == -1   \* a line JSON.parse rejects

-----------------------------------------------------------------------------
(* The file: whole lines, and a tail that may lack its newline: "open" when *)
(* the last line is complete otherwise, "torn" when it is not.             *)

Line == Ids \cup {Header, Junk}
File == [lines : Seq(Line), tail : {"closed", "open", "torn"}]

Written(ls) == [lines |-> ls, tail |-> "closed"]

\* appendFileSync of a line: behind a tail without newline both lines are one.
Appended(f, l) ==
    IF f.tail = "closed" THEN Written(Append(f.lines, l))
    ELSE Written(Append(Front(f.lines), Junk))

\* What an append that fails or is killed may leave behind.
CutAppends(f, l) ==
    {f, [lines |-> Append(IF f.tail = "closed" THEN f.lines ELSE Front(f.lines), Junk),
         tail |-> "torn"]}
    \cup {[lines |-> Append(f.lines, l), tail |-> "open"] : x \in {y \in {1} : f.tail = "closed"}}

\* The same for a write of several lines into a new file.
CutWrites(ls) ==
    UNION {CutAppends(Written(SubSeq(ls, 1, k)), ls[k + 1]) : k \in 0..(Len(ls) - 1)}

\* loadEntriesFromFile: skips what does not parse; without a header, nothing.
Load(f) ==
    LET parsed == Kept(f.lines, Line \ {Junk})
    IN  IF parsed # <<>> /\ Head(parsed) = Header THEN parsed ELSE <<>>

Fresh(p) == p \notin DOMAIN disk /\ (up => p # file)

-----------------------------------------------------------------------------
(* Reading the tree.                                                       *)

IsLabel(i) == table[i].kind = "label"

\* getBranch: from an entry up to the root, or to a parent that is missing.
Branch(present, i) ==
    LET path[j \in 0..MaxEntries] ==
            IF j \notin present THEN <<>> ELSE Append(path[table[j].parent], j)
    IN  path[i]

\* buildSessionContext: the last compaction of the path replaces what lies
\* before its first kept entry; other compactions, settings and labels are no
\* messages.  A path ascends, so that what is behind an entry is newer.
Context(present, i) ==
    LET path == Branch(present, i)
        compactions == {j \in Range(path) : table[j].kind = "compaction"}
        last == IF compactions = {} THEN 0 ELSE Max(compactions)
        first == table[last].ref
        behind(j) == j > last \/ (first \in Range(path) /\ first < last /\ j >= first)
        shown == {j \in Range(path) \ compactions : behind(j) /\ ~IsLabel(j)}
    IN  (IF last = 0 THEN <<>> ELSE <<last>>) \o Kept(path, shown)

WithLabel(ls, target, set) ==
    CASE set /\ target \in Range(ls)  -> ls
      [] set /\ target \notin Range(ls) -> Append(ls, target)
      [] ~set -> Kept(ls, Ids \ {target})

\* The labels _buildIndex collects from the entries.
Resolved(es) ==
    LET seen[k \in 0..Len(es)] ==
            IF k = 0 THEN <<>>
            ELSE IF IsLabel(es[k]) THEN WithLabel(seen[k - 1], table[es[k]].ref, table[es[k]].set)
            ELSE seen[k - 1]
    IN  seen[Len(es)]

HasAssistant(es) == \E i \in Range(es) : table'[i].kind = "assistant"

-----------------------------------------------------------------------------
(* Writing.                                                                *)

SetFile(p, f) == [q \in DOMAIN disk \cup {p} |-> IF q = p THEN f ELSE disk[q]]

\* The memory of the process after the step, if there still is one.
Hold(p, es, lf, ls, fl) ==
    IF up' THEN file' = p /\ entries' = es /\ leaf' = lf /\ labels' = ls /\ flushed' = fl
    ELSE file' = p /\ entries' = <<>> /\ leaf' = 0 /\ labels' = <<>> /\ flushed' = FALSE

NoWrite == up' = TRUE /\ UNCHANGED <<disk, hurt, faults>>

\* A copy of a damaged file is damaged.
Heirs(from, p) == IF from \in hurt THEN hurt \cup {p} ELSE hurt

WriteSucceeds(from, p, f) ==
    up' = TRUE /\ disk' = SetFile(p, f) /\ hurt' = Heirs(from, p) /\ UNCHANGED faults

\* The write throws: the process goes on with what it has put into memory.
WriteFails(p, cuts) ==
    /\ faults < MaxFaults
    /\ \E f \in cuts : disk' = SetFile(p, f)
    /\ up' = TRUE /\ faults' = faults + 1 /\ hurt' = hurt \cup {p}

\* The process dies within the write, between two lines or within one.
KilledInWrite(from, p, cuts) ==
    \E f \in cuts :
        /\ f.tail # "closed" => faults < MaxFaults
        /\ disk' = SetFile(p, f) /\ up' = FALSE
        /\ hurt' = IF f.tail = "closed" THEN Heirs(from, p) ELSE hurt \cup {p}
        /\ faults' = IF f.tail = "closed" THEN faults ELSE faults + 1

\* The lines of the first write: all the session has.
FirstLines(es) == <<Header>> \o es

\* _appendEntry and _persist of entry i, which joins the table in this step;
\* ls are the labels when the write succeeds.
Persisted(i, ls) ==
    LET es == Append(entries, i)
        all == FirstLines(es)
        Remember(l, fl) == Hold(file, es, i, l, fl)
    IN  CASE ~flushed /\ ~HasAssistant(es) -> NoWrite /\ Remember(ls, FALSE)
          [] ~flushed /\ HasAssistant(es) /\ file \notin DOMAIN disk ->
                \/ WriteSucceeds(file, file, Written(all)) /\ Remember(ls, TRUE)
                \/ (WriteFails(file, CutWrites(all)) \/ KilledInWrite(file, file, CutWrites(all)))
                   /\ Remember(labels, FALSE)
          \* openSync with "wx" throws: the file exists
          [] ~flushed /\ HasAssistant(es) /\ file \in DOMAIN disk ->
                NoWrite /\ Remember(labels, FALSE)
          [] flushed ->
                \/ WriteSucceeds(file, file, Appended(disk[file], i)) /\ Remember(ls, TRUE)
                \/ (WriteFails(file, CutAppends(disk[file], i))
                    \/ KilledInWrite(file, file, CutAppends(disk[file], i)))
                   /\ Remember(labels, TRUE)

New == Len(table) + 1

NewEntry(kind, parent, ref, set) ==
    /\ up /\ New <= MaxEntries
    /\ table' = Append(table, [kind |-> kind, parent |-> parent, ref |-> ref, set |-> set])

\* appendMessage, appendModelChange and the like; appendCompaction, which keeps
\* the entries from one of the branch on.
AppendEntry ==
    \E kind \in Kinds, ref \in 0..MaxEntries :
        /\ IF kind = "compaction" THEN ref \in Range(Branch(Range(entries), leaf)) ELSE ref = 0
        /\ NewEntry(kind, leaf, ref, FALSE)
        /\ Persisted(New, labels)

AppendLabelChange ==
    \E target \in Range(entries), set \in BOOLEAN :
        /\ NewEntry("label", leaf, target, set)
        /\ Persisted(New, WithLabel(labels, target, set))

BranchWithSummary ==
    \E from \in Range(entries) \cup {0} :
        /\ NewEntry("summary", from, 0, FALSE)
        /\ Persisted(New, labels)

\* branch and resetLeaf; nothing is written.
MoveLeaf ==
    /\ up /\ leaf' \in (Range(entries) \cup {0}) \ {leaf}
    /\ UNCHANGED <<table, disk, up, file, entries, labels, flushed, hurt, faults>>

-----------------------------------------------------------------------------
(* Sessions and files.                                                     *)

\* Mutant: the new session starts below the old one's leaf.
NewSessionBelow(p) ==
    /\ Fresh(p)
    /\ NoWrite /\ Hold(p, <<>>, leaf, <<>>, FALSE)
    /\ UNCHANGED table

NewSession(p) ==
    /\ Fresh(p)
    /\ NoWrite /\ Hold(p, <<>>, 0, <<>>, FALSE)
    /\ UNCHANGED table

\* Mutants: a loaded session counts as not yet written; the leaf stays where it was.
OpenedUnflushed(p, es) ==
    Hold(p, es, IF es = <<>> THEN 0 ELSE Last(es), Resolved(es), FALSE)
OpenedOldLeaf(p, es) == Hold(p, es, leaf, Resolved(es), TRUE)

Opened(p, es) == Hold(p, es, IF es = <<>> THEN 0 ELSE Last(es), Resolved(es), TRUE)

\* Mutant: a file with a line that does not parse is taken for a corrupt one.
OpenStrictly(p) ==
    /\ p \in DOMAIN disk
    /\ up' = TRUE
    /\ IF Load(disk[p]) # <<>> /\ Junk \notin Range(disk[p].lines)
       THEN UNCHANGED <<disk, hurt>> /\ Opened(p, Tail(Load(disk[p])))
       ELSE /\ disk' = SetFile(p, Written(<<Header>>)) /\ hurt' = hurt \ {p}
            /\ Opened(p, <<>>)
    /\ UNCHANGED <<table, faults>>

\* setSessionFile of an existing file; one without a header is written anew.
Open(p) ==
    /\ p \in DOMAIN disk
    /\ up' = TRUE
    /\ IF Load(disk[p]) # <<>>
       THEN UNCHANGED <<disk, hurt>> /\ Opened(p, Tail(Load(disk[p])))
       ELSE /\ disk' = SetFile(p, Written(<<Header>>)) /\ hurt' = hurt \ {p}
            /\ Opened(p, <<>>)
    /\ UNCHANGED <<table, faults>>

\* forkFrom copies a file line by line into a new one, then opens it.
ForkFrom(source, p) ==
    /\ source \in DOMAIN disk /\ Load(disk[source]) # <<>> /\ Fresh(p)
    /\ LET lines == Load(disk[source])
       IN  \/ WriteSucceeds(source, p, Written(lines)) /\ Opened(p, Tail(lines))
           \/ WriteFails(p, CutWrites(lines)) /\ UNCHANGED memory /\ up
           \/ KilledInWrite(source, p, CutWrites(lines)) /\ Hold(p, <<>>, 0, <<>>, FALSE)
    /\ UNCHANGED table

\* Mutant: every label starts a root of its own.
LabelRoots(path, targets) ==
    [k \in DOMAIN targets |-> [kind |-> "label", ref |-> targets[k], set |-> TRUE, parent |-> 0]]

\* The label entries createBranchedSession writes behind the path: a chain.
LabelChain(path, targets) ==
    [k \in DOMAIN targets |->
        [kind |-> "label", ref |-> targets[k], set |-> TRUE,
         parent |-> IF k = 1 THEN (IF path = <<>> THEN 0 ELSE Last(path)) ELSE Len(table) + k - 1]]

CreateBranchedSession(i, p) ==
    /\ up /\ i \in Range(entries) /\ Fresh(p)
    /\ LET path == Kept(Branch(Range(entries), i), {j \in Range(entries) : ~IsLabel(j)})
           targets == Kept(labels, Range(path))
           es == path \o [k \in DOMAIN targets |-> Len(table) + k]
           last == IF es = <<>> THEN 0 ELSE Last(es)
           all == <<Header>> \o es
       IN  /\ Len(table) + Len(targets) <= MaxEntries
           /\ table' = table \o LabelChain(path, targets)
           /\ IF HasAssistant(es)
              THEN \/ WriteSucceeds(file, p, Written(all)) /\ Hold(p, es, last, targets, TRUE)
                   \* memory has changed before _rewriteFile throws
                   \/ (WriteFails(p, CutWrites(all)) \/ KilledInWrite(file, p, CutWrites(all)))
                      /\ Hold(p, es, last, targets, flushed)
              ELSE /\ up' = TRUE /\ hurt' = Heirs(file, p) /\ UNCHANGED <<disk, faults>>
                   /\ Hold(p, es, last, targets, FALSE)

Crash ==
    /\ up /\ up' = FALSE /\ Hold(file, <<>>, 0, <<>>, FALSE)
    /\ UNCHANGED <<table, disk, hurt, faults>>

Init ==
    /\ table = <<>> /\ disk = <<>> /\ up = TRUE
    /\ file \in Path /\ entries = <<>> /\ leaf = 0 /\ labels = <<>> /\ flushed = FALSE
    /\ hurt = {} /\ faults = 0

Next ==
    \/ AppendEntry \/ AppendLabelChange \/ BranchWithSummary \/ MoveLeaf \/ Crash
    \/ \E p \in Path :
        \/ NewSession(p) \/ Open(p)
        \/ \E source \in Path : ForkFrom(source, p)
        \/ \E i \in Range(entries) : CreateBranchedSession(i, p)

Spec == Init /\ [][Next]_vars

\* The names of the files do not matter.
Symmetry == Permutations(Path)

-----------------------------------------------------------------------------
(* Properties.                                                             *)

\* The types of the variables.
TypeOK ==
    /\ Len(table) <= MaxEntries
    /\ \A i \in DOMAIN table :
          table[i] \in [kind : Kinds \cup {"label", "summary"}, parent : 0..MaxEntries,
                        ref : 0..MaxEntries, set : BOOLEAN]
    /\ DOMAIN disk \subseteq Path /\ \A p \in DOMAIN disk : disk[p] \in File
    /\ up \in BOOLEAN /\ flushed \in BOOLEAN /\ file \in Path
    /\ entries \in Seq(Ids) /\ leaf \in {0} \cup Range(entries)
    /\ labels \in Seq(Ids) /\ hurt \subseteq Path /\ faults \in 0..MaxFaults

Answered == \E i \in Range(entries) : table[i].kind = "assistant"

\* From the first response on, what a process that opens the file would load is
\* the session in memory, entry by entry, with its labels; before it there is no
\* file that could refuse the first write.  And whatever fails or is torn, a file
\* never holds an entry its session does not have, nor one twice, nor two in
\* another order than they were appended.
AnsweredIsSaved ==
    LET session == <<Header>> \o entries
        saved == IF file \in DOMAIN disk THEN Load(disk[file]) ELSE <<>>
    IN  up => /\ saved = Kept(session, Range(saved)) /\ IsInjective(entries)
              /\ file \notin hurt =>
                    /\ IF flushed THEN saved = session
                       ELSE ~Answered /\ file \notin DOMAIN disk
                    /\ labels = Resolved(entries)

\* No entry of an undamaged session has lost an ancestor, but for a label in
\* the middle of a branched path: across restarts, branches, forks and new
\* sessions the context goes back to the start of the conversation.
LineageKept ==
    up /\ file \notin hurt =>
        \A i \in Range(entries) :
            LET parent == table[i].parent
            IN  parent \in {0} \cup Range(entries) \/ IsLabel(parent)

\* A step leaves every file but that of the session it ends in alone, and what
\* a file had saved stays saved: only a last line without its newline can go.
SavedStaysSaved ==
    [][\A p \in DOMAIN disk :
          /\ p \in DOMAIN disk'
          /\ disk'[p] # disk[p] => file' = p
          /\ LET saved == Load(disk[p])
             IN  IsPrefix(IF disk[p].tail = "open" THEN Front(saved) ELSE saved, Load(disk'[p]))]_vars

\* SessionManager.buildSessionContext
Shown == Context(Range(entries), leaf)

BranchesWithoutLabel(i) ==
    LET path == Branch(Range(entries), i)
    IN  \A k \in DOMAIN path :
            /\ k > 1 => ~IsLabel(path[k - 1])
            /\ table[path[k]].kind = "compaction" => ~IsLabel(table[path[k]].ref)

\* A branched session shows the model what its path showed, where no label lies
\* within the path, and keeps the labels of the path's entries.
BranchedSessionKeepsPath ==
    [][\A i \in Range(entries), p \in Path :
          CreateBranchedSession(i, p) /\ up' =>
              /\ BranchesWithoutLabel(i)
                    => Shown' = Context(Range(entries), i)
              /\ Range(labels') = {t \in Range(labels) :
                                      t \in Range(Branch(Range(entries), i)) /\ ~IsLabel(t)}]_vars

\* "Create a new session file containing only the path from root to the
\* specified leaf": the model sees the same conversation.
BranchedSessionIsPath ==
    [][\A i \in Range(entries), p \in Path :
          CreateBranchedSession(i, p) /\ up'
              => Shown' = Context(Range(entries), i)]_vars

=============================================================================
