-------------------------- MODULE SessionLogProofs --------------------------
(***************************************************************************)
(* Proofs about SessionLog, for any number of entries, files and faults.   *)
(*                                                                         *)
(* Entries are numbered as they are created, and whatever holds entries -  *)
(* the memory, a file, a path of the tree - holds them in that order.  So  *)
(* two of these that hold the same entries are equal (OneAscending), and   *)
(* the question whether a file is the session becomes one of sets: the     *)
(* file of a session holds nothing but lines of that session, whatever was *)
(* cut, glued or copied (Own).  An undamaged file is closed under parents, *)
(* which a branched session and a fork hand on (Clean).  What a write that *)
(* fails, or finds the end of one that did, leaves of a file is in         *)
(* AppendSurvives.  A branched session is a row: each entry is the parent  *)
(* of the next, so that it is its own branch (RowIsBranch), and shows what *)
(* the path showed (SameContext).                                          *)
(***************************************************************************)
EXTENDS SessionLog, RecursionFacts, SequenceTheorems

-----------------------------------------------------------------------------
(* Sequences that ascend.                                                  *)

\* Every element is behind the smaller ones.
Ascending(s) == \A j, k \in 1..Len(s) : j < k => s[j] < s[k]
AscendingIn(s, S) == \A j, k \in 1..Len(s) : j < k /\ s[j] \in S /\ s[k] \in S => s[j] < s[k]

\* A greater element, or another one, may join at the end.
LEMMA AscendsOn ==
    ASSUME NEW a \in Seq(Int), Ascending(a), NEW e \in Int, \A x \in Range(a) : x < e
    PROVE  Ascending(Append(a, e))
<1> DEFINE c == Append(a, e)
<1>1. Len(a) \in Nat /\ Len(c) = Len(a) + 1 /\ c[Len(a) + 1] = e /\ \A i \in 1..Len(a) : c[i] = a[i]
  OBVIOUS
<1>2. \A i \in 1..Len(a) : a[i] < e
  BY DEF Range
<1> HIDE DEF c
<1>3. ASSUME NEW j \in 1..Len(c), NEW k \in 1..Len(c), j < k
      PROVE  c[j] < c[k]
  <2>1. j \in 1..Len(a) /\ c[j] = a[j]
    BY <1>1, <1>3
  <2>2. CASE k = Len(a) + 1
    BY <1>1, <1>2, <2>1, <2>2
  <2>3. CASE k # Len(a) + 1
    <3>1. k \in 1..Len(a) /\ c[k] = a[k]
      BY <1>1, <2>3
    <3> QED BY <1>3, <2>1, <3>1 DEF Ascending
  <2> QED BY <2>2, <2>3
<1> QED BY <1>3 DEF Ascending, c

\* No element twice, with a new one at the end.
LEMMA InjectiveOn ==
    ASSUME NEW T, NEW a \in Seq(T), IsInjective(a), NEW e \in T, e \notin Range(a)
    PROVE  IsInjective(Append(a, e))
<1> DEFINE c == Append(a, e)
<1>1. Len(a) \in Nat /\ DOMAIN c = 1..(Len(a) + 1) /\ c[Len(a) + 1] = e /\ \A i \in 1..Len(a) : c[i] = a[i]
  OBVIOUS
<1>2. DOMAIN a = 1..Len(a) /\ \A i \in 1..Len(a) : a[i] # e
  BY DEF Range
<1> HIDE DEF c
<1>3. ASSUME NEW j \in DOMAIN c, NEW k \in DOMAIN c, c[j] = c[k]
      PROVE  j = k
  <2>1. j = Len(a) + 1 \/ j \in 1..Len(a)
    BY <1>1
  <2>2. k = Len(a) + 1 \/ k \in 1..Len(a)
    BY <1>1
  <2>3. CASE j \in 1..Len(a) /\ k \in 1..Len(a)
    BY <1>1, <1>2, <1>3, <2>3 DEF IsInjective
  <2> QED BY <1>1, <1>2, <1>3, <2>1, <2>2, <2>3
<1> QED BY <1>3 DEF IsInjective, c

\* What is kept of what ascends ascends.
LEMMA KeptAscends ==
    ASSUME NEW s \in Seq(Int), NEW S, AscendingIn(s, S)
    PROVE  Ascending(Kept(s, S))
<1> DEFINE n == Len(s)
           f == KeptOf(s, S)
           A == {i \in Nat : i <= n => Ascending(f[i])}
<1>1. n \in Nat /\ \A j \in 1..n : s[j] \in Int
  OBVIOUS
<1>2. f \in [0..n -> Seq(Int)] /\ f[0] = <<>> /\ Kept(s, S) = f[n]
      /\ \A j \in 1..n : f[j] = IF s[j] \in S THEN Append(f[j - 1], s[j]) ELSE f[j - 1]
  BY KeptExists
<1>3. \A i \in 0..n : Range(f[i]) = {s[j] : j \in 1..i} \cap S
  BY KeptSoFar
<1> HIDE DEF n, f
<1>4. 0 \in A
  BY <1>2 DEF Ascending
<1>5. ASSUME NEW i \in A
      PROVE  i + 1 \in A
  <2> SUFFICES ASSUME i + 1 <= n
               PROVE  Ascending(f[i + 1])
    OBVIOUS
  <2>1. i + 1 \in 1..n /\ (i + 1) - 1 = i /\ s[i + 1] \in Int /\ i \in 0..n
    BY <1>1
  <2>2. f[i] \in Seq(Int) /\ f[i + 1] = IF s[i + 1] \in S THEN Append(f[i], s[i + 1]) ELSE f[i]
    BY <1>2, <2>1
  <2>3. Ascending(f[i])
    BY <2>1
  <2>4. CASE s[i + 1] \in S
    <3>1. ASSUME NEW x \in Range(f[i])
          PROVE  x < s[i + 1]
      <4>3. Range(f[i]) = {s[j] : j \in 1..i} \cap S
        BY <1>3, <2>1
      <4>1. PICK j \in 1..i : x = s[j] /\ s[j] \in S
        BY <4>3
      <4>2. j \in 1..n /\ i + 1 \in 1..n /\ j < i + 1
        BY <1>1, <2>1
      <4> QED BY <2>4, <4>1, <4>2 DEF AscendingIn, n
    <3> QED BY <2>1, <2>2, <2>3, <2>4, <3>1, AscendsOn
  <2> QED BY <2>2, <2>3, <2>4
<1>6. A = Nat
  <2> HIDE DEF A
  <2> QED BY <1>4, <1>5, Induct DEF A
<1>7. Ascending(f[n])
  BY <1>1, <1>6
<1> QED BY <1>2, <1>7

\* What is kept of what holds nothing twice holds nothing twice.
LEMMA KeptInjective ==
    ASSUME NEW T, NEW s \in Seq(T), NEW S, IsInjective(s)
    PROVE  IsInjective(Kept(s, S))
<1> DEFINE n == Len(s)
           f == KeptOf(s, S)
           A == {i \in Nat : i <= n => IsInjective(f[i])}
<1>1. n \in Nat /\ DOMAIN s = 1..n /\ \A j \in 1..n : s[j] \in T
  OBVIOUS
<1>2. f \in [0..n -> Seq(T)] /\ f[0] = <<>> /\ Kept(s, S) = f[n]
      /\ \A j \in 1..n : f[j] = IF s[j] \in S THEN Append(f[j - 1], s[j]) ELSE f[j - 1]
  BY KeptExists
<1>3. \A i \in 0..n : Range(f[i]) = {s[j] : j \in 1..i} \cap S
  BY KeptSoFar
<1> HIDE DEF n, f
<1>4. 0 \in A
  BY <1>2 DEF IsInjective
<1>5. ASSUME NEW i \in A
      PROVE  i + 1 \in A
  <2> SUFFICES ASSUME i + 1 <= n
               PROVE  IsInjective(f[i + 1])
    OBVIOUS
  <2>1. i + 1 \in 1..n /\ (i + 1) - 1 = i /\ s[i + 1] \in T /\ i \in 0..n
    BY <1>1
  <2>2. f[i] \in Seq(T) /\ f[i + 1] = IF s[i + 1] \in S THEN Append(f[i], s[i + 1]) ELSE f[i]
    BY <1>2, <2>1
  <2>3. IsInjective(f[i])
    BY <2>1
  <2>4. CASE s[i + 1] \in S
    <3>1. s[i + 1] \notin Range(f[i])
      <4>1. ASSUME NEW j \in 1..i, s[j] = s[i + 1]
            PROVE  FALSE
        <5>1. j \in DOMAIN s /\ i + 1 \in DOMAIN s /\ j # i + 1
          BY <1>1, <2>1
        <5> QED BY <4>1, <5>1 DEF IsInjective
      <4> QED BY <1>3, <2>1, <4>1
    <3> QED BY <2>1, <2>2, <2>3, <2>4, <3>1, InjectiveOn
  <2> QED BY <2>2, <2>3, <2>4
<1>6. A = Nat
  <2> HIDE DEF A
  <2> QED BY <1>4, <1>5, Induct DEF A
<1>7. IsInjective(f[n])
  BY <1>1, <1>6
<1> QED BY <1>2, <1>7

\* Two sequences that ascend and have the same elements agree where they agreed so far ...
LEMMA AscendingAgree ==
    ASSUME NEW x \in Seq(Int), NEW y \in Seq(Int), Ascending(x), Ascending(y), Range(x) = Range(y),
           NEW k \in 1..Len(x), \A j \in 1..(k - 1) : j <= Len(y) /\ x[j] = y[j]
    PROVE  k <= Len(y) /\ x[k] = y[k]
<1> DEFINE n == Len(x)
           l == Len(y)
<1>1. n \in Nat /\ l \in Nat /\ (\A j \in 1..n : x[j] \in Int) /\ (\A j \in 1..l : y[j] \in Int)
  OBVIOUS
<1>2. (\A i, j \in 1..n : i < j => x[i] < x[j]) /\ (\A i, j \in 1..l : i < j => y[i] < y[j])
  BY DEF Ascending
<1>3. \A i \in 1..n : \E j \in 1..l : y[j] = x[i]
  <2> TAKE i \in 1..n
  <2>1. x[i] \in Range(x)
    BY DEF Range
  <2>2. x[i] \in Range(y)
    BY <2>1
  <2> QED BY <2>2 DEF Range
<1>4. \A i \in 1..l : \E j \in 1..n : x[j] = y[i]
  <2> TAKE i \in 1..l
  <2>1. y[i] \in Range(y)
    BY DEF Range
  <2>2. y[i] \in Range(x)
    BY <2>1
  <2> QED BY <2>2 DEF Range
<1>5. k \in 1..n /\ \A j \in 1..(k - 1) : j <= l /\ x[j] = y[j]
  OBVIOUS
<1> HIDE DEF n, l
<1>6. PICK m \in 1..l : y[m] = x[k]
  BY <1>3, <1>5
<1>7. ASSUME m < k
      PROVE  FALSE
  <2>1. m \in 1..(k - 1) /\ m \in 1..n
    BY <1>1, <1>5, <1>7
  <2>2. x[m] = x[k] /\ x[m] < x[k]
    BY <1>2, <1>5, <1>6, <1>7, <2>1
  <2> QED BY <1>1, <2>1, <2>2
<1>8. k \in 1..l
  BY <1>1, <1>5, <1>7
<1>9. ASSUME k < m
      PROVE  FALSE
  <2>1. y[k] < x[k]
    BY <1>2, <1>6, <1>8, <1>9
  <2>2. PICK i \in 1..n : x[i] = y[k]
    BY <1>4, <1>8
  <2>3. i < k
    <3>1. CASE i = k
      BY <1>1, <1>5, <1>8, <2>1, <2>2, <3>1
    <3>2. CASE k < i
      <4>1. x[k] < x[i]
        BY <1>2, <1>5, <3>2
      <4> QED BY <1>1, <1>5, <1>8, <2>1, <2>2, <4>1
    <3> QED BY <1>1, <1>5, <3>1, <3>2
  <2>4. i \in 1..(k - 1) /\ i \in 1..l
    BY <1>1, <1>5, <1>8, <2>3
  <2>5. y[i] = y[k] /\ y[i] < y[k]
    BY <1>2, <1>5, <1>8, <2>2, <2>3, <2>4
  <2> QED BY <1>1, <1>8, <2>4, <2>5
<1>10. m = k
  BY <1>1, <1>5, <1>7, <1>9
<1> QED BY <1>6, <1>8, <1>10 DEF l

\* ... and so are one.
LEMMA OneAscending ==
    ASSUME NEW a \in Seq(Int), NEW b \in Seq(Int), Ascending(a), Ascending(b), Range(a) = Range(b)
    PROVE  a = b
<1> DEFINE n == Len(a)
           l == Len(b)
           D == {k \in Nat \ {0} : (k <= n \/ k <= l) /\ ~(k <= n /\ k <= l /\ a[k] = b[k])}
<1>1. n \in Nat /\ l \in Nat
  OBVIOUS
<1>2. D = {}
  <2> SUFFICES ASSUME D # {} PROVE FALSE
    OBVIOUS
  <2>1. PICK k \in D : \A j \in D : k <= j
    <3>1. D \in SUBSET Nat /\ D # {}
      OBVIOUS
    <3> HIDE DEF D
    <3> QED BY <3>1, Least
  <2>2. k \in Nat \ {0} /\ (k <= n \/ k <= l) /\ ~(k <= n /\ k <= l /\ a[k] = b[k])
    BY <2>1
  <2>3. \A j \in 1..(k - 1) : j <= n /\ j <= l /\ a[j] = b[j]
    <3> TAKE j \in 1..(k - 1)
    <3>1. j \in Nat \ {0} /\ j < k
      BY <2>2
    <3>2. j \notin D
      BY <2>1, <2>2, <3>1
    <3>3. j <= n \/ j <= l
      BY <1>1, <2>2, <3>1
    <3> QED BY <3>1, <3>2, <3>3
  <2>4. CASE k <= n
    <3>1. k \in 1..Len(a) /\ \A j \in 1..(k - 1) : j <= Len(b) /\ a[j] = b[j]
      BY <1>1, <2>2, <2>3, <2>4
    <3>2. k <= Len(b) /\ a[k] = b[k]
      BY <3>1, AscendingAgree
    <3> QED BY <2>2, <2>4, <3>2
  <2>5. CASE k <= l
    <3>1. k \in 1..Len(b) /\ \A j \in 1..(k - 1) : j <= Len(a) /\ b[j] = a[j]
      BY <1>1, <2>2, <2>3, <2>5
    <3>2. k <= Len(a) /\ b[k] = a[k]
      BY <3>1, AscendingAgree
    <3> QED BY <2>2, <2>5, <3>2
  <2> QED BY <2>2, <2>4, <2>5
<1>3. \A k \in Nat \ {0} : k <= n \/ k <= l => k <= n /\ k <= l /\ a[k] = b[k]
  BY <1>2
<1>4. n = l
  <2> HIDE DEF n, l
  <2>1. (n # 0 => n <= l) /\ (l # 0 => l <= n)
    BY <1>1, <1>3
  <2> QED BY <1>1, <2>1
<1>5. \A k \in 1..n : a[k] = b[k]
  <2> HIDE DEF n, l
  <2> QED BY <1>1, <1>3
<1> QED BY <1>1, <1>4, <1>5

-----------------------------------------------------------------------------
(* The invariant. Its parts are of a table t, of which n are the entries.  *)

\* The table of entries.
Entry == [kind : Kinds \cup {"label", "summary"}, parent : 0..MaxEntries, ref : 0..MaxEntries, set : BOOLEAN]

\* What an entry refers to was there before it, and a label is of an entry.
Refers(t, i) == t[i].parent < i /\ t[i].ref < i /\ (t[i].kind = "label" => t[i].ref # 0)
Tables == {t \in Seq(Entry) : Len(t) <= MaxEntries /\ \A i \in 1..Len(t) : Refers(t, i)}

\* A table that has grown.
Grown(t, u) == Len(t) <= Len(u) /\ \A i \in 1..Len(t) : u[i] = t[i]

\* Entries, or lines, of the first n.
Below(s, n) == \A k \in 1..Len(s) : s[k] <= n

\* A file, whatever was written, failed and was torn: the lines that parse ascend, and
\* the tail says whether the last one does.
Parsed == Line \ {Junk}
FileShape(f, n) ==
    /\ f \in File /\ Below(f.lines, n) /\ AscendingIn(f.lines, Parsed)
    /\ f.tail # "closed" => f.lines # <<>> /\ (f.lines[Len(f.lines)] = Junk <=> f.tail = "torn")

\* What the process holds: entries in their order, a leaf among them or none, labels.
Memory(es, lf, ls, n) ==
    /\ es \in Seq(Ids) /\ Below(es, n) /\ Ascending(es)
    /\ lf \in {0} \cup Range(es)
    /\ ls \in Seq(Ids) /\ Below(ls, n) /\ IsInjective(ls)

\* The types of the variables, and the order of the entries.
Types ==
    /\ table \in Tables
    /\ DOMAIN disk \subseteq Path /\ \A p \in DOMAIN disk : FileShape(disk[p], Len(table))
    /\ up \in BOOLEAN /\ flushed \in BOOLEAN /\ file \in Path
    /\ Memory(entries, leaf, labels, Len(table))
    /\ hurt \subseteq Path /\ faults \in 0..MaxFaults

\* Each entry has its parent, or a label that was left out.
Closed(t, S) == \A i \in S : t[i].parent \in {0} \cup S \/ t[t[i].parent].kind = "label"

\* A file that took all its writes, or whose last one was cut between two lines.
Clean(t, f) ==
    /\ f.tail = "closed" /\ (f.lines # <<>> => f.lines[1] = Header) /\ Junk \notin Range(f.lines)
    /\ Closed(t, Range(f.lines) \ {Header})

\* What took all its writes is clean.
FilesClean == \A p \in DOMAIN disk \ hurt : Clean(table, disk[p])

\* Resolved, of a table.
ResolvedOf(t, es) ==
    LET seen[k \in 0..Len(es)] ==
            IF k = 0 THEN <<>>
            ELSE IF t[es[k]].kind = "label" THEN WithLabel(seen[k - 1], t[es[k]].ref, t[es[k]].set)
            ELSE seen[k - 1]
    IN  seen[Len(es)]

\* The file p of a session: it holds nothing but the session, and if it took all its
\* writes, all of it from the first response on.
Own(t, d, h, p, es, ls, fl) ==
    /\ fl => p \in DOMAIN d
    /\ p \in DOMAIN d => Range(d[p].lines) \subseteq {Header, Junk} \cup Range(es)
    /\ p \notin h =>
          /\ Closed(t, Range(es)) /\ ls = ResolvedOf(t, es)
          /\ IF fl THEN d[p] = Written(FirstLines(es))
             ELSE p \notin DOMAIN d /\ \A i \in Range(es) : t[i].kind # "assistant"

\* The file of the session, while the process is up.
FileOfSession == up => Own(table, disk, hurt, file, entries, labels, flushed)

\* The inductive invariant.
LogInv == Types /\ FilesClean /\ FileOfSession

-----------------------------------------------------------------------------
(* Lines and files.                                                        *)

\* Lines are numbers: entries from 1 on, the header, and a line that does not parse, all
\* apart.
LEMMA LineNumbers ==
    /\ Ids \subseteq Nat \ {0} /\ Parsed = Ids \cup {Header} /\ Line = Ids \cup {Header, Junk}
    /\ Parsed \subseteq Int /\ Line \subseteq Int /\ Header \notin Ids /\ Junk \notin Parsed
BY SessionLogAssumption DEF Ids, Parsed, Line, Header, Junk

\* The header in front.
LEMMA HeaderFirst ==
    ASSUME NEW es \in Seq(Ids), Ascending(es), NEW n \in Nat, Below(es, n)
    PROVE  /\ FirstLines(es) \in Seq(Parsed) /\ Ascending(FirstLines(es)) /\ Below(FirstLines(es), n)
           /\ Range(FirstLines(es)) = {Header} \cup Range(es)
           /\ Len(FirstLines(es)) = Len(es) + 1 /\ FirstLines(es)[1] = Header /\ Tail(FirstLines(es)) = es
<1> DEFINE s == FirstLines(es)
           l == Len(es)
<1>1. /\ l \in Nat /\ Len(s) = l + 1 /\ DOMAIN s = 1..(l + 1) /\ s[1] = Header
      /\ \A i \in 1..l : s[i + 1] = es[i] /\ es[i] \in Ids
  BY DEF FirstLines
<1>2. \A i \in 1..(l + 1) : i = 1 \/ (i - 1 \in 1..l /\ s[i] = es[i - 1])
  <2> TAKE i \in 1..(l + 1)
  <2>1. CASE i # 1
    <3>1. i - 1 \in 1..l /\ (i - 1) + 1 = i
      BY <1>1, <2>1
    <3> QED BY <1>1, <3>1
  <2> QED BY <2>1
<1>3. s \in Seq(Parsed)
  <2>1. <<Header>> \in Seq(Parsed) /\ es \in Seq(Parsed)
    BY <1>1, LineNumbers
  <2> QED BY <2>1 DEF FirstLines
<1>4. Tail(s) = es
  <2>1. <<Header>> \in Seq(Parsed) /\ es \in Seq(Parsed)
    BY <1>1, LineNumbers
  <2> QED BY <2>1 DEF FirstLines
<1> HIDE DEF s
<1>5. Range(s) = {Header} \cup Range(es)
  <2>1. ASSUME NEW x \in Range(s)
        PROVE  x \in {Header} \cup Range(es)
    <3>1. PICK i \in 1..(l + 1) : x = s[i]
      BY <1>1, <2>1 DEF Range
    <3>2. CASE i = 1
      BY <1>1, <3>1, <3>2
    <3>3. CASE i # 1
      BY <1>2, <3>1, <3>3 DEF Range
    <3> QED BY <3>2, <3>3
  <2>2. ASSUME NEW x \in Range(es)
        PROVE  x \in Range(s)
    <3>1. PICK i \in 1..l : x = es[i]
      BY <2>2 DEF Range
    <3>2. i + 1 \in DOMAIN s /\ s[i + 1] = x
      BY <1>1, <3>1
    <3> QED BY <3>2 DEF Range
  <2>3. Header \in Range(s)
    <3>1. 1 \in DOMAIN s
      BY <1>1
    <3> QED BY <1>1, <3>1 DEF Range
  <2> QED BY <2>1, <2>2, <2>3
<1>6. ASSUME NEW j \in 1..(l + 1), NEW k \in 1..(l + 1), j < k
      PROVE  s[j] < s[k]
  <2>1. k - 1 \in 1..l /\ s[k] = es[k - 1] /\ es[k - 1] \in Nat \ {0}
    BY <1>1, <1>2, <1>6, LineNumbers
  <2>2. CASE j = 1
    BY <1>1, <2>1, <2>2 DEF Header
  <2>3. CASE j # 1
    <3>1. j - 1 \in 1..l /\ s[j] = es[j - 1] /\ j - 1 < k - 1
      BY <1>2, <1>6, <2>3
    <3> QED BY <2>1, <3>1 DEF Ascending
  <2> QED BY <2>2, <2>3
<1>7. Ascending(s)
  BY <1>1, <1>6 DEF Ascending
<1>8. Below(s, n)
  <2>1. \A i \in 1..(l + 1) : s[i] <= n
    BY <1>1, <1>2 DEF Below, Header
  <2> QED BY <1>1, <2>1 DEF Below
<1> QED BY <1>1, <1>3, <1>4, <1>5, <1>7, <1>8 DEF s

\* The entries behind it.
LEMMA HeaderOff ==
    ASSUME NEW s \in Seq(Parsed), Ascending(s), s # <<>>, s[1] = Header, NEW n \in Nat, Below(s, n)
    PROVE  /\ Tail(s) \in Seq(Ids) /\ Ascending(Tail(s)) /\ Below(Tail(s), n)
           /\ s = FirstLines(Tail(s)) /\ Range(s) = {Header} \cup Range(Tail(s))
<1> DEFINE es == Tail(s)
           l == Len(s)
<1>1. /\ l \in Nat \ {0} /\ Len(es) = l - 1 /\ DOMAIN es = 1..(l - 1) /\ es \in Seq(Parsed)
      /\ \A i \in 1..(l - 1) : es[i] = s[i + 1] /\ s[i + 1] \in Parsed
  OBVIOUS
<1>2. \A i, j \in 1..l : i < j => s[i] < s[j]
  BY DEF Ascending
<1>3. s = FirstLines(es)
  <2>1. <<Header>> \in Seq(Parsed)
    BY LineNumbers
  <2>2. Len(FirstLines(es)) = l /\ FirstLines(es) \in Seq(Parsed)
    BY <1>1, <2>1 DEF FirstLines
  <2>3. \A i \in 1..l : FirstLines(es)[i] = s[i]
    BY <1>1, <2>1 DEF FirstLines
  <2> HIDE DEF es
  <2> QED BY <1>1, <2>2, <2>3
<1> HIDE DEF es, l
<1>4. ASSUME NEW i \in 1..(l - 1)
      PROVE  es[i] \in Ids
  <2>1. s[1] < s[i + 1]
    BY <1>1, <1>2
  <2> QED BY <1>1, <2>1, LineNumbers
<1>5. es \in Seq(Ids)
  BY <1>1, <1>4
<1>6. Ascending(es)
  <2>1. \A i, j \in 1..(l - 1) : i < j => s[i + 1] < s[j + 1]
    BY <1>1, <1>2
  <2> QED BY <1>1, <2>1 DEF Ascending
<1>7. Below(es, n)
  <2>1. \A i \in 1..l : s[i] <= n
    BY DEF Below, l
  <2> QED BY <1>1, <2>1 DEF Below
<1> QED BY <1>3, <1>5, <1>6, <1>7, HeaderFirst DEF es

\* What loadEntriesFromFile takes from a file.
LEMMA LoadIs ==
    ASSUME NEW n \in Nat, NEW f, FileShape(f, n)
    PROVE  /\ Load(f) \in Seq(Parsed) /\ Ascending(Load(f)) /\ Below(Load(f), n)
           /\ Range(Load(f)) \subseteq Range(f.lines) \ {Junk}
           /\ Load(f) # <<>> => Load(f)[1] = Header /\ Range(Load(f)) = Range(f.lines) \ {Junk}
           /\ Load(f) = IF Kept(f.lines, Parsed) # <<>> /\ Kept(f.lines, Parsed)[1] = Header
                        THEN Kept(f.lines, Parsed) ELSE <<>>
<1> DEFINE s == f.lines
           parsed == Kept(s, Parsed)
<1>1. s \in Seq(Line) /\ AscendingIn(s, Parsed) /\ Below(s, n)
  BY DEF FileShape, File
<1>2. s \in Seq(Int)
  <2>1. Len(s) \in Nat /\ \A i \in 1..Len(s) : s[i] \in Int
    BY <1>1, LineNumbers
  <2> QED BY <1>1, <2>1
<1>3. parsed \in Seq(Line) /\ Range(parsed) = Range(s) \cap Parsed
  BY <1>1, KeptElements
<1>4. Ascending(parsed)
  BY <1>1, <1>2, KeptAscends
<1>5. Range(s) \cap Parsed = Range(s) \ {Junk}
  <2>1. Range(s) \subseteq Line
    BY <1>1 DEF Range
  <2> QED BY <2>1 DEF Parsed
<1>6. Load(f) = IF parsed # <<>> /\ parsed[1] = Header THEN parsed ELSE <<>>
  BY <1>3 DEF Load, Parsed
<1> HIDE DEF parsed, s
<1>7. Len(parsed) \in Nat /\ \A i \in 1..Len(parsed) : parsed[i] \in Range(parsed)
  BY <1>3 DEF Range
<1>8. parsed \in Seq(Parsed)
  <2>1. \A i \in 1..Len(parsed) : parsed[i] \in Parsed
    BY <1>3, <1>7
  <2> QED BY <1>3, <2>1
<1>9. Below(parsed, n)
  <2> SUFFICES ASSUME NEW i \in 1..Len(parsed) PROVE parsed[i] <= n
    BY DEF Below
  <2>1. parsed[i] \in Range(s)
    BY <1>3, <1>7
  <2>2. PICK j \in 1..Len(s) : s[j] = parsed[i]
    BY <1>1, <2>1 DEF Range
  <2> QED BY <1>1, <2>2 DEF Below
<1>10. CASE parsed # <<>> /\ parsed[1] = Header
  BY <1>3, <1>4, <1>5, <1>6, <1>8, <1>9, <1>10 DEF parsed, s
<1>11. CASE ~(parsed # <<>> /\ parsed[1] = Header)
  <2>1. Load(f) = <<>>
    BY <1>6, <1>11
  <2>2. <<>> \in Seq(Parsed) /\ Ascending(<<>>) /\ Below(<<>>, n) /\ Range(<<>>) = {}
    BY DEF Ascending, Below, Range
  <2> QED BY <1>6, <2>1, <2>2 DEF parsed, s
<1> QED BY <1>10, <1>11

\* A file of lines that parse.
LEMMA WholeFile ==
    ASSUME NEW s \in Seq(Parsed), Ascending(s), NEW n \in Nat, Below(s, n)
    PROVE  FileShape(Written(s), n) /\ Junk \notin Range(s)
<1>1. s \in Seq(Line)
  <2>1. \A i \in 1..Len(s) : s[i] \in Line
    BY LineNumbers
  <2> QED BY <2>1
<1>2. AscendingIn(s, Parsed)
  BY DEF Ascending, AscendingIn
<1>3. Junk \notin Range(s)
  BY LineNumbers DEF Range
<1> DEFINE f == Written(s)
<1>4. f \in File /\ f.lines = s /\ f.tail = "closed"
  BY <1>1 DEF Written, File
<1> HIDE DEF f
<1> QED BY <1>2, <1>3, <1>4 DEF FileShape, f

\* A line joins the others, one that does not parse or a greater one.
LEMMA LineJoins ==
    ASSUME NEW s \in Seq(Line), NEW n \in Nat, Below(s, n), AscendingIn(s, Parsed),
           NEW l \in Line, l <= n, l # Junk => \A i \in 1..Len(s) : s[i] < l
    PROVE  /\ Append(s, l) \in Seq(Line) /\ Below(Append(s, l), n) /\ AscendingIn(Append(s, l), Parsed)
           /\ Len(Append(s, l)) = Len(s) + 1 /\ Append(s, l)[Len(s) + 1] = l /\ Append(s, l) # <<>>
           /\ Range(Append(s, l)) = Range(s) \cup {l}
<1> DEFINE u == Append(s, l)
           k == Len(s)
<1>1. k \in Nat /\ u \in Seq(Line) /\ Len(u) = k + 1 /\ u[k + 1] = l /\ \A i \in 1..k : u[i] = s[i]
  OBVIOUS
<1>2. Range(u) = Range(s) \cup {l}
  BY RangeAppended
<1>3. (\A i \in 1..k : s[i] <= n) /\ \A i, j \in 1..k : i < j /\ s[i] \in Parsed /\ s[j] \in Parsed => s[i] < s[j]
  BY DEF Below, AscendingIn
<1>4. l \in Parsed => \A i \in 1..k : s[i] < l
  BY LineNumbers
<1>5. u # <<>>
  BY <1>1
<1> HIDE DEF u, k
<1>6. \A i \in 1..(k + 1) : i = k + 1 \/ i \in 1..k
  BY <1>1
<1>7. Below(u, n)
  BY <1>1, <1>3, <1>6 DEF Below
<1>8. AscendingIn(u, Parsed)
  <2> SUFFICES ASSUME NEW i \in 1..(k + 1), NEW j \in 1..(k + 1), i < j, u[i] \in Parsed, u[j] \in Parsed
               PROVE  u[i] < u[j]
    BY <1>1 DEF AscendingIn
  <2>1. i \in 1..k
    BY <1>1, <1>6
  <2> QED BY <1>1, <1>3, <1>4, <1>6, <2>1
<1> QED BY <1>1, <1>2, <1>5, <1>7, <1>8 DEF u, k

\* All lines but the last.
LEMMA LastOff ==
    ASSUME NEW s \in Seq(Line), s # <<>>, NEW n \in Nat, Below(s, n), AscendingIn(s, Parsed)
    PROVE  /\ Front(s) \in Seq(Line) /\ Below(Front(s), n) /\ AscendingIn(Front(s), Parsed)
           /\ s = Append(Front(s), s[Len(s)]) /\ Range(Front(s)) \subseteq Range(s)
           /\ Len(Front(s)) = Len(s) - 1
<1> DEFINE u == Front(s)
           k == Len(s)
<1>1. k \in Nat \ {0} /\ u \in Seq(Line) /\ Len(u) = k - 1 /\ \A i \in 1..(k - 1) : u[i] = s[i]
  <2>1. k \in Nat \ {0} /\ u = SubSeq(s, 1, k - 1)
    BY DEF Front
  <2>2. \A i \in 1..(k - 1) : s[i] \in Line
    BY <2>1
  <2>3. u \in Seq(Line) /\ Len(u) = IF 1 <= k - 1 THEN (k - 1) - 1 + 1 ELSE 0
    BY <2>1, <2>2, SubSeqProperties
  <2>4. \A i \in 1..((k - 1) - 1 + 1) : u[i] = s[1 + i - 1]
    BY <2>1, <2>2, SubSeqProperties
  <2> HIDE DEF u, k
  <2> QED BY <2>1, <2>3, <2>4
<1>2. s = Append(u, s[k])
  <2> HIDE DEF u
  <2>1. Len(Append(u, s[k])) = k /\ Append(u, s[k]) \in Seq(Line)
    BY <1>1
  <2>2. \A i \in 1..k : Append(u, s[k])[i] = s[i]
    BY <1>1
  <2> QED BY <1>1, <2>1, <2>2
<1> HIDE DEF u
<1>3. Range(u) \subseteq Range(s)
  BY <1>1 DEF Range
<1>4. Below(u, n) /\ AscendingIn(u, Parsed)
  <2>1. (\A i \in 1..k : s[i] <= n) /\ \A i, j \in 1..k : i < j /\ s[i] \in Parsed /\ s[j] \in Parsed => s[i] < s[j]
    BY DEF Below, AscendingIn
  <2>2. 1..(k - 1) \subseteq 1..k
    BY <1>1
  <2> HIDE DEF k
  <2> QED BY <1>1, <2>1, <2>2 DEF Below, AscendingIn
<1> QED BY <1>1, <1>2, <1>3, <1>4 DEF u

\* appendFileSync of one line.
LEMMA AppendedShape ==
    ASSUME NEW n \in Nat, NEW f, FileShape(f, n), NEW l \in Parsed, l <= n,
           \A i \in 1..Len(f.lines) : f.lines[i] < l
    PROVE  /\ FileShape(Appended(f, l), n) /\ Appended(f, l).tail = "closed"
           /\ Range(Appended(f, l).lines) \subseteq Range(f.lines) \cup {l, Junk}
           /\ Appended(f, l).lines = IF f.tail = "closed" THEN Append(f.lines, l) ELSE Append(Front(f.lines), Junk)
<1> DEFINE s == f.lines
           g == Appended(f, l)
<1>1. s \in Seq(Line) /\ Below(s, n) /\ AscendingIn(s, Parsed) /\ (f.tail # "closed" => s # <<>>)
  BY DEF FileShape, File
<1>2. l \in Line /\ Junk \in Line /\ Junk <= n
  BY LineNumbers DEF Junk
<1>3. \A i \in 1..Len(s) : s[i] < l
  OBVIOUS
<1>4. g = Written(IF f.tail = "closed" THEN Append(s, l) ELSE Append(Front(s), Junk))
  BY DEF Appended
<1> HIDE DEF s, g
<1>5. CASE f.tail = "closed"
  <2> DEFINE u == Append(s, l)
  <2>1. u \in Seq(Line) /\ Below(u, n) /\ AscendingIn(u, Parsed) /\ Range(u) = Range(s) \cup {l}
    BY <1>1, <1>2, <1>3, LineJoins
  <2>2. g = Written(u)
    BY <1>4, <1>5
  <2> HIDE DEF u
  <2>3. g.lines = u /\ g.tail = "closed" /\ g \in File
    BY <2>1, <2>2 DEF Written, File
  <2>4. FileShape(g, n)
    BY <2>1, <2>3 DEF FileShape
  <2> QED BY <1>5, <2>1, <2>3, <2>4 DEF u, s, g
<1>6. CASE f.tail # "closed"
  <2> DEFINE v == Front(s)
             u == Append(v, Junk)
  <2>1. v \in Seq(Line) /\ Below(v, n) /\ AscendingIn(v, Parsed) /\ Range(v) \subseteq Range(s)
    BY <1>1, <1>6, LastOff
  <2>2. g = Written(u)
    BY <1>4, <1>6
  <2> HIDE DEF v
  <2>3. u \in Seq(Line) /\ Below(u, n) /\ AscendingIn(u, Parsed) /\ Range(u) = Range(v) \cup {Junk}
    BY <1>2, <2>1, LineJoins
  <2> HIDE DEF u
  <2>4. g.lines = u /\ g.tail = "closed" /\ g \in File
    BY <2>2, <2>3 DEF Written, File
  <2>5. FileShape(g, n)
    BY <2>3, <2>4 DEF FileShape
  <2>6. g.lines = Append(Front(f.lines), Junk)
    BY <2>4 DEF u, v, s
  <2> QED BY <1>6, <2>1, <2>3, <2>4, <2>5, <2>6 DEF s, g
<1> QED BY <1>5, <1>6

\* What an append that fails leaves behind.
LEMMA CutAppendsShape ==
    ASSUME NEW n \in Nat, NEW f, FileShape(f, n), NEW l \in Parsed, l <= n,
           \A i \in 1..Len(f.lines) : f.lines[i] < l, NEW g \in CutAppends(f, l)
    PROVE  /\ FileShape(g, n) /\ Range(g.lines) \subseteq Range(f.lines) \cup {l, Junk}
           /\ g.tail = "closed" => g = f
           /\ \/ g = f
              \/ g.lines = Append(IF f.tail = "closed" THEN f.lines ELSE Front(f.lines), Junk)
              \/ f.tail = "closed" /\ g.lines = Append(f.lines, l)
<1> DEFINE s == f.lines
           v == IF f.tail = "closed" THEN s ELSE Front(s)
           torn == [lines |-> Append(v, Junk), tail |-> "torn"]
           open == [lines |-> Append(s, l), tail |-> "open"]
<1>1. s \in Seq(Line) /\ Below(s, n) /\ AscendingIn(s, Parsed) /\ (f.tail # "closed" => s # <<>>)
  BY DEF FileShape, File
<1>2. l \in Line /\ Junk \in Line /\ Junk <= n /\ l # Junk
  BY LineNumbers DEF Junk
<1>3. \A i \in 1..Len(s) : s[i] < l
  OBVIOUS
<1>4. g = f \/ g = torn \/ (f.tail = "closed" /\ g = open)
  BY DEF CutAppends
<1>5. v \in Seq(Line) /\ Below(v, n) /\ AscendingIn(v, Parsed) /\ Range(v) \subseteq Range(s)
  <2>1. CASE f.tail = "closed"
    BY <1>1, <2>1
  <2>2. CASE f.tail # "closed"
    BY <1>1, <2>2, LastOff
  <2> QED BY <2>1, <2>2
<1> HIDE DEF s, v
<1>6. CASE g = torn
  <2> DEFINE u == Append(v, Junk)
  <2>1. /\ u \in Seq(Line) /\ Below(u, n) /\ AscendingIn(u, Parsed) /\ Range(u) = Range(v) \cup {Junk}
        /\ u # <<>> /\ u[Len(u)] = Junk
    BY <1>2, <1>5, LineJoins
  <2>2. g.lines = u /\ g.tail = "torn" /\ g = [lines |-> u, tail |-> "torn"]
    BY <1>6
  <2> HIDE DEF u
  <2>3. FileShape(g, n)
    BY <2>1, <2>2 DEF FileShape, File
  <2>4. g.lines = Append(IF f.tail = "closed" THEN f.lines ELSE Front(f.lines), Junk)
    BY <2>2 DEF u, v, s
  <2> QED BY <1>5, <2>1, <2>2, <2>3, <2>4 DEF s
<1>7. CASE f.tail = "closed" /\ g = open
  <2> DEFINE u == Append(s, l)
  <2>1. /\ u \in Seq(Line) /\ Below(u, n) /\ AscendingIn(u, Parsed) /\ Range(u) = Range(s) \cup {l}
        /\ u # <<>> /\ u[Len(u)] = l
    BY <1>1, <1>2, <1>3, LineJoins
  <2>2. g.lines = u /\ g.tail = "open" /\ g = [lines |-> u, tail |-> "open"]
    BY <1>7
  <2> HIDE DEF u
  <2>3. FileShape(g, n)
    BY <1>2, <2>1, <2>2 DEF FileShape, File
  <2> QED BY <1>7, <2>1, <2>2, <2>3 DEF s, u
<1>8. CASE g = f
  BY <1>8
<1> QED BY <1>4, <1>6, <1>7, <1>8

\* A beginning of what ascends.
LEMMA Beginning ==
    ASSUME NEW s \in Seq(Parsed), Ascending(s), NEW n \in Nat, Below(s, n), NEW k \in 0..Len(s)
    PROVE  /\ SubSeq(s, 1, k) \in Seq(Parsed) /\ Ascending(SubSeq(s, 1, k)) /\ Below(SubSeq(s, 1, k), n)
           /\ Len(SubSeq(s, 1, k)) = k /\ \A i \in 1..k : SubSeq(s, 1, k)[i] = s[i]
           /\ Range(SubSeq(s, 1, k)) \subseteq Range(s)
<1> DEFINE u == SubSeq(s, 1, k)
           l == Len(s)
<1>1. l \in Nat /\ k \in Nat /\ k <= l /\ DOMAIN s = 1..l
  OBVIOUS
<1>2. u \in Seq(Parsed) /\ Len(u) = k /\ DOMAIN u = 1..k /\ \A i \in 1..k : u[i] = s[i]
  <2>1. \A i \in 1..k : s[i] \in Parsed
    BY <1>1
  <2>2. u \in Seq(Parsed) /\ Len(u) = IF 1 <= k THEN k - 1 + 1 ELSE 0
    BY <1>1, <2>1, SubSeqProperties
  <2>3. \A i \in 1..(k - 1 + 1) : u[i] = s[1 + i - 1]
    BY <1>1, <2>1, SubSeqProperties
  <2> HIDE DEF u
  <2> QED BY <1>1, <2>2, <2>3
<1>3. (\A i \in 1..l : s[i] <= n) /\ \A i, j \in 1..l : i < j => s[i] < s[j]
  BY DEF Below, Ascending
<1>4. \A i \in 1..k : i \in 1..l
  BY <1>1
<1> HIDE DEF u, l
<1>5. Ascending(u) /\ Below(u, n)
  BY <1>2, <1>3, <1>4 DEF Ascending, Below
<1>6. Range(u) \subseteq Range(s)
  BY <1>1, <1>2, <1>4 DEF Range
<1> QED BY <1>2, <1>5, <1>6 DEF u

\* What a first write that fails leaves behind.
LEMMA CutWritesShape ==
    ASSUME NEW n \in Nat, NEW s \in Seq(Parsed), Ascending(s), Below(s, n), NEW g \in CutWrites(s)
    PROVE  /\ FileShape(g, n) /\ Range(g.lines) \subseteq Range(s) \cup {Junk}
           /\ g.tail = "closed" => \E k \in 0..Len(s) : g = Written(SubSeq(s, 1, k))
<1>1. PICK k \in 0..(Len(s) - 1) : g \in CutAppends(Written(SubSeq(s, 1, k)), s[k + 1])
  BY DEF CutWrites
<1> DEFINE u == SubSeq(s, 1, k)
           f == Written(u)
           l == s[k + 1]
<1>2. Len(s) \in Nat /\ k \in 0..Len(s) /\ k + 1 \in 1..Len(s)
  OBVIOUS
<1>3. /\ u \in Seq(Parsed) /\ Ascending(u) /\ Below(u, n) /\ Len(u) = k /\ (\A i \in 1..k : u[i] = s[i])
      /\ Range(u) \subseteq Range(s)
  BY <1>2, Beginning
<1>4. l \in Parsed /\ l <= n /\ l \in Range(s) /\ \A i \in 1..k : s[i] < l
  <2>1. l \in Parsed /\ l <= n
    BY <1>2 DEF Below
  <2>2. l \in Range(s)
    BY <1>2 DEF Range
  <2>3. \A i \in 1..k : i \in 1..Len(s) /\ i < k + 1
    BY <1>2
  <2> QED BY <1>2, <2>1, <2>2, <2>3 DEF Ascending
<1> HIDE DEF u, l
<1>5. FileShape(f, n)
  BY <1>3, WholeFile
<1>6. f.lines = u /\ f.tail = "closed" /\ g \in CutAppends(f, l)
  BY <1>1 DEF Written, u, l
<1>7. \A i \in 1..Len(f.lines) : f.lines[i] < l
  BY <1>3, <1>4, <1>6
<1> HIDE DEF f
<1>8. /\ FileShape(g, n) /\ Range(g.lines) \subseteq Range(f.lines) \cup {l, Junk}
      /\ g.tail = "closed" => g = f
  BY <1>4, <1>5, <1>6, <1>7, CutAppendsShape
<1> QED BY <1>2, <1>3, <1>4, <1>6, <1>8 DEF f, u

-----------------------------------------------------------------------------
(* Labels.                                                                 *)

\* A label is added at the end or stays, or is taken out: no label is there twice.
LEMMA WithLabelTyped ==
    ASSUME NEW ls \in Seq(Ids), NEW target \in Ids, NEW set \in BOOLEAN
    PROVE  /\ WithLabel(ls, target, set) \in Seq(Ids)
           /\ Range(WithLabel(ls, target, set)) \subseteq Range(ls) \cup {target}
           /\ IsInjective(ls) => IsInjective(WithLabel(ls, target, set))
<1>1. CASE set /\ target \in Range(ls)
  BY <1>1 DEF WithLabel
<1>2. CASE set /\ target \notin Range(ls)
  <2>1. WithLabel(ls, target, set) = Append(ls, target)
    BY <1>2 DEF WithLabel
  <2>2. Append(ls, target) \in Seq(Ids) /\ Range(Append(ls, target)) = Range(ls) \cup {target}
    BY RangeAppended
  <2>3. IsInjective(ls) => IsInjective(Append(ls, target))
    BY <1>2, InjectiveOn
  <2> QED BY <2>1, <2>2, <2>3
<1>3. CASE ~set
  <2>1. WithLabel(ls, target, set) = Kept(ls, Ids \ {target})
    BY <1>3 DEF WithLabel
  <2>2. Kept(ls, Ids \ {target}) \in Seq(Ids) /\ Range(Kept(ls, Ids \ {target})) = Range(ls) \cap (Ids \ {target})
    BY KeptElements
  <2>3. IsInjective(ls) => IsInjective(Kept(ls, Ids \ {target}))
    BY KeptInjective
  <2> QED BY <2>1, <2>2, <2>3
<1> QED BY <1>1, <1>2, <1>3

\* The labels of each beginning of es, as ResolvedOf defines them.
SeenOf(t, es) ==
    CHOOSE seen : seen =
        [k \in 0..Len(es) |->
            IF k = 0 THEN <<>>
            ELSE IF t[es[k]].kind = "label" THEN WithLabel(seen[k - 1], t[es[k]].ref, t[es[k]].set)
            ELSE seen[k - 1]]
\* Their steps, one for each entry.
Seeing(t, es) ==
    [j \in 1..Len(es) |-> [x \in Seq(Ids) |->
        IF t[es[j]].kind = "label" THEN WithLabel(x, t[es[j]].ref, t[es[j]].set) ELSE x]]

\* Resolved is that of the table.
LEMMA ResolvedIs ==
    ASSUME NEW es
    PROVE  Resolved(es) = ResolvedOf(table, es)
BY DEF Resolved, ResolvedOf, IsLabel

\* An entry of a table.
LEMMA EntryIs ==
    ASSUME NEW t \in Tables, NEW i \in Ids, i <= Len(t)
    PROVE  /\ i \in 1..Len(t) /\ Len(t) \in 0..MaxEntries /\ t[i] \in Entry /\ t[i].parent \in 0..(i - 1)
           /\ t[i].parent = 0 \/ (t[i].parent \in Ids /\ t[i].parent <= Len(t))
           /\ t[i].set \in BOOLEAN
           /\ t[i].kind = "label" => t[i].ref \in Ids /\ t[i].ref <= Len(t)
<1>1. i \in 1..Len(t) /\ Len(t) \in Nat /\ Len(t) <= MaxEntries /\ t[i] \in Entry /\ Refers(t, i) /\ i \in Nat
  BY DEF Tables, Ids
<1>2. t[i].parent \in Nat /\ t[i].ref \in Nat /\ t[i].set \in BOOLEAN
  BY <1>1 DEF Entry
<1> QED BY <1>1, <1>2, SessionLogAssumption DEF Refers, Ids

\* There are such labels, and ResolvedOf is the last of them.
LEMMA ResolvedExists ==
    ASSUME NEW t \in Tables, NEW es \in Seq(Ids), Below(es, Len(t))
    PROVE  /\ SeenOf(t, es) \in [0..Len(es) -> Seq(Ids)]
           /\ SeenOf(t, es)[0] = <<>>
           /\ \A j \in 1..Len(es) :
                 SeenOf(t, es)[j] = IF t[es[j]].kind = "label"
                                    THEN WithLabel(SeenOf(t, es)[j - 1], t[es[j]].ref, t[es[j]].set)
                                    ELSE SeenOf(t, es)[j - 1]
           /\ Recursive(SeenOf(t, es), Len(es), <<>>, Before(Len(es)), Seeing(t, es))
           /\ ResolvedOf(t, es) = SeenOf(t, es)[Len(es)]
<1> DEFINE body(seen) ==
               [k \in 0..Len(es) |->
                   IF k = 0 THEN <<>>
                   ELSE IF t[es[k]].kind = "label" THEN WithLabel(seen[k - 1], t[es[k]].ref, t[es[k]].set)
                   ELSE seen[k - 1]]
           g == SeenOf(t, es)
<1>1. Len(es) \in Nat /\ \A j \in 1..Len(es) : es[j] \in Ids /\ es[j] <= Len(t)
  BY DEF Below
<1>2. \A j \in 1..Len(es) : Before(Len(es))[j] = j - 1 /\ j - 1 \in 0..Len(es)
  BY <1>1 DEF Before
<1>3. \A j \in 1..Len(es), x \in Seq(Ids) :
          /\ Seeing(t, es)[j][x] = IF t[es[j]].kind = "label" THEN WithLabel(x, t[es[j]].ref, t[es[j]].set) ELSE x
          /\ Seeing(t, es)[j][x] \in Seq(Ids)
  <2> TAKE j \in 1..Len(es), x \in Seq(Ids)
  <2>1. Seeing(t, es)[j][x] = IF t[es[j]].kind = "label" THEN WithLabel(x, t[es[j]].ref, t[es[j]].set) ELSE x
    BY DEF Seeing
  <2>2. t[es[j]].kind = "label" => t[es[j]].ref \in Ids /\ t[es[j]].set \in BOOLEAN
    BY <1>1, EntryIs
  <2>3. t[es[j]].kind = "label" => WithLabel(x, t[es[j]].ref, t[es[j]].set) \in Seq(Ids)
    BY <2>2, WithLabelTyped
  <2> QED BY <2>1, <2>3
<1>4. PICK f \in [0..Len(es) -> Seq(Ids)] : Recursive(f, Len(es), <<>>, Before(Len(es)), Seeing(t, es))
  <2> DEFINE n == Len(es)
             R == Seq(Ids)
             first == <<>>
             before == Before(n)
             step == Seeing(t, es)
  <2>1. n \in Nat /\ first \in R
    BY <1>1
  <2>2. \A j \in 1..n : before[j] \in 0..(j - 1)
    BY <1>2
  <2>3. \A j \in 1..n, x \in R : step[j][x] \in R
    BY <1>3
  <2> HIDE DEF n, R, first, before, step
  <2>4. \E f \in [0..n -> R] : Recursive(f, n, first, before, step)
    BY <2>1, <2>2, <2>3, RecursionExists
  <2> QED BY <2>4 DEF n, R, first, before, step
<1>5. ASSUME NEW j \in 0..Len(es)
      PROVE  f[j] = IF j = 0 THEN <<>>
                    ELSE IF t[es[j]].kind = "label" THEN WithLabel(f[j - 1], t[es[j]].ref, t[es[j]].set)
                    ELSE f[j - 1]
  <2>1. f[j] = IF j = 0 THEN <<>> ELSE Seeing(t, es)[j][f[Before(Len(es))[j]]]
    <3> DEFINE n == Len(es)
               first == <<>>
               before == Before(n)
               step == Seeing(t, es)
    <3>1. Recursive(f, n, first, before, step) /\ j \in 0..n
      BY <1>4
    <3> HIDE DEF n, first, before, step
    <3>2. f[j] = IF j = 0 THEN first ELSE step[j][f[before[j]]]
      BY <3>1, RecursionValue
    <3> QED BY <3>2 DEF n, first, before, step
  <2>2. CASE j = 0
    BY <2>1, <2>2
  <2>3. CASE j # 0
    <3>1. j \in 1..Len(es) /\ Before(Len(es))[j] = j - 1 /\ j - 1 \in 0..Len(es)
      BY <1>1, <1>2, <2>3
    <3>2. f[j - 1] \in Seq(Ids)
      BY <3>1
    <3> QED BY <1>3, <2>1, <2>3, <3>1, <3>2
  <2> QED BY <2>2, <2>3
<1>6. f = body(f)
  <2>1. f = [j \in 0..Len(es) |-> f[j]]
    OBVIOUS
  <2> QED BY <1>5, <2>1
<1>7. g = body(g)
  BY <1>6 DEF SeenOf
<1>8. \A j \in 0..Len(es) : g[j] = IF j = 0 THEN <<>>
                                  ELSE IF t[es[j]].kind = "label" THEN WithLabel(g[j - 1], t[es[j]].ref, t[es[j]].set)
                                  ELSE g[j - 1]
  <2> HIDE DEF g
  <2> QED BY <1>7
<1>9. \A j \in 0..Len(es) : g[j] = f[j]
  <2> DEFINE U == {k \in 0..Len(es) : g[k] # f[k]}
  <2> SUFFICES ASSUME U # {} PROVE FALSE
    OBVIOUS
  <2>1. PICK k \in U : \A j \in U : k <= j
    <3>1. U \in SUBSET Nat /\ U # {}
      OBVIOUS
    <3> HIDE DEF U
    <3> QED BY <3>1, Least
  <2>2. k # 0
    BY <1>5, <1>8, <2>1
  <2>3. k - 1 \in 0..Len(es)
    BY <2>1, <2>2
  <2>4. g[k - 1] = f[k - 1]
    BY <2>1, <2>3
  <2> QED BY <1>5, <1>8, <2>1, <2>2, <2>4
<1>10. g = [j \in 0..Len(es) |-> g[j]]
  <2> HIDE DEF g
  <2> QED BY <1>7
<1>11. g = f
  <2> HIDE DEF g
  <2> QED BY <1>9, <1>10
<1>12. 0 \in 0..Len(es) /\ \A j \in 1..Len(es) : j \in 0..Len(es) /\ j # 0
  BY <1>1
<1>13. ResolvedOf(t, es) = g[Len(es)]
  BY DEF ResolvedOf, SeenOf
<1> QED BY <1>4, <1>5, <1>11, <1>12, <1>13

\* Two recursions that take the same steps up to n have the same values up to n.
SameSteps(n, m, first, before, step, f, later, move, g) ==
    /\ n \in Nat /\ m \in Nat /\ n <= m
    /\ Recursive(f, n, first, before, step) /\ Recursive(g, m, first, later, move)
    /\ \A j \in 1..n : before[j] \in 0..(j - 1) /\ later[j] = before[j]
    /\ \A j \in 1..n : move[j][f[before[j]]] = step[j][f[before[j]]]

\* They agree, by RecursionAgrees.
LEMMA SameStepsAgree ==
    ASSUME NEW n, NEW m, NEW first, NEW before, NEW step, NEW f, NEW later, NEW move, NEW g,
           SameSteps(n, m, first, before, step, f, later, move, g)
    PROVE  \A j \in 0..n : g[j] = f[j]
BY RecursionAgrees DEF SameSteps

\* More entries, of a table that has grown, leave the labels of the earlier ones.
LEMMA ResolvedAgrees ==
    ASSUME NEW t \in Tables, NEW u \in Tables, Grown(t, u), NEW es \in Seq(Ids), Below(es, Len(t)),
           NEW fs \in Seq(Ids), Below(fs, Len(u)), Len(es) <= Len(fs), \A j \in 1..Len(es) : fs[j] = es[j]
    PROVE  \A j \in 0..Len(es) : SeenOf(u, fs)[j] = SeenOf(t, es)[j]
<1> DEFINE n == Len(es)
           m == Len(fs)
           first == <<>>
           f == SeenOf(t, es)
           g == SeenOf(u, fs)
           before == Before(n)
           later == Before(m)
           step == Seeing(t, es)
           move == Seeing(u, fs)
<1>1. n \in Nat /\ m \in Nat /\ n <= m
  OBVIOUS
<1>2. f \in [0..n -> Seq(Ids)] /\ Recursive(f, n, first, before, step)
  BY ResolvedExists
<1>3. Recursive(g, m, first, later, move)
  BY ResolvedExists
<1>4. \A j \in 1..n : before[j] \in 0..(j - 1) /\ later[j] = before[j]
  BY <1>1 DEF Before
<1>5. \A j \in 1..n : move[j][f[before[j]]] = step[j][f[before[j]]]
  <2> TAKE j \in 1..n
  <2>1. j \in 1..m /\ fs[j] = es[j] /\ es[j] \in Ids /\ es[j] <= Len(t)
    BY <1>1 DEF Below
  <2>2. es[j] \in 1..Len(t)
    BY <2>1, EntryIs
  <2>3. u[fs[j]] = t[es[j]]
    BY <2>1, <2>2 DEF Grown
  <2>4. before[j] \in 0..n /\ f[before[j]] \in Seq(Ids)
    <3>1. before[j] \in 0..n
      BY <1>1, <1>4
    <3> HIDE DEF f, before, n
    <3> QED BY <1>2, <3>1
  <2> DEFINE x == f[before[j]]
  <2>5. move[j][x] = IF u[fs[j]].kind = "label" THEN WithLabel(x, u[fs[j]].ref, u[fs[j]].set) ELSE x
    BY <2>1, <2>4 DEF Seeing
  <2>6. step[j][x] = IF t[es[j]].kind = "label" THEN WithLabel(x, t[es[j]].ref, t[es[j]].set) ELSE x
    BY <2>1, <2>4 DEF Seeing
  <2> HIDE DEF x, move, step, f, before
  <2>7. move[j][x] = step[j][x]
    BY <2>3, <2>5, <2>6
  <2> QED BY <2>7 DEF x
<1> HIDE DEF n, m, first, f, g, before, later, step, move
<1>6. SameSteps(n, m, first, before, step, f, later, move, g)
  BY <1>1, <1>2, <1>3, <1>4, <1>5 DEF SameSteps
<1>7. \A j \in 0..n : g[j] = f[j]
  BY <1>6, SameStepsAgree
<1> QED BY <1>7 DEF n, f, g

\* An entry joins the session.
LEMMA ResolvedAppended ==
    ASSUME NEW t \in Tables, NEW u \in Tables, Grown(t, u), NEW es \in Seq(Ids), Below(es, Len(t)),
           NEW i \in Ids, i <= Len(u)
    PROVE  ResolvedOf(u, Append(es, i)) = IF u[i].kind = "label" THEN WithLabel(ResolvedOf(t, es), u[i].ref, u[i].set)
                                          ELSE ResolvedOf(t, es)
<1> DEFINE fs == Append(es, i)
           n == Len(es)
<1>1. Len(t) \in Nat /\ Len(u) \in Nat /\ Len(t) <= Len(u)
  BY DEF Tables, Grown
<1>2. /\ n \in Nat /\ fs \in Seq(Ids) /\ Len(fs) = n + 1 /\ fs[n + 1] = i
      /\ \A j \in 1..n : fs[j] = es[j] /\ es[j] \in Nat /\ es[j] <= Len(t)
  <2>1. /\ n \in Nat /\ fs \in Seq(Ids) /\ Len(fs) = n + 1 /\ fs[n + 1] = i
        /\ \A j \in 1..n : fs[j] = es[j] /\ es[j] \in Ids
    OBVIOUS
  <2>2. \A j \in 1..n : es[j] <= Len(t)
    BY DEF Below
  <2> QED BY <2>1, <2>2, LineNumbers
<1> HIDE DEF fs
<1>3. Below(fs, Len(u))
  <2>1. ASSUME NEW k \in 1..(n + 1)
        PROVE  fs[k] <= Len(u)
    <3>1. CASE k = n + 1
      BY <1>2, <3>1
    <3>2. CASE k # n + 1
      <4>1. k \in 1..n
        BY <1>2, <3>2
      <4> QED BY <1>1, <1>2, <4>1
    <3> QED BY <3>1, <3>2
  <2> QED BY <1>2, <2>1 DEF Below
<1>4. n <= Len(fs) /\ n \in 0..n
  BY <1>2
<1>5. SeenOf(u, fs)[n] = SeenOf(t, es)[n]
  BY <1>2, <1>3, <1>4, ResolvedAgrees
<1>6. ResolvedOf(t, es) = SeenOf(t, es)[n]
  BY ResolvedExists
<1>7. ResolvedOf(u, fs) = SeenOf(u, fs)[n + 1]
  BY <1>2, <1>3, ResolvedExists
<1>8. n + 1 \in 1..Len(fs) /\ (n + 1) - 1 = n
  BY <1>2
<1>9. SeenOf(u, fs)[n + 1] = IF u[fs[n + 1]].kind = "label"
                             THEN WithLabel(SeenOf(u, fs)[n], u[fs[n + 1]].ref, u[fs[n + 1]].set)
                             ELSE SeenOf(u, fs)[n]
  BY <1>2, <1>3, <1>8, ResolvedExists
<1> QED BY <1>2, <1>5, <1>6, <1>7, <1>9 DEF fs

\* The labels are of entries, and no entry has two.
LEMMA ResolvedTyped ==
    ASSUME NEW t \in Tables, NEW es \in Seq(Ids), Below(es, Len(t))
    PROVE  LET ls == ResolvedOf(t, es) IN ls \in Seq(Ids) /\ Below(ls, Len(t)) /\ IsInjective(ls)
<1> DEFINE n == Len(es)
           f == SeenOf(t, es)
           A == {i \in Nat : i <= n => IsInjective(f[i]) /\ \A x \in Range(f[i]) : x <= Len(t)}
<1>1. n \in Nat /\ \A j \in 1..n : es[j] \in Ids /\ es[j] <= Len(t)
  BY DEF Below
<1>2. /\ f \in [0..n -> Seq(Ids)] /\ f[0] = <<>> /\ ResolvedOf(t, es) = f[n]
      /\ \A j \in 1..n : f[j] = IF t[es[j]].kind = "label" THEN WithLabel(f[j - 1], t[es[j]].ref, t[es[j]].set)
                                ELSE f[j - 1]
  BY ResolvedExists
<1> HIDE DEF n, f
<1>3. 0 \in A
  BY <1>2 DEF IsInjective, Range
<1>4. ASSUME NEW i \in A
      PROVE  i + 1 \in A
  <2> SUFFICES ASSUME i + 1 <= n
               PROVE  IsInjective(f[i + 1]) /\ \A x \in Range(f[i + 1]) : x <= Len(t)
    OBVIOUS
  <2>1. i + 1 \in 1..n /\ (i + 1) - 1 = i /\ i \in 0..n
    BY <1>1
  <2>2. f[i] \in Seq(Ids) /\ IsInjective(f[i]) /\ \A x \in Range(f[i]) : x <= Len(t)
    BY <1>2, <2>1
  <2>3. es[i + 1] \in Ids /\ es[i + 1] <= Len(t)
    BY <1>1, <2>1
  <2> DEFINE e == t[es[i + 1]]
  <2>4. f[i + 1] = IF e.kind = "label" THEN WithLabel(f[i], e.ref, e.set) ELSE f[i]
    BY <1>2, <2>1
  <2>5. e.kind = "label" => e.ref \in Ids /\ e.ref <= Len(t) /\ e.set \in BOOLEAN
    BY <2>3, EntryIs
  <2> HIDE DEF e
  <2>6. CASE e.kind = "label"
    <3>1. /\ Range(WithLabel(f[i], e.ref, e.set)) \subseteq Range(f[i]) \cup {e.ref}
          /\ IsInjective(WithLabel(f[i], e.ref, e.set))
      BY <2>2, <2>5, <2>6, WithLabelTyped
    <3> QED BY <2>2, <2>4, <2>5, <2>6, <3>1
  <2>7. CASE e.kind # "label"
    BY <2>2, <2>4, <2>7
  <2> QED BY <2>6, <2>7
<1>5. A = Nat
  <2> HIDE DEF A
  <2> QED BY <1>3, <1>4, Induct DEF A
<1>6. IsInjective(f[n]) /\ \A x \in Range(f[n]) : x <= Len(t)
  BY <1>1, <1>5
<1>7. f[n] \in Seq(Ids)
  BY <1>1, <1>2
<1>8. Below(f[n], Len(t))
  BY <1>6, <1>7 DEF Below, Range
<1> QED BY <1>2, <1>6, <1>7, <1>8

-----------------------------------------------------------------------------
(* A table that grows.                                                     *)

\* A new entry of what is there.
LEMMA EntryJoins ==
    ASSUME NEW t \in Tables, Len(t) + 1 <= MaxEntries, NEW e \in Entry, e.parent <= Len(t), e.ref <= Len(t),
           e.kind = "label" => e.ref # 0
    PROVE  /\ Append(t, e) \in Tables /\ Grown(t, Append(t, e)) /\ Len(Append(t, e)) = Len(t) + 1
           /\ Append(t, e)[Len(t) + 1] = e /\ Len(t) + 1 \in Ids
<1> DEFINE n == Len(t)
           u == Append(t, e)
<1>1. t \in Seq(Entry) /\ n \in Nat /\ \A i \in 1..n : Refers(t, i)
  BY DEF Tables
<1>2. u \in Seq(Entry) /\ Len(u) = n + 1 /\ u[n + 1] = e /\ \A i \in 1..n : u[i] = t[i]
  BY <1>1
<1>3. e.parent \in Nat /\ e.ref \in Nat
  BY SessionLogAssumption DEF Entry
<1> HIDE DEF u
<1>4. ASSUME NEW i \in 1..(n + 1)
      PROVE  Refers(u, i)
  <2>1. CASE i \in 1..n
    BY <1>1, <1>2, <2>1 DEF Refers
  <2>2. CASE i = n + 1
    <3>1. e.parent < n + 1 /\ e.ref < n + 1
      BY <1>1, <1>3
    <3> QED BY <1>2, <2>2, <3>1 DEF Refers
  <2> QED BY <1>1, <2>1, <2>2
<1>5. n + 1 \in Ids
  BY <1>1, SessionLogAssumption DEF Ids
<1>6. Grown(t, u)
  BY <1>1, <1>2 DEF Grown
<1>7. u \in Tables
  BY <1>1, <1>2, <1>4 DEF Tables
<1> QED BY <1>2, <1>5, <1>6, <1>7 DEF u

\* What is closed stays closed.
LEMMA ClosedGrown ==
    ASSUME NEW t \in Tables, NEW u \in Tables, Grown(t, u), NEW S \in SUBSET Ids,
           \A i \in S : i <= Len(t), Closed(t, S)
    PROVE  Closed(u, S)
<1> SUFFICES ASSUME NEW i \in S
             PROVE  u[i].parent \in {0} \cup S \/ u[u[i].parent].kind = "label"
  BY DEF Closed
<1>1. i \in 1..Len(t) /\ t[i].parent \in 0..(i - 1)
  BY EntryIs
<1>2. u[i] = t[i]
  BY <1>1 DEF Grown
<1>3. CASE t[i].parent = 0
  BY <1>2, <1>3
<1>4. CASE t[i].parent # 0
  <2>1. t[i].parent \in 1..Len(t)
    BY <1>1, <1>4
  <2>2. u[t[i].parent] = t[t[i].parent]
    BY <2>1 DEF Grown
  <2> QED BY <1>2, <2>2 DEF Closed
<1> QED BY <1>3, <1>4

\* A bound may be raised.
LEMMA ShapeGrown ==
    ASSUME NEW n \in Nat, NEW m \in Nat, n <= m, NEW f, FileShape(f, n)
    PROVE  FileShape(f, m)
<1>1. f.lines \in Seq(Line) /\ Below(f.lines, n)
  BY DEF FileShape, File
<1> DEFINE s == f.lines
<1>2. \A k \in 1..Len(s) : s[k] \in Int /\ s[k] <= n
  BY <1>1, LineNumbers DEF Below
<1>3. \A k \in 1..Len(s) : s[k] <= m
  <2> HIDE DEF s
  <2> QED BY <1>2
<1>4. Below(f.lines, m)
  BY <1>3 DEF Below
<1> QED BY <1>4 DEF FileShape

\* What is below a bound is below a greater one.
LEMMA BelowGrown ==
    ASSUME NEW n \in Nat, NEW m \in Nat, n <= m, NEW s \in Seq(Ids), Below(s, n)
    PROVE  Below(s, m)
<1>1. \A k \in 1..Len(s) : s[k] \in Int /\ s[k] <= n
  BY LineNumbers DEF Below
<1>2. \A k \in 1..Len(s) : s[k] <= m
  BY <1>1
<1> QED BY <1>2 DEF Below

\* A clean file stays clean.
LEMMA CleanGrown ==
    ASSUME NEW t \in Tables, NEW u \in Tables, Grown(t, u), NEW f, FileShape(f, Len(t)), Clean(t, f)
    PROVE  Clean(u, f)
<1>1. f.lines \in Seq(Line) /\ Below(f.lines, Len(t))
  BY DEF FileShape, File
<1> DEFINE S == Range(f.lines) \ {Header}
<1>2. S \in SUBSET Ids /\ \A i \in S : i <= Len(t)
  <2> DEFINE s == f.lines
  <2>1. \A k \in 1..Len(s) : s[k] \in Line /\ s[k] <= Len(t)
    BY <1>1 DEF Below
  <2>2. Range(s) = {s[k] : k \in 1..Len(s)}
    BY <1>1 DEF Range
  <2>3. Junk \notin Range(s)
    BY DEF Clean
  <2> HIDE DEF s
  <2>4. \A x \in Range(s) : x \in Line /\ x <= Len(t)
    BY <2>1, <2>2
  <2> QED BY <2>3, <2>4, LineNumbers DEF s
<1>3. Closed(t, S)
  BY DEF Clean
<1> HIDE DEF S
<1>4. Closed(u, S)
  BY <1>2, <1>3, ClosedGrown
<1> QED BY <1>4 DEF Clean, S

\* The file of lines that are closed, and each beginning of it.
LEMMA CleanBeginning ==
    ASSUME NEW t \in Tables, NEW s \in Seq(Parsed), Ascending(s), Below(s, Len(t)), s # <<>>, s[1] = Header,
           Closed(t, Range(s) \ {Header}), NEW k \in 0..Len(s)
    PROVE  Clean(t, Written(SubSeq(s, 1, k)))
<1> DEFINE u == SubSeq(s, 1, k)
           n == Len(s)
           S == Range(u) \ {Header}
<1>1. Len(t) \in Nat /\ n \in Nat \ {0} /\ k \in Nat /\ k <= n /\ \A i \in 1..n : s[i] \in Parsed
  BY DEF Tables
<1>2. /\ u \in Seq(Parsed) /\ Ascending(u) /\ Below(u, Len(t)) /\ Len(u) = k
      /\ (\A i \in 1..k : u[i] = s[i]) /\ Range(u) \subseteq Range(s)
  BY <1>1, Beginning
<1>3. Range(u) = {s[i] : i \in 1..k} /\ Range(s) = {s[i] : i \in 1..n}
  <2>1. DOMAIN u = 1..k /\ DOMAIN s = 1..n
    BY <1>2
  <2> HIDE DEF u, n
  <2> QED BY <1>2, <2>1 DEF Range
<1>4. u # <<>> => u[1] = Header
  <2> HIDE DEF u
  <2>1. u # <<>> => 1 \in 1..k
    BY <1>1, <1>2
  <2> QED BY <1>2, <2>1
<1>5. Junk \notin Range(u)
  BY <1>1, <1>2, WholeFile
<1> HIDE DEF u, n
<1>6. ASSUME NEW i \in S
      PROVE  t[i].parent \in {0} \cup S \/ t[t[i].parent].kind = "label"
  <2>1. i \in Range(s) \ {Header} /\ i \in Parsed
    BY <1>1, <1>2, <1>3
  <2>2. PICK j \in 1..k : i = s[j]
    BY <1>3
  <2>3. j \in 1..n /\ i \in Ids /\ i <= Len(t)
    BY <1>1, <2>1, <2>2, LineNumbers DEF Below, n
  <2>4. t[i].parent \in 0..(i - 1) /\ i \in Nat
    BY <2>3, EntryIs, LineNumbers
  <2>5. CASE t[i].parent \in Range(s) \ {Header}
    <3>1. PICK l \in 1..n : t[i].parent = s[l]
      BY <1>3, <2>5
    <3>2. s[l] < s[j]
      BY <2>2, <2>4, <3>1
    <3>3. l <= k
      <4> SUFFICES ASSUME l > k PROVE FALSE
        BY <1>1
      <4>1. j < l
        BY <1>1
      <4>2. s[j] < s[l]
        BY <2>3, <4>1 DEF Ascending, n
      <4> QED BY <2>2, <2>4, <3>1, <3>2, <4>2
    <3>4. l \in 1..k
      BY <1>1, <3>3
    <3> QED BY <1>3, <2>5, <3>1, <3>4
  <2>6. CASE ~(t[i].parent \in Range(s) \ {Header})
    BY <2>1, <2>6 DEF Closed
  <2> QED BY <2>5, <2>6
<1>7. Closed(t, S)
  BY <1>6 DEF Closed
<1>8. Written(u).lines = u /\ Written(u).tail = "closed"
  BY DEF Written
<1> QED BY <1>4, <1>5, <1>7, <1>8 DEF Clean, u

-----------------------------------------------------------------------------
(* Writes.                                                                 *)

\* The memory after a step.
LEMMA HoldTyped ==
    ASSUME NEW p \in Path, NEW es, NEW lf, NEW ls, NEW n \in Nat, Memory(es, lf, ls, n), NEW fl \in BOOLEAN,
           up' \in BOOLEAN, Hold(p, es, lf, ls, fl)
    PROVE  /\ file' = p /\ flushed' \in BOOLEAN /\ Memory(entries', leaf', labels', n)
           /\ up' => entries' = es /\ leaf' = lf /\ labels' = ls /\ flushed' = fl
<1>1. CASE up'
  BY <1>1 DEF Hold
<1>2. CASE ~up'
  <2>1. file' = p /\ entries' = <<>> /\ leaf' = 0 /\ labels' = <<>> /\ flushed' = FALSE
    BY <1>2 DEF Hold
  <2>2. <<>> \in Seq(Ids) /\ Below(<<>>, n) /\ Ascending(<<>>) /\ IsInjective(<<>>)
    BY DEF Below, Ascending, IsInjective
  <2> QED BY <1>2, <2>1, <2>2 DEF Memory
<1> QED BY <1>1, <1>2

\* What a step that writes f to p does to the files.
Wrote(p, f) ==
    /\ disk' = SetFile(p, f) /\ FileShape(f, Len(table'))
    /\ hurt' \subseteq Path /\ hurt \ {p} \subseteq hurt' /\ (p \notin hurt' => Clean(table', f))
    /\ faults' \in 0..MaxFaults /\ up' \in BOOLEAN

\* The files after a step that writes one of them, or none.
LEMMA FilesAfter ==
    ASSUME Types, FilesClean, table' \in Tables, Grown(table, table'),
           \/ disk' = disk /\ hurt \subseteq hurt' /\ hurt' \subseteq Path
           \/ \E p \in Path : \E f : Wrote(p, f)
    PROVE  /\ DOMAIN disk' \subseteq Path /\ \A q \in DOMAIN disk' : FileShape(disk'[q], Len(table'))
           /\ hurt' \subseteq Path /\ FilesClean'
<1>1. /\ table \in Tables /\ DOMAIN disk \subseteq Path /\ hurt \subseteq Path
      /\ \A q \in DOMAIN disk : FileShape(disk[q], Len(table))
      /\ Len(table) \in Nat /\ Len(table') \in Nat /\ Len(table) <= Len(table')
  BY DEF Types, Tables, Grown
<1>2. ASSUME NEW q \in DOMAIN disk
      PROVE  FileShape(disk[q], Len(table')) /\ (q \notin hurt => Clean(table', disk[q]))
  <2>1. FileShape(disk[q], Len(table'))
    BY <1>1, ShapeGrown
  <2>2. q \notin hurt => Clean(table', disk[q])
    BY <1>1, CleanGrown DEF FilesClean
  <2> QED BY <2>1, <2>2
<1>3. CASE disk' = disk /\ hurt \subseteq hurt' /\ hurt' \subseteq Path
  <2>1. FilesClean'
    BY <1>2, <1>3 DEF FilesClean
  <2> QED BY <1>1, <1>2, <1>3, <2>1
<1>4. ASSUME NEW p \in Path, NEW f, Wrote(p, f)
      PROVE  /\ DOMAIN disk' \subseteq Path /\ \A q \in DOMAIN disk' : FileShape(disk'[q], Len(table'))
             /\ hurt' \subseteq Path /\ FilesClean'
  <2>1. /\ disk' = SetFile(p, f) /\ FileShape(f, Len(table'))
        /\ hurt' \subseteq Path /\ hurt \ {p} \subseteq hurt' /\ (p \notin hurt' => Clean(table', f))
    BY <1>4 DEF Wrote
  <2>2. /\ DOMAIN disk' = DOMAIN disk \cup {p} /\ disk'[p] = f
        /\ \A q \in DOMAIN disk : q # p => disk'[q] = disk[q]
    <3>1. disk' = SetFile(p, f)
      BY <2>1
    <3>2. /\ DOMAIN SetFile(p, f) = DOMAIN disk \cup {p} /\ SetFile(p, f)[p] = f
          /\ \A q \in DOMAIN disk : q # p => SetFile(p, f)[q] = disk[q]
      BY DEF SetFile
    <3> QED BY <3>1, <3>2
  <2>3. \A q \in DOMAIN disk' : FileShape(disk'[q], Len(table')) /\ (q \notin hurt' => Clean(table', disk'[q]))
    <3> TAKE q \in DOMAIN disk'
    <3>1. CASE q = p
      BY <2>1, <2>2, <3>1
    <3>2. CASE q # p
      BY <1>2, <2>1, <2>2, <3>2
    <3> QED BY <3>1, <3>2
  <2>4. FilesClean'
    BY <2>3 DEF FilesClean
  <2> QED BY <1>1, <2>1, <2>2, <2>3, <2>4
<1> QED BY <1>3, <1>4

\* The three ways a write ends.
LEMMA SuccessWrote ==
    ASSUME Types, NEW from, NEW p \in Path, NEW f, WriteSucceeds(from, p, f), FileShape(f, Len(table')),
           from \notin hurt /\ p \notin hurt => Clean(table', f)
    PROVE  Wrote(p, f) /\ up' = TRUE /\ hurt' = Heirs(from, p) /\ faults' \in 0..MaxFaults
<1>1. hurt \subseteq Path /\ faults \in 0..MaxFaults
  BY DEF Types
<1>2. disk' = SetFile(p, f) /\ up' = TRUE /\ hurt' = Heirs(from, p) /\ faults' = faults
  BY DEF WriteSucceeds
<1>3. hurt \subseteq Heirs(from, p) /\ Heirs(from, p) \subseteq Path /\ (p \notin Heirs(from, p) => from \notin hurt /\ p \notin hurt)
  BY <1>1 DEF Heirs
<1> QED BY <1>1, <1>2, <1>3 DEF Wrote

\* A write that fails leaves one of the cut files, which is damaged.
LEMMA FailureWrote ==
    ASSUME Types, NEW p \in Path, NEW cuts, WriteFails(p, cuts), \A g \in cuts : FileShape(g, Len(table'))
    PROVE  /\ \E f \in cuts : Wrote(p, f)
           /\ up' = TRUE /\ p \in hurt' /\ hurt \subseteq hurt' /\ faults' \in 0..MaxFaults
<1>1. hurt \subseteq Path /\ faults \in 0..MaxFaults /\ MaxFaults \in Nat
  BY SessionLogAssumption DEF Types
<1>2. PICK f \in cuts : disk' = SetFile(p, f)
  BY DEF WriteFails
<1>3. up' = TRUE /\ faults' = faults + 1 /\ faults < MaxFaults /\ hurt' = hurt \cup {p}
  BY DEF WriteFails
<1>4. faults' \in 0..MaxFaults
  BY <1>1, <1>3
<1>5. Wrote(p, f)
  BY <1>1, <1>2, <1>3, <1>4 DEF Wrote
<1> QED BY <1>3, <1>4, <1>5

\* So does the end of the process in a write, and a file that is not torn is as clean as
\* the one it was made from.
LEMMA DeathWrote ==
    ASSUME Types, NEW from, NEW p \in Path, NEW cuts, KilledInWrite(from, p, cuts),
           \A g \in cuts : FileShape(g, Len(table')),
           \A g \in cuts : g.tail = "closed" /\ from \notin hurt /\ p \notin hurt => Clean(table', g)
    PROVE  (\E f \in cuts : Wrote(p, f)) /\ up' = FALSE /\ faults' \in 0..MaxFaults
<1>1. hurt \subseteq Path /\ faults \in 0..MaxFaults /\ MaxFaults \in Nat
  BY SessionLogAssumption DEF Types
<1>2. PICK f \in cuts :
          /\ f.tail # "closed" => faults < MaxFaults
          /\ disk' = SetFile(p, f) /\ up' = FALSE
          /\ hurt' = IF f.tail = "closed" THEN Heirs(from, p) ELSE hurt \cup {p}
          /\ faults' = IF f.tail = "closed" THEN faults ELSE faults + 1
  BY DEF KilledInWrite
<1>3. hurt \subseteq Heirs(from, p) /\ Heirs(from, p) \subseteq Path /\ (p \notin Heirs(from, p) => from \notin hurt /\ p \notin hurt)
  BY <1>1 DEF Heirs
<1>4. faults' \in 0..MaxFaults
  BY <1>1, <1>2
<1>5. CASE f.tail = "closed"
  <2>1. Wrote(p, f)
    BY <1>2, <1>3, <1>4, <1>5 DEF Wrote
  <2> QED BY <1>2, <1>4, <2>1
<1>6. CASE f.tail # "closed"
  <2>1. Wrote(p, f)
    BY <1>1, <1>2, <1>4, <1>6 DEF Wrote
  <2> QED BY <1>2, <1>4, <2>1
<1> QED BY <1>5, <1>6

\* The invariant after a step, from its parts.
LEMMA LogInvAfter ==
    ASSUME Types, FilesClean, table' \in Tables, Grown(table, table'),
           \/ disk' = disk /\ hurt \subseteq hurt' /\ hurt' \subseteq Path
           \/ \E p \in Path : \E f : Wrote(p, f),
           up' \in BOOLEAN, faults' \in 0..MaxFaults,
           NEW p \in Path, NEW es, NEW lf, NEW ls, Memory(es, lf, ls, Len(table')), NEW fl \in BOOLEAN,
           Hold(p, es, lf, ls, fl), up' => Own(table', disk', hurt', p, es, ls, fl)
    PROVE  LogInv'
<1>1. Len(table') \in Nat
  BY DEF Tables
<1>2. /\ file' = p /\ flushed' \in BOOLEAN /\ Memory(entries', leaf', labels', Len(table'))
      /\ up' => entries' = es /\ leaf' = lf /\ labels' = ls /\ flushed' = fl
  BY <1>1, HoldTyped
<1>3. /\ DOMAIN disk' \subseteq Path /\ \A q \in DOMAIN disk' : FileShape(disk'[q], Len(table'))
      /\ hurt' \subseteq Path /\ FilesClean'
  BY FilesAfter
<1>4. Types'
  BY <1>2, <1>3 DEF Types
<1>5. FileOfSession'
  BY <1>2 DEF FileOfSession
<1> QED BY <1>3, <1>4, <1>5 DEF LogInv

\* All the lines are a beginning.
LEMMA CleanWhole ==
    ASSUME NEW t \in Tables, NEW s \in Seq(Parsed), Ascending(s), Below(s, Len(t)), s # <<>>, s[1] = Header,
           Closed(t, Range(s) \ {Header})
    PROVE  Clean(t, Written(s))
<1>1. Len(t) \in Nat /\ Len(s) \in 0..Len(s) /\ Len(s) \in Nat
  BY DEF Tables
<1>2. SubSeq(s, 1, Len(s)) = s
  <2> DEFINE u == SubSeq(s, 1, Len(s))
  <2>1. u \in Seq(Parsed) /\ Len(u) = Len(s) /\ \A i \in 1..Len(s) : u[i] = s[i]
    BY <1>1, Beginning
  <2> HIDE DEF u
  <2>2. u = s
    BY <1>1, <2>1
  <2> QED BY <2>2 DEF u
<1>3. Clean(t, Written(SubSeq(s, 1, Len(s))))
  BY <1>1, CleanBeginning
<1> QED BY <1>2, <1>3

\* A greater entry behind the others, with the header before them.
LEMMA EntryBehind ==
    ASSUME NEW es \in Seq(Ids), Ascending(es), NEW n \in Nat, Below(es, n), n + 1 \in Ids
    PROVE  LET fs == Append(es, n + 1) IN
           /\ fs \in Seq(Ids) /\ Ascending(fs) /\ Below(fs, n + 1) /\ Range(fs) = Range(es) \cup {n + 1}
           /\ FirstLines(fs) = Append(FirstLines(es), n + 1)
<1> DEFINE fs == Append(es, n + 1)
           k == Len(es)
<1>1. /\ k \in Nat /\ fs \in Seq(Ids) /\ Len(fs) = k + 1 /\ fs[k + 1] = n + 1
      /\ \A i \in 1..k : fs[i] = es[i] /\ es[i] \in Ids
  OBVIOUS
<1>2. \A i \in 1..k : es[i] \in Nat /\ es[i] <= n
  BY <1>1, LineNumbers DEF Below
<1>3. Range(fs) = Range(es) \cup {n + 1}
  BY RangeAppended
<1>4. FirstLines(fs) = Append(FirstLines(es), n + 1)
  <2>1. <<Header>> \in Seq(Int) /\ es \in Seq(Int) /\ n + 1 \in Int
    BY <1>1, <1>2 DEF Header
  <2> DEFINE a == <<Header>> \o fs
             b == Append(<<Header>> \o es, n + 1)
  <2>2. <<Header>> \o es \in Seq(Int) /\ Len(<<Header>> \o es) = k + 1
    BY <1>1, <2>1
  <2>3. fs \in Seq(Int)
    BY <2>1
  <2>4. a \in Seq(Int) /\ b \in Seq(Int) /\ Len(a) = k + 2 /\ Len(b) = k + 2
    BY <1>1, <2>1, <2>2, <2>3
  <2>5. \A i \in 1..(k + 2) : a[i] = b[i]
    <3> TAKE i \in 1..(k + 2)
    <3>1. a[i] = IF i = 1 THEN Header ELSE fs[i - 1]
      BY <1>1, <2>1, <2>3
    <3>2. b[i] = IF i = k + 2 THEN n + 1 ELSE (<<Header>> \o es)[i]
      BY <1>1, <2>1, <2>2
    <3>3. i # k + 2 => (<<Header>> \o es)[i] = IF i = 1 THEN Header ELSE es[i - 1]
      BY <1>1, <2>1
    <3>4. i # 1 /\ i # k + 2 => fs[i - 1] = es[i - 1]
      <4> SUFFICES ASSUME i # 1, i # k + 2 PROVE fs[i - 1] = es[i - 1]
        OBVIOUS
      <4>1. i - 1 \in 1..k
        BY <1>1
      <4> HIDE DEF fs
      <4> QED BY <1>1, <4>1
    <3>5. i = k + 2 => i # 1 /\ i - 1 = k + 1
      BY <1>1
    <3> HIDE DEF fs, a, b
    <3> QED BY <1>1, <3>1, <3>2, <3>3, <3>4, <3>5
  <2> HIDE DEF a, b
  <2>6. a = b
    BY <1>1, <2>4, <2>5
  <2> QED BY <2>6 DEF a, b, FirstLines
<1> HIDE DEF fs, k
<1>5. Ascending(fs)
  <2>1. \A i, j \in 1..k : i < j => es[i] < es[j]
    BY DEF Ascending, k
  <2>2. ASSUME NEW i \in 1..(k + 1), NEW j \in 1..(k + 1), i < j
        PROVE  fs[i] < fs[j]
    <3>1. i \in 1..k
      BY <1>1, <2>2
    <3>2. CASE j = k + 1
      BY <1>1, <1>2, <3>1, <3>2
    <3>3. CASE j # k + 1
      <4>1. j \in 1..k
        BY <1>1, <3>3
      <4> QED BY <1>1, <2>1, <2>2, <3>1, <4>1
    <3> QED BY <3>2, <3>3
  <2> QED BY <1>1, <2>2 DEF Ascending
<1>6. Below(fs, n + 1)
  <2>1. ASSUME NEW i \in 1..(k + 1)
        PROVE  fs[i] <= n + 1
    <3>1. i = k + 1 \/ i \in 1..k
      BY <1>1
    <3> QED BY <1>1, <1>2, <3>1
  <2> QED BY <1>1, <2>1 DEF Below
<1> QED BY <1>1, <1>3, <1>4, <1>5, <1>6 DEF fs

-----------------------------------------------------------------------------
(* _appendEntry.                                                           *)

\* A clean file of a session, and what a first write of it leaves.
LEMMA FirstWrite ==
    ASSUME NEW t \in Tables, NEW es \in Seq(Ids), Ascending(es), Below(es, Len(t))
    PROVE  /\ FileShape(Written(FirstLines(es)), Len(t))
           /\ Range(FirstLines(es)) = {Header} \cup Range(es)
           /\ Closed(t, Range(es)) => Clean(t, Written(FirstLines(es)))
           /\ \A g \in CutWrites(FirstLines(es)) :
                 /\ FileShape(g, Len(t)) /\ Range(g.lines) \subseteq {Header, Junk} \cup Range(es)
                 /\ g.tail = "closed" /\ Closed(t, Range(es)) => Clean(t, g)
<1> DEFINE all == FirstLines(es)
<1>1. Len(t) \in Nat
  BY DEF Tables
<1>2. /\ all \in Seq(Parsed) /\ Ascending(all) /\ Below(all, Len(t)) /\ Range(all) = {Header} \cup Range(es)
      /\ Len(all) = Len(es) + 1 /\ all[1] = Header
  BY <1>1, HeaderFirst
<1>3. all # <<>>
  <2> HIDE DEF all
  <2>1. Len(all) # 0
    BY <1>2
  <2> QED BY <2>1
<1>4. Header \notin Range(es)
  <2>1. Range(es) \subseteq Ids
    BY DEF Range
  <2> QED BY <2>1, LineNumbers
<1>5. Range(all) \ {Header} = Range(es)
  BY <1>2, <1>4
<1> HIDE DEF all
<1>6. FileShape(Written(all), Len(t))
  BY <1>1, <1>2, WholeFile
<1>7. ASSUME Closed(t, Range(es))
      PROVE  Clean(t, Written(all))
  BY <1>2, <1>3, <1>5, <1>7, CleanWhole
<1>8. ASSUME NEW g \in CutWrites(all)
      PROVE  /\ FileShape(g, Len(t)) /\ Range(g.lines) \subseteq {Header, Junk} \cup Range(es)
             /\ g.tail = "closed" /\ Closed(t, Range(es)) => Clean(t, g)
  <2>1. /\ FileShape(g, Len(t)) /\ Range(g.lines) \subseteq Range(all) \cup {Junk}
        /\ g.tail = "closed" => \E k \in 0..Len(all) : g = Written(SubSeq(all, 1, k))
    BY <1>1, <1>2, <1>8, CutWritesShape
  <2>2. ASSUME g.tail = "closed", Closed(t, Range(es))
        PROVE  Clean(t, g)
    <3>1. PICK k \in 0..Len(all) : g = Written(SubSeq(all, 1, k))
      BY <2>1, <2>2
    <3>2. Clean(t, Written(SubSeq(all, 1, k)))
      BY <1>2, <1>3, <1>5, <2>2, CleanBeginning
    <3> QED BY <3>1, <3>2
  <2> QED BY <1>2, <2>1, <2>2
<1> QED BY <1>2, <1>6, <1>7, <1>8 DEF all

\* Range(es) are ids of the table.
LEMMA RangeBelow ==
    ASSUME NEW es \in Seq(Ids), NEW n \in Nat, Below(es, n)
    PROVE  \A i \in Range(es) : i \in Ids /\ i <= n
<1>1. \A k \in 1..Len(es) : es[k] \in Ids /\ es[k] <= n
  BY DEF Below
<1>2. DOMAIN es = 1..Len(es)
  OBVIOUS
<1> QED BY <1>1, <1>2 DEF Range

\* An entry that has joined the session, whatever becomes of its write.
LEMMA PersistedKeeps ==
    ASSUME LogInv, up, New <= MaxEntries, NEW e \in Entry, e.parent \in {0} \cup Range(entries),
           e.ref <= Len(table), e.kind = "label" => e.ref # 0, table' = Append(table, e),
           NEW ls, ls = IF e.kind = "label" THEN WithLabel(labels, e.ref, e.set) ELSE labels,
           Persisted(New, ls)
    PROVE  LogInv'
<1> DEFINE n == Len(table)
           es == Append(entries, New)
           all == FirstLines(es)
<1>1. /\ Types /\ FilesClean /\ table \in Tables /\ n \in Nat /\ file \in Path /\ flushed \in BOOLEAN
      /\ entries \in Seq(Ids) /\ Below(entries, n) /\ Ascending(entries)
      /\ labels \in Seq(Ids) /\ Below(labels, n) /\ IsInjective(labels)
      /\ DOMAIN disk \subseteq Path /\ (\A p \in DOMAIN disk : FileShape(disk[p], n))
      /\ hurt \subseteq Path /\ faults \in 0..MaxFaults
  BY DEF LogInv, Types, Memory, Tables
<1>2. Own(table, disk, hurt, file, entries, labels, flushed)
  BY DEF LogInv, FileOfSession
<1>3. New = n + 1
  BY DEF New
<1>4. \A i \in Range(entries) : i \in Ids /\ i <= n
  BY <1>1, RangeBelow
<1>5. e.parent <= n /\ e.parent \in Nat
  BY <1>1, <1>4, LineNumbers
<1>6. /\ table' \in Tables /\ Grown(table, table') /\ Len(table') = n + 1 /\ table'[n + 1] = e
      /\ n + 1 \in Ids
  BY <1>1, <1>3, <1>5, EntryJoins
<1>7. /\ es \in Seq(Ids) /\ Ascending(es) /\ Below(es, n + 1) /\ Range(es) = Range(entries) \cup {n + 1}
      /\ all = Append(FirstLines(entries), n + 1)
  BY <1>1, <1>3, <1>6, EntryBehind
<1>8. ls \in Seq(Ids) /\ Below(ls, n + 1) /\ IsInjective(ls)
  <2>1. CASE e.kind # "label"
    BY <1>1, <2>1, BelowGrown
  <2>2. CASE e.kind = "label"
    <3>1. e.ref \in Ids /\ e.ref <= n /\ e.set \in BOOLEAN
      <4>1. e.ref \in 0..MaxEntries /\ e.set \in BOOLEAN
        BY DEF Entry
      <4> QED BY <2>2, <4>1, SessionLogAssumption DEF Ids
    <3>2. ls = WithLabel(labels, e.ref, e.set)
      BY <2>2
    <3>3. ls \in Seq(Ids) /\ Range(ls) \subseteq Range(labels) \cup {e.ref} /\ IsInjective(ls)
      <4> DEFINE target == e.ref
                 set == e.set
                 new == WithLabel(labels, target, set)
      <4>1. labels \in Seq(Ids) /\ IsInjective(labels) /\ target \in Ids /\ set \in BOOLEAN /\ ls = new
        BY <1>1, <3>1, <3>2
      <4> HIDE DEF target, set
      <4>2. new \in Seq(Ids) /\ Range(new) \subseteq Range(labels) \cup {target} /\ IsInjective(new)
        BY <4>1, WithLabelTyped
      <4> QED BY <4>1, <4>2 DEF target
    <3>4. \A i \in Range(labels) : i <= n
      BY <1>1, RangeBelow
    <3>5. \A k \in 1..Len(ls) : ls[k] \in Range(ls) /\ ls[k] \in Nat
      BY <3>3, LineNumbers DEF Range
    <3>6. \A k \in 1..Len(ls) : ls[k] <= n + 1
      BY <1>1, <3>1, <3>3, <3>4, <3>5
    <3> QED BY <3>3, <3>6 DEF Below
  <2> QED BY <2>1, <2>2
<1>9. Memory(es, n + 1, ls, n + 1) /\ Memory(es, n + 1, labels, n + 1)
  <2>1. Below(labels, n + 1)
    BY <1>1, BelowGrown
  <2> QED BY <1>1, <1>7, <1>8, <2>1 DEF Memory
<1>10. file \notin hurt => Closed(table', Range(es))
  <2> SUFFICES ASSUME file \notin hurt PROVE Closed(table', Range(es))
    OBVIOUS
  <2>1. Closed(table, Range(entries)) /\ Range(entries) \in SUBSET Ids
    BY <1>2, <1>4 DEF Own
  <2>2. Closed(table', Range(entries))
    BY <1>1, <1>4, <1>6, <2>1, ClosedGrown
  <2> QED BY <1>6, <1>7, <2>2 DEF Closed
<1>11. file \notin hurt => ls = ResolvedOf(table', es)
  <2> SUFFICES ASSUME file \notin hurt PROVE ls = ResolvedOf(table', es)
    OBVIOUS
  <2>1. labels = ResolvedOf(table, entries)
    BY <1>2 DEF Own
  <2>2. n + 1 <= Len(table')
    BY <1>1, <1>6
  <2>3. ResolvedOf(table', Append(entries, n + 1)) =
            IF table'[n + 1].kind = "label"
            THEN WithLabel(ResolvedOf(table, entries), table'[n + 1].ref, table'[n + 1].set)
            ELSE ResolvedOf(table, entries)
    BY <1>1, <1>6, <2>2, ResolvedAppended
  <2> QED BY <1>3, <1>6, <2>1, <2>3
<1>12. HasAssistant(es) <=> \E i \in Range(es) : table'[i].kind = "assistant"
  BY DEF HasAssistant
<1>13. /\ FileShape(Written(all), n + 1) /\ Range(all) = {Header} \cup Range(es)
       /\ file \notin hurt => Clean(table', Written(all))
       /\ \A g \in CutWrites(all) :
             /\ FileShape(g, n + 1) /\ Range(g.lines) \subseteq {Header, Junk} \cup Range(es)
             /\ g.tail = "closed" /\ file \notin hurt => Clean(table', g)
  <2> HIDE DEF es
  <2>1. /\ FileShape(Written(all), Len(table')) /\ Range(all) = {Header} \cup Range(es)
        /\ Closed(table', Range(es)) => Clean(table', Written(all))
        /\ \A g \in CutWrites(all) :
              /\ FileShape(g, Len(table')) /\ Range(g.lines) \subseteq {Header, Junk} \cup Range(es)
              /\ g.tail = "closed" /\ Closed(table', Range(es)) => Clean(table', g)
    BY <1>6, <1>7, FirstWrite
  <2> HIDE DEF all, n
  <2> QED BY <1>6, <1>10, <2>1
<1>14. file \in DOMAIN disk => Range(disk[file].lines) \subseteq {Header, Junk} \cup Range(es)
  BY <1>2, <1>7 DEF Own
<1>15. CASE ~flushed /\ ~HasAssistant(es)
  <2>1. NoWrite /\ Hold(file, es, New, ls, FALSE)
    BY <1>15 DEF Persisted
  <2>2. disk' = disk /\ hurt' = hurt /\ faults' = faults /\ up' = TRUE
    BY <2>1 DEF NoWrite
  <2>3. Own(table', disk', hurt', file, es, ls, FALSE)
    BY <1>2, <1>10, <1>11, <1>12, <1>14, <1>15, <2>2 DEF Own
  <2> HIDE DEF es, n
  <2> QED BY <1>1, <1>3, <1>6, <1>9, <2>1, <2>2, <2>3, LogInvAfter
<1>16. CASE ~flushed /\ HasAssistant(es) /\ file \notin DOMAIN disk
  <2>1. \/ WriteSucceeds(file, file, Written(all)) /\ Hold(file, es, New, ls, TRUE)
        \/ WriteFails(file, CutWrites(all)) /\ Hold(file, es, New, labels, FALSE)
        \/ KilledInWrite(file, file, CutWrites(all)) /\ Hold(file, es, New, labels, FALSE)
    BY <1>16 DEF Persisted
  <2> HIDE DEF es, n, all
  <2>2. CASE WriteSucceeds(file, file, Written(all)) /\ Hold(file, es, New, ls, TRUE)
    <3>1. Wrote(file, Written(all)) /\ up' = TRUE /\ hurt' = Heirs(file, file) /\ faults' \in 0..MaxFaults
      BY <1>1, <1>6, <1>13, <2>2, SuccessWrote
    <3>2. hurt' = hurt \cup (IF file \in hurt THEN {file} ELSE {})
      BY <3>1 DEF Heirs
    <3>3. disk'[file] = Written(all) /\ file \in DOMAIN disk' /\ Written(all).lines = all
      BY <3>1 DEF Wrote, SetFile, Written
    <3>4. Own(table', disk', hurt', file, es, ls, TRUE)
      BY <1>10, <1>11, <1>13, <3>2, <3>3 DEF Own, all
    <3> QED BY <1>1, <1>3, <1>6, <1>9, <2>2, <3>1, <3>4, LogInvAfter
  <2>3. CASE WriteFails(file, CutWrites(all)) /\ Hold(file, es, New, labels, FALSE)
    <3>1. /\ \E f \in CutWrites(all) : Wrote(file, f)
          /\ up' = TRUE /\ file \in hurt' /\ hurt \subseteq hurt' /\ faults' \in 0..MaxFaults
      BY <1>1, <1>6, <1>13, <2>3, FailureWrote
    <3>2. PICK f \in CutWrites(all) : Wrote(file, f)
      BY <3>1
    <3>3. disk'[file] = f
      BY <3>2 DEF Wrote, SetFile
    <3>4. Own(table', disk', hurt', file, es, labels, FALSE)
      BY <1>13, <3>1, <3>3 DEF Own
    <3> QED BY <1>1, <1>3, <1>6, <1>9, <2>3, <3>1, <3>2, <3>4, LogInvAfter
  <2>4. CASE KilledInWrite(file, file, CutWrites(all)) /\ Hold(file, es, New, labels, FALSE)
    <3>1. (\E f \in CutWrites(all) : Wrote(file, f)) /\ up' = FALSE /\ faults' \in 0..MaxFaults
      BY <1>1, <1>6, <1>13, <2>4, DeathWrote
    <3> QED BY <1>1, <1>3, <1>6, <1>9, <2>4, <3>1, LogInvAfter
  <2> QED BY <2>1, <2>2, <2>3, <2>4
<1>17. CASE ~flushed /\ HasAssistant(es) /\ file \in DOMAIN disk
  <2>1. NoWrite /\ Hold(file, es, New, labels, FALSE)
    BY <1>17 DEF Persisted
  <2>2. disk' = disk /\ hurt' = hurt /\ faults' = faults /\ up' = TRUE
    BY <2>1 DEF NoWrite
  <2>3. Own(table', disk', hurt', file, es, labels, FALSE)
    BY <1>2, <1>14, <1>17, <2>2 DEF Own
  <2> HIDE DEF es, n
  <2> QED BY <1>1, <1>3, <1>6, <1>9, <2>1, <2>2, <2>3, LogInvAfter
<1>18. CASE flushed
  <2> DEFINE f == disk[file]
  <2>1. \/ WriteSucceeds(file, file, Appended(f, New)) /\ Hold(file, es, New, ls, TRUE)
        \/ WriteFails(file, CutAppends(f, New)) /\ Hold(file, es, New, labels, TRUE)
        \/ KilledInWrite(file, file, CutAppends(f, New)) /\ Hold(file, es, New, labels, TRUE)
    BY <1>18 DEF Persisted
  <2>2. file \in DOMAIN disk
    BY <1>2, <1>18 DEF Own
  <2>3. FileShape(f, n) /\ FileShape(f, n + 1)
    BY <1>1, <2>2, ShapeGrown
  <2>4. \A k \in 1..Len(f.lines) : f.lines[k] < n + 1
    <3>1. f.lines \in Seq(Line) /\ Below(f.lines, n)
      BY <2>3 DEF FileShape, File
    <3>2. \A k \in 1..Len(f.lines) : f.lines[k] \in Int /\ f.lines[k] <= n
      BY <3>1, LineNumbers DEF Below
    <3> QED BY <1>1, <3>2
  <2>5. n + 1 \in Parsed /\ n + 1 \in Nat /\ n + 1 <= n + 1
    BY <1>1, <1>6, LineNumbers
  <2>6. Range(f.lines) \subseteq {Header, Junk} \cup Range(es) /\ n + 1 \in Range(es)
    BY <1>7, <1>14, <2>2
  <2> HIDE DEF f
  <2>7. /\ FileShape(Appended(f, n + 1), n + 1)
        /\ Range(Appended(f, n + 1).lines) \subseteq {Header, Junk} \cup Range(es)
    BY <2>3, <2>4, <2>5, <2>6, AppendedShape
  <2>8. \A g \in CutAppends(f, n + 1) :
            /\ FileShape(g, n + 1) /\ Range(g.lines) \subseteq {Header, Junk} \cup Range(es)
            /\ g.tail = "closed" => g = f
    <3> TAKE g \in CutAppends(f, n + 1)
    <3>1. /\ FileShape(g, n + 1) /\ Range(g.lines) \subseteq Range(f.lines) \cup {n + 1, Junk}
          /\ g.tail = "closed" => g = f
      <4> DEFINE m == n + 1
      <4>1. m \in Nat /\ m \in Parsed /\ m <= m /\ FileShape(f, m) /\ g \in CutAppends(f, m)
            /\ \A k \in 1..Len(f.lines) : f.lines[k] < m
        BY <2>3, <2>4, <2>5
      <4> HIDE DEF m
      <4>2. /\ FileShape(g, m) /\ Range(g.lines) \subseteq Range(f.lines) \cup {m, Junk}
            /\ g.tail = "closed" => g = f
        BY <4>1, CutAppendsShape
      <4> QED BY <4>2 DEF m
    <3> QED BY <2>6, <3>1
  <2>9. file \notin hurt => Appended(f, n + 1) = Written(all)
    <3> SUFFICES ASSUME file \notin hurt PROVE Appended(f, n + 1) = Written(all)
      OBVIOUS
    <3>1. f = Written(FirstLines(entries))
      BY <1>2, <1>18 DEF Own, f
    <3>2. f.tail = "closed" /\ f.lines = FirstLines(entries)
      BY <3>1 DEF Written
    <3>3. Appended(f, n + 1) = Written(Append(f.lines, n + 1))
      BY <3>2 DEF Appended
    <3> QED BY <1>7, <3>2, <3>3
  <2> HIDE DEF es, n, all
  <2>10. CASE WriteSucceeds(file, file, Appended(f, New)) /\ Hold(file, es, New, ls, TRUE)
    <3> DEFINE g == Appended(f, n + 1)
    <3>1. WriteSucceeds(file, file, g) /\ FileShape(g, n + 1) /\ (file \notin hurt => Clean(table', g))
      BY <1>3, <1>13, <2>7, <2>9, <2>10
    <3> HIDE DEF g
    <3>2. Wrote(file, g) /\ up' = TRUE /\ hurt' = Heirs(file, file) /\ faults' \in 0..MaxFaults
      BY <1>1, <1>6, <3>1, SuccessWrote
    <3>3. hurt' = hurt \cup (IF file \in hurt THEN {file} ELSE {})
      BY <3>2 DEF Heirs
    <3>4. disk'[file] = g /\ file \in DOMAIN disk'
      BY <3>2 DEF Wrote, SetFile
    <3>5. Range(g.lines) \subseteq {Header, Junk} \cup Range(es) /\ (file \notin hurt => g = Written(FirstLines(es)))
      BY <2>7, <2>9 DEF g, all
    <3>6. Own(table', disk', hurt', file, es, ls, TRUE)
      BY <1>10, <1>11, <3>3, <3>4, <3>5 DEF Own
    <3> QED BY <1>1, <1>3, <1>6, <1>9, <2>10, <3>2, <3>6, LogInvAfter
  <2>11. CASE WriteFails(file, CutAppends(f, New)) /\ Hold(file, es, New, labels, TRUE)
    <3>1. /\ \E g \in CutAppends(f, n + 1) : Wrote(file, g)
          /\ up' = TRUE /\ file \in hurt' /\ hurt \subseteq hurt' /\ faults' \in 0..MaxFaults
      BY <1>1, <1>3, <1>6, <2>8, <2>11, FailureWrote
    <3>2. PICK g \in CutAppends(f, n + 1) : Wrote(file, g)
      BY <3>1
    <3>3. disk'[file] = g /\ file \in DOMAIN disk'
      BY <3>2 DEF Wrote, SetFile
    <3>4. Own(table', disk', hurt', file, es, labels, TRUE)
      BY <2>8, <3>1, <3>3 DEF Own
    <3> QED BY <1>1, <1>3, <1>6, <1>9, <2>11, <3>1, <3>2, <3>4, LogInvAfter
  <2>12. CASE KilledInWrite(file, file, CutAppends(f, New)) /\ Hold(file, es, New, labels, TRUE)
    <3>1. file \notin hurt => Clean(table', f)
      <4>1. file \notin hurt => Clean(table, f)
        BY <1>1, <2>2 DEF FilesClean, f
      <4> QED BY <1>1, <1>6, <2>3, <4>1, CleanGrown DEF n
    <3>2. (\E g \in CutAppends(f, n + 1) : Wrote(file, g)) /\ up' = FALSE /\ faults' \in 0..MaxFaults
      BY <1>1, <1>3, <1>6, <2>8, <2>12, <3>1, DeathWrote
    <3> QED BY <1>1, <1>3, <1>6, <1>9, <2>12, <3>2, LogInvAfter
  <2> QED BY <2>1, <2>10, <2>11, <2>12
<1> QED BY <1>1, <1>15, <1>16, <1>17, <1>18

-----------------------------------------------------------------------------
(* Branches.                                                               *)

\* getBranch in a table: Branch is that of the variable.
BranchOf(t, present, i) ==
    LET path[j \in 0..MaxEntries] ==
            IF j \notin present THEN <<>> ELSE Append(path[t[j].parent], j)
    IN  path[i]

\* The paths to all entries, as BranchOf defines them.
PathTo(t, present) ==
    CHOOSE path : path =
        [j \in 0..MaxEntries |-> IF j \notin present THEN <<>> ELSE Append(path[t[j].parent], j)]

\* Their recursion: each path is that of the parent with one entry more.
Above(t, present) == [j \in 1..MaxEntries |-> IF j \in present THEN t[j].parent ELSE 0]
Extending(t, present) ==
    [j \in 1..MaxEntries |-> [x \in Seq(Ids) |-> IF j \in present THEN Append(x, j) ELSE <<>>]]

\* There are such paths, and BranchOf is one of them.
LEMMA BranchExists ==
    ASSUME NEW t \in Tables, NEW present \in SUBSET Ids, \A i \in present : i <= Len(t)
    PROVE  /\ PathTo(t, present) \in [0..MaxEntries -> Seq(Ids)]
           /\ \A j \in 0..MaxEntries :
                 PathTo(t, present)[j] = IF j \notin present THEN <<>>
                                      ELSE Append(PathTo(t, present)[t[j].parent], j)
           /\ \A j \in present : t[j].parent \in 0..(j - 1) /\ j \in 0..MaxEntries
           /\ \A i : BranchOf(t, present, i) = PathTo(t, present)[i]
<1> DEFINE n == MaxEntries
           first == <<>>
           R == Seq(Ids)
           before == Above(t, present)
           step == Extending(t, present)
           g == PathTo(t, present)
<1>1. n \in Nat /\ first \in R /\ Ids = 1..n
  BY SessionLogAssumption DEF Ids
<1>2. \A j \in present : t[j].parent \in 0..(j - 1) /\ j \in 1..n
  BY <1>1, EntryIs
<1>3. \A j \in 1..n : before[j] \in 0..(j - 1) /\ (j \in present => before[j] = t[j].parent)
  <2> TAKE j \in 1..n
  <2>1. before[j] = IF j \in present THEN t[j].parent ELSE 0
    BY DEF Above
  <2> QED BY <1>1, <1>2, <2>1
<1>4. \A j \in 1..n, x \in R : step[j][x] = (IF j \in present THEN Append(x, j) ELSE <<>>) /\ step[j][x] \in R
  <2> TAKE j \in 1..n, x \in R
  <2>1. step[j][x] = IF j \in present THEN Append(x, j) ELSE <<>>
    BY DEF Extending
  <2>2. Append(x, j) \in R /\ <<>> \in R
    BY <1>1
  <2> HIDE DEF step, R
  <2> QED BY <2>1, <2>2
<1>5. PICK f \in [0..n -> R] : Recursive(f, n, first, before, step)
  <2> HIDE DEF n, first, R, before, step
  <2>1. \A j \in 1..n : before[j] \in 0..(j - 1)
    BY <1>3
  <2>2. \A j \in 1..n, x \in R : step[j][x] \in R
    BY <1>4
  <2> QED BY <1>1, <2>1, <2>2, RecursionExists
<1>6. ASSUME NEW j \in 0..n
      PROVE  f[j] = IF j \notin present THEN <<>> ELSE Append(f[t[j].parent], j)
  <2>1. f[j] = IF j = 0 THEN first ELSE step[j][f[before[j]]]
    <3>1. Recursive(f, n, first, before, step) /\ j \in 0..n
      BY <1>5
    <3> HIDE DEF n, first, R, before, step
    <3>2. f[j] = IF j = 0 THEN first ELSE step[j][f[before[j]]]
      BY <3>1 DEF Recursive
    <3> QED BY <3>2
  <2>2. CASE j = 0
    <3>1. j \notin present
      BY <1>2, <2>2
    <3> QED BY <2>1, <2>2, <3>1
  <2>3. CASE j # 0
    <3>1. j \in 1..n /\ before[j] \in 0..n
      BY <1>1, <1>3, <2>3
    <3>2. f[before[j]] \in R
      <4> HIDE DEF before, R, n
      <4> QED BY <1>5, <3>1
    <3>3. step[j][f[before[j]]] = IF j \in present THEN Append(f[before[j]], j) ELSE <<>>
      BY <1>4, <3>1, <3>2
    <3>4. j \in present => before[j] = t[j].parent
      BY <1>3, <3>1
    <3> HIDE DEF before, step
    <3> QED BY <2>1, <2>3, <3>3, <3>4
  <2> QED BY <2>2, <2>3
<1>7. f = [j \in 0..MaxEntries |-> IF j \notin present THEN <<>> ELSE Append(f[t[j].parent], j)]
  <2>1. f = [j \in 0..MaxEntries |-> f[j]]
    OBVIOUS
  <2> QED BY <1>6, <2>1
<1>8. g = [j \in 0..MaxEntries |-> IF j \notin present THEN <<>> ELSE Append(g[t[j].parent], j)]
  BY <1>7 DEF PathTo
<1>9. \A j \in 0..n : g[j] = IF j \notin present THEN <<>> ELSE Append(g[t[j].parent], j)
  <2> HIDE DEF g
  <2> QED BY <1>8
<1>10. \A j \in 0..n : g[j] = f[j]
  <2> DEFINE U == {k \in 0..n : g[k] # f[k]}
  <2> SUFFICES ASSUME U # {} PROVE FALSE
    OBVIOUS
  <2>1. PICK k \in U : \A j \in U : k <= j
    <3>1. U \in SUBSET Nat /\ U # {}
      OBVIOUS
    <3> HIDE DEF U
    <3> QED BY <3>1, Least
  <2>2. k \in 0..n /\ g[k] # f[k]
    BY <2>1
  <2> HIDE DEF g
  <2>3. k \in present
    BY <1>6, <1>9, <2>2
  <2>4. t[k].parent \in 0..n /\ t[k].parent < k
    BY <1>1, <1>2, <2>2, <2>3
  <2>5. g[t[k].parent] = f[t[k].parent]
    BY <1>1, <2>1, <2>2, <2>4
  <2> QED BY <1>6, <1>9, <2>2, <2>5
<1>11. g = [j \in 0..n |-> g[j]]
  <2> HIDE DEF g
  <2> QED BY <1>8
<1>12. g = f
  <2> HIDE DEF g
  <2> QED BY <1>10, <1>11
<1>13. \A i : BranchOf(t, present, i) = g[i]
  BY DEF BranchOf, PathTo
<1>14. \A j \in present : j \in 0..MaxEntries
  BY <1>1
<1> QED BY <1>2, <1>5, <1>6, <1>12, <1>13, <1>14

\* The session reads its branches in its table.
LEMMA BranchOfTable ==
    \A present, i : Branch(present, i) = BranchOf(table, present, i)
BY DEF Branch, BranchOf

\* A branch goes up from its entry: its entries ascend to that one, each below its parent,
\* up to the root or to an entry whose parent is missing.
LEMMA BranchIs ==
    ASSUME NEW t \in Tables, NEW present \in SUBSET Ids, \A i \in present : i <= Len(t),
           NEW i \in 0..MaxEntries
    PROVE  LET path == BranchOf(t, present, i) IN
           /\ path \in Seq(Ids) /\ Range(path) \subseteq present /\ Ascending(path)
           /\ i \in present => i \in Range(path)
           /\ path # <<>> => path[Len(path)] = i
           /\ \A k \in Range(path) : t[k].parent \in {0} \cup Range(path) \/ t[k].parent \notin present
           /\ \A k \in 2..Len(path) : t[path[k]].parent = path[k - 1]
<1> DEFINE f == PathTo(t, present)
           P(s, j) == /\ s \in Seq(Ids) /\ Range(s) \subseteq present /\ Ascending(s)
                      /\ \A k \in Range(s) : k <= j
                      /\ j \in present => j \in Range(s)
                      /\ s # <<>> => s[Len(s)] = j
                      /\ \A k \in Range(s) : t[k].parent \in {0} \cup Range(s) \/ t[k].parent \notin present
                      /\ \A k \in 2..Len(s) : t[s[k]].parent = s[k - 1]
           U == {j \in 0..MaxEntries : ~P(f[j], j)}
<1>1. /\ MaxEntries \in Nat /\ f \in [0..MaxEntries -> Seq(Ids)]
      /\ \A j \in 0..MaxEntries : f[j] = IF j \notin present THEN <<>> ELSE Append(f[t[j].parent], j)
      /\ \A j \in present : t[j].parent \in 0..(j - 1) /\ j \in 0..MaxEntries
      /\ BranchOf(t, present, i) = f[i]
  BY BranchExists, SessionLogAssumption
<1>2. U = {}
  <2> SUFFICES ASSUME U # {} PROVE FALSE
    OBVIOUS
  <2>1. PICK j \in U : \A k \in U : j <= k
    <3> HIDE DEF P, f
    <3>1. U \in SUBSET Nat /\ U # {}
      OBVIOUS
    <3> HIDE DEF U
    <3> QED BY <3>1, Least
  <2> HIDE DEF f
  <2>2. j \in 0..MaxEntries /\ ~P(f[j], j)
    BY <2>1
  <2>3. CASE j \notin present
    <3>1. f[j] = <<>>
      BY <1>1, <2>2, <2>3
    <3>2. <<>> \in Seq(Ids) /\ Range(<<>>) = {} /\ Ascending(<<>>) /\ Len(<<>>) = 0
      BY DEF Range, Ascending
    <3>3. P(<<>>, j)
      BY <2>3, <3>2
    <3> QED BY <2>2, <3>1, <3>3
  <2>4. CASE j \in present
    <3> DEFINE h == t[j].parent
               s == f[h]
               u == Append(s, j)
    <3>1. h \in 0..(j - 1) /\ h \in 0..MaxEntries /\ j \in Ids /\ j \in Nat
      <4>1. h \in 0..(j - 1) /\ j \in Ids /\ j \in 0..MaxEntries /\ MaxEntries \in Nat
        BY <1>1, <2>2, <2>4
      <4> HIDE DEF h
      <4> QED BY <4>1
    <3>2. h \notin U
      <4>1. \A k \in U : j <= k
        BY <2>1
      <4> HIDE DEF h, U
      <4> QED BY <3>1, <4>1
    <3>3. P(s, h)
      BY <3>1, <3>2
    <3>4. f[j] = u
      BY <1>1, <2>2, <2>4
    <3> HIDE DEF s
    <3>5. u \in Seq(Ids) /\ Range(u) = Range(s) \cup {j}
      BY <3>1, <3>3, RangeAppended
    <3>6. \A k \in Range(s) : k \in Ids /\ k <= h /\ k <= j - 1
      <4>1. \A k \in Range(s) : k \in Ids /\ k <= h
        BY <3>3
      <4> QED BY <3>1, <4>1, LineNumbers
    <3>7. Ascending(u)
      <4>1. Below(s, j - 1)
        BY <3>3, <3>6 DEF Below, Range
      <4>2. j - 1 \in Nat /\ (j - 1) + 1 = j
        BY <3>1
      <4> DEFINE m == j - 1
      <4>3. s \in Seq(Ids) /\ Ascending(s) /\ m \in Nat /\ Below(s, m) /\ m + 1 \in Ids
        BY <3>1, <3>3, <4>1, <4>2
      <4> HIDE DEF m
      <4>4. Ascending(Append(s, m + 1))
        BY <4>3, EntryBehind
      <4> QED BY <4>2, <4>4 DEF m
    <3>8. \A k \in Range(u) : k <= j
      <4>1. \A k \in Range(s) : k \in Nat /\ k <= j - 1
        BY <3>6, LineNumbers
      <4> HIDE DEF u, h, P, U
      <4> QED BY <3>1, <3>5, <4>1
    <3>9. ASSUME NEW k \in Range(u)
          PROVE  t[k].parent \in {0} \cup Range(u) \/ t[k].parent \notin present
      <4>1. CASE k = j
        BY <3>3, <3>5, <4>1
      <4>2. CASE k \in Range(s)
        BY <3>3, <3>5, <4>2
      <4> QED BY <3>5, <4>1, <4>2
    <3>10. Range(u) \subseteq present
      BY <2>4, <3>3, <3>5
    <3>11. Len(s) \in Nat /\ Len(u) = Len(s) + 1 /\ u[Len(s) + 1] = j /\ \A k \in 1..Len(s) : u[k] = s[k]
      BY <3>3
    <3>12. u[Len(u)] = j
      BY <3>11
    <3>13. ASSUME NEW k \in 2..Len(u)
           PROVE  t[u[k]].parent = u[k - 1]
      <4>1. CASE k = Len(s) + 1
        <5>1. Len(s) \in 1..Len(s) /\ k - 1 = Len(s) /\ s # <<>>
          BY <3>3, <3>11, <4>1
        <5>2. u[k] = j /\ u[k - 1] = s[Len(s)] /\ s[Len(s)] = h
          BY <3>3, <3>11, <4>1, <5>1
        <5> QED BY <5>2
      <4>2. CASE k # Len(s) + 1
        <5>1. k \in 2..Len(s) /\ k \in 1..Len(s) /\ k - 1 \in 1..Len(s)
          BY <3>11, <4>2
        <5>2. u[k] = s[k] /\ u[k - 1] = s[k - 1]
          BY <3>11, <5>1
        <5> QED BY <3>3, <5>1, <5>2
      <4> QED BY <4>1, <4>2
    <3> HIDE DEF u
    <3>14. P(u, j)
      BY <3>5, <3>7, <3>8, <3>9, <3>10, <3>12, <3>13
    <3> QED BY <2>2, <3>4, <3>14
  <2> QED BY <2>3, <2>4
<1>3. P(f[i], i)
  BY <1>2
<1> HIDE DEF f
<1> QED BY <1>1, <1>3

\* Entries are numbers.
LEMMA IntSequence ==
    ASSUME NEW q \in Seq(Ids)
    PROVE  q \in Seq(Int)
<1>1. \A i \in 1..Len(q) : q[i] \in Int
  BY LineNumbers
<1> QED BY <1>1

\* A row of entries, each the parent of the next, whose first one's parent is missing, is the
\* branch of its last.
LEMMA RowIsBranch ==
    ASSUME NEW t \in Tables, NEW es \in Seq(Ids), Ascending(es), Below(es, Len(t)),
           \A k \in 2..Len(es) : t[es[k]].parent = es[k - 1]
    PROVE  BranchOf(t, Range(es), IF es = <<>> THEN 0 ELSE es[Len(es)]) = es
<1> DEFINE E == Range(es)
           n == Len(es)
           f == PathTo(t, E)
           last == IF es = <<>> THEN 0 ELSE es[n]
<1>1. /\ n \in Nat /\ E = {es[k] : k \in 1..n} /\ (\A k \in 1..n : es[k] \in Ids /\ es[k] <= Len(t))
      /\ MaxEntries \in Nat /\ Ids = 1..MaxEntries
  BY SessionLogAssumption DEF Below, Range, Ids
<1>2. E \in SUBSET Ids /\ \A j \in E : j <= Len(t)
  BY <1>1
<1>3. /\ f \in [0..MaxEntries -> Seq(Ids)]
      /\ \A j \in 0..MaxEntries : f[j] = IF j \notin E THEN <<>> ELSE Append(f[t[j].parent], j)
      /\ \A j \in E : t[j].parent \in 0..(j - 1) /\ j \in 0..MaxEntries
      /\ BranchOf(t, E, last) = f[last]
  <2> HIDE DEF E, last
  <2> QED BY <1>2, BranchExists
<1> DEFINE A == {k \in Nat : k + 1 <= n => Range(f[es[k + 1]]) = {es[j] : j \in 1..(k + 1)}}
<1> HIDE DEF f, E
<1>4. 0 \in A
  <2> SUFFICES ASSUME 1 <= n
               PROVE  Range(f[es[1]]) = {es[j] : j \in 1..1}
    BY <1>1
  <2> DEFINE e == es[1]
             h == t[e].parent
  <2>1. e \in E /\ e \in 0..MaxEntries /\ e \in Ids /\ h \in 0..(e - 1) /\ h \in 0..MaxEntries
    <3>1. 1 \in 1..n
      BY <1>1
    <3>2. e \in E /\ e \in Ids /\ h \in 0..(e - 1)
      BY <1>1, <1>3, <3>1
    <3> QED BY <1>1, <3>2
  <2>2. h \notin E
    <3> SUFFICES ASSUME h \in E PROVE FALSE
      OBVIOUS
    <3>1. PICK k \in 1..n : h = es[k]
      BY <1>1
    <3>2. k = 1 \/ es[1] < es[k]
      BY <1>1, <3>1 DEF Ascending
    <3>3. e \in Nat
      BY <2>1, LineNumbers
    <3> HIDE DEF h
    <3>4. h < e
      <4> HIDE DEF e
      <4> QED BY <2>1, <3>3
    <3>5. h = e \/ e < h
      BY <3>1, <3>2
    <3> HIDE DEF e
    <3> QED BY <2>1, <3>3, <3>4, <3>5
  <2>3. f[h] = <<>> /\ f[e] = Append(f[h], e)
    BY <1>3, <2>1, <2>2
  <2>4. <<>> \in Seq(Ids) /\ Range(<<>>) = {}
    BY DEF Range
  <2>5. Range(f[e]) = {e}
    <3> HIDE DEF e
    <3>1. Range(Append(<<>>, e)) = Range(<<>>) \cup {e}
      <4> DEFINE z == <<>>
      <4>1. z \in Seq(Ids) /\ e \in Ids
        BY <2>1, <2>4
      <4> HIDE DEF z
      <4>2. Range(Append(z, e)) = Range(z) \cup {e}
        BY <4>1, RangeAppended
      <4> QED BY <4>2 DEF z
    <3> HIDE DEF h
    <3> QED BY <2>3, <2>4, <3>1
  <2>6. {es[j] : j \in 1..1} = {e}
    OBVIOUS
  <2> QED BY <2>5, <2>6
<1>5. ASSUME NEW k \in A
      PROVE  k + 1 \in A
  <2> SUFFICES ASSUME k + 2 <= n
               PROVE  Range(f[es[k + 2]]) = {es[j] : j \in 1..(k + 2)}
    BY <1>1
  <2> DEFINE e == es[k + 2]
             h == es[k + 1]
  <2>1. k \in Nat /\ k + 2 \in 2..n /\ k + 2 \in 1..n /\ k + 1 \in 1..n /\ (k + 2) - 1 = k + 1 /\ k + 1 <= n
    BY <1>1
  <2>2. e \in E /\ e \in Ids /\ e \in 0..MaxEntries /\ h \in 0..MaxEntries
    <3>1. e \in E /\ e \in Ids /\ h \in Ids
      BY <1>1, <2>1
    <3> QED BY <1>1, <3>1
  <2>3. t[e].parent = h
    BY <2>1
  <2>4. f[e] = Append(f[h], e) /\ f[h] \in Seq(Ids)
    BY <1>3, <2>2, <2>3
  <2>5. Range(f[h]) = {es[j] : j \in 1..(k + 1)}
    BY <2>1
  <2>6. Range(f[e]) = Range(f[h]) \cup {e}
    BY <2>2, <2>4, RangeAppended
  <2>7. 1..(k + 2) = 1..(k + 1) \cup {k + 2}
    BY <2>1
  <2>8. {es[j] : j \in 1..(k + 2)} = {es[j] : j \in 1..(k + 1)} \cup {e}
    BY <2>7
  <2> QED BY <2>5, <2>6, <2>8
<1>6. A = Nat
  <2> HIDE DEF A
  <2> QED BY <1>4, <1>5, Induct DEF A
<1>7. CASE es = <<>>
  <2>1. last = 0 /\ E = {} /\ 0 \in 0..MaxEntries
    BY <1>1, <1>7
  <2>2. f[0] = <<>>
    BY <1>3, <2>1
  <2> QED BY <1>3, <1>7, <2>1, <2>2 DEF E
<1>8. CASE es # <<>>
  <2>1. n - 1 \in Nat /\ (n - 1) + 1 = n /\ n \in 1..n /\ last = es[n]
    BY <1>1, <1>8
  <2>2. Range(f[last]) = {es[j] : j \in 1..n}
    <3>1. n - 1 \in A
      BY <1>6, <2>1
    <3>2. Range(f[es[(n - 1) + 1]]) = {es[j] : j \in 1..((n - 1) + 1)}
      BY <2>1, <3>1
    <3> QED BY <2>1, <3>2
  <2>3. last \in 0..MaxEntries
    BY <1>1, <2>1
  <2> DEFINE b == BranchOf(t, E, last)
  <2>4. b \in Seq(Ids) /\ Ascending(b)
    <3> HIDE DEF last
    <3> QED BY <1>2, <2>3, BranchIs
  <2>5. Range(b) = Range(es)
    BY <1>1, <1>3, <2>2 DEF E
  <2> HIDE DEF b
  <2>6. b \in Seq(Int) /\ es \in Seq(Int)
    <3>1. \A q \in Seq(Ids) : q \in Seq(Int)
      BY IntSequence
    <3> QED BY <2>4, <3>1
  <2>7. b = es
    BY <2>4, <2>5, <2>6, OneAscending
  <2> QED BY <2>7 DEF b, E
<1> QED BY <1>7, <1>8

-----------------------------------------------------------------------------
(* The steps.                                                              *)

\* The invariant, spelled out.
LEMMA InvFacts ==
    ASSUME LogInv
    PROVE  /\ Types /\ FilesClean /\ table \in Tables /\ Len(table) \in Nat /\ Len(table) <= MaxEntries
           /\ file \in Path /\ flushed \in BOOLEAN /\ up \in BOOLEAN
           /\ Memory(entries, leaf, labels, Len(table))
           /\ entries \in Seq(Ids) /\ Below(entries, Len(table)) /\ Ascending(entries)
           /\ leaf \in {0} \cup Range(entries)
           /\ labels \in Seq(Ids) /\ Below(labels, Len(table)) /\ IsInjective(labels)
           /\ \A i \in Range(entries) : i \in Ids /\ i <= Len(table) /\ i # 0
           /\ DOMAIN disk \subseteq Path /\ (\A p \in DOMAIN disk : FileShape(disk[p], Len(table)))
           /\ hurt \subseteq Path /\ faults \in 0..MaxFaults
           /\ up => Own(table, disk, hurt, file, entries, labels, flushed)
<1>1. /\ Types /\ FilesClean /\ table \in Tables /\ Len(table) \in Nat /\ Len(table) <= MaxEntries
      /\ file \in Path /\ flushed \in BOOLEAN /\ up \in BOOLEAN
      /\ Memory(entries, leaf, labels, Len(table))
      /\ entries \in Seq(Ids) /\ Below(entries, Len(table)) /\ Ascending(entries)
      /\ leaf \in {0} \cup Range(entries)
      /\ labels \in Seq(Ids) /\ Below(labels, Len(table)) /\ IsInjective(labels)
      /\ DOMAIN disk \subseteq Path /\ (\A p \in DOMAIN disk : FileShape(disk[p], Len(table)))
      /\ hurt \subseteq Path /\ faults \in 0..MaxFaults
      /\ up => Own(table, disk, hurt, file, entries, labels, flushed)
  BY DEF LogInv, Types, Memory, Tables, FileOfSession
<1>2. \A i \in Range(entries) : i \in Ids /\ i <= Len(table)
  BY <1>1, RangeBelow
<1> QED BY <1>1, <1>2, LineNumbers

\* appendMessage and the other appends: a new leaf below the old one.
LEMMA AppendEntryStep ==
    ASSUME LogInv, AppendEntry
    PROVE  LogInv'
<1>1. PICK kind \in Kinds, ref \in 0..MaxEntries :
          /\ IF kind = "compaction" THEN ref \in Range(Branch(Range(entries), leaf)) ELSE ref = 0
          /\ NewEntry(kind, leaf, ref, FALSE)
          /\ Persisted(New, labels)
  BY DEF AppendEntry
<1> DEFINE e == [kind |-> kind, parent |-> leaf, ref |-> ref, set |-> FALSE]
<1>2. up /\ New <= MaxEntries /\ table' = Append(table, e)
  BY <1>1 DEF NewEntry
<1>3. leaf \in {0} \cup Range(entries) /\ leaf \in 0..MaxEntries
  BY InvFacts, SessionLogAssumption DEF Ids
<1>4. kind # "label" /\ kind \in Kinds \cup {"label", "summary"}
  BY SessionLogAssumption
<1>5. e \in Entry /\ e.kind # "label" /\ e.parent = leaf /\ e.ref = ref
  BY <1>3, <1>4 DEF Entry
<1>6. ref <= Len(table)
  <2>1. CASE kind = "compaction"
    <3> DEFINE present == Range(entries)
    <3>1. table \in Tables /\ present \in SUBSET Ids /\ \A i \in present : i <= Len(table)
      BY InvFacts
    <3>2. Range(Branch(present, leaf)) \subseteq present
      <4> HIDE DEF present
      <4>1. Range(BranchOf(table, present, leaf)) \subseteq present
        BY <1>3, <3>1, BranchIs
      <4> QED BY <4>1, BranchOfTable
    <3> QED BY <1>1, <2>1, <3>1, <3>2
  <2>2. CASE kind # "compaction"
    BY <1>1, <2>2, InvFacts
  <2> QED BY <2>1, <2>2
<1> HIDE DEF e
<1>7. labels = IF e.kind = "label" THEN WithLabel(labels, e.ref, e.set) ELSE labels
  BY <1>5
<1> QED BY <1>1, <1>2, <1>3, <1>5, <1>6, <1>7, PersistedKeeps

\* appendLabelChange: a label entry, of an entry that is there.
LEMMA AppendLabelChangeStep ==
    ASSUME LogInv, AppendLabelChange
    PROVE  LogInv'
<1>1. PICK target \in Range(entries), set \in BOOLEAN :
          NewEntry("label", leaf, target, set) /\ Persisted(New, WithLabel(labels, target, set))
  BY DEF AppendLabelChange
<1> DEFINE e == [kind |-> "label", parent |-> leaf, ref |-> target, set |-> set]
           ls == WithLabel(labels, target, set)
<1>2. up /\ New <= MaxEntries /\ table' = Append(table, e)
  BY <1>1 DEF NewEntry
<1>3. leaf \in {0} \cup Range(entries) /\ leaf \in 0..MaxEntries
  BY InvFacts, SessionLogAssumption DEF Ids
<1>4. target \in 0..MaxEntries /\ target <= Len(table) /\ target # 0
  BY InvFacts, SessionLogAssumption DEF Ids
<1>5. e \in Entry /\ e.kind = "label" /\ e.parent = leaf /\ e.ref = target /\ e.set = set
  BY <1>3, <1>4 DEF Entry
<1> HIDE DEF e
<1>6. ls = IF e.kind = "label" THEN WithLabel(labels, e.ref, e.set) ELSE labels
  BY <1>5
<1> HIDE DEF ls
<1>7. Persisted(New, ls)
  BY <1>1 DEF ls
<1> QED BY <1>2, <1>3, <1>4, <1>5, <1>6, <1>7, PersistedKeeps

\* branchWithSummary: an entry below any other.
LEMMA BranchWithSummaryStep ==
    ASSUME LogInv, BranchWithSummary
    PROVE  LogInv'
<1>1. PICK from \in Range(entries) \cup {0} : NewEntry("summary", from, 0, FALSE) /\ Persisted(New, labels)
  BY DEF BranchWithSummary
<1> DEFINE e == [kind |-> "summary", parent |-> from, ref |-> 0, set |-> FALSE]
<1>2. up /\ New <= MaxEntries /\ table' = Append(table, e)
  BY <1>1 DEF NewEntry
<1>3. from \in 0..MaxEntries /\ 0 \in 0..MaxEntries /\ 0 <= Len(table)
  BY InvFacts, SessionLogAssumption DEF Ids
<1>4. e \in Entry /\ e.kind # "label" /\ e.parent = from /\ e.ref = 0
  BY <1>3 DEF Entry
<1> HIDE DEF e
<1>5. labels = IF e.kind = "label" THEN WithLabel(labels, e.ref, e.set) ELSE labels
  BY <1>4
<1> QED BY <1>1, <1>2, <1>3, <1>4, <1>5, PersistedKeeps

\* branch and resetLeaf: nothing is written.
LEMMA MoveLeafStep ==
    ASSUME LogInv, MoveLeaf
    PROVE  LogInv'
<1>1. /\ leaf' \in {0} \cup Range(entries) /\ table' = table /\ disk' = disk /\ up' = up /\ file' = file
      /\ entries' = entries /\ labels' = labels /\ flushed' = flushed /\ hurt' = hurt /\ faults' = faults
  BY DEF MoveLeaf
<1>2. Types'
  BY <1>1 DEF LogInv, Types, Memory
<1>3. FilesClean' /\ FileOfSession'
  BY <1>1 DEF LogInv, FilesClean, FileOfSession
<1> QED BY <1>2, <1>3 DEF LogInv

\* A session without entries.
LEMMA NothingYet ==
    ASSUME table \in Tables
    PROVE  /\ \A n \in Nat : Memory(<<>>, 0, <<>>, n)
           /\ ResolvedOf(table, <<>>) = <<>> /\ Closed(table, Range(<<>>)) /\ Range(<<>>) = {}
           /\ Grown(table, table)
<1>1. <<>> \in Seq(Ids) /\ Ascending(<<>>) /\ IsInjective(<<>>) /\ Range(<<>>) = {} /\ Len(<<>>) = 0
  BY DEF Ascending, IsInjective, Range
<1>2. \A n : Below(<<>>, n)
  BY DEF Below
<1>3. ResolvedOf(table, <<>>) = <<>>
  BY <1>1, <1>2, ResolvedExists
<1>4. Grown(table, table)
  BY DEF Grown, Tables
<1> QED BY <1>1, <1>2, <1>3, <1>4 DEF Memory, Closed

\* The process ends between two writes; memory is gone and the files stay.
LEMMA CrashStep ==
    ASSUME LogInv, Crash
    PROVE  LogInv'
<1>1. /\ up' = FALSE /\ Hold(file, <<>>, 0, <<>>, FALSE) /\ table' = table /\ disk' = disk /\ hurt' = hurt
      /\ faults' = faults
  BY DEF Crash
<1>2. /\ Types /\ FilesClean /\ table \in Tables /\ Len(table) \in Nat /\ file \in Path /\ hurt \subseteq Path
      /\ faults \in 0..MaxFaults
  BY InvFacts
<1>3. Memory(<<>>, 0, <<>>, Len(table)) /\ Grown(table, table)
  BY <1>2, NothingYet
<1> QED BY <1>1, <1>2, <1>3, LogInvAfter

\* newSession: no entries, and a file that no session has.
LEMMA NewSessionStep ==
    ASSUME LogInv, NEW p \in Path, NewSession(p)
    PROVE  LogInv'
<1>1. /\ up' = TRUE /\ Hold(p, <<>>, 0, <<>>, FALSE) /\ table' = table /\ disk' = disk /\ hurt' = hurt
      /\ faults' = faults /\ p \notin DOMAIN disk
  BY DEF NewSession, NoWrite, Fresh
<1>2. /\ Types /\ FilesClean /\ table \in Tables /\ Len(table) \in Nat /\ hurt \subseteq Path
      /\ faults \in 0..MaxFaults
  BY InvFacts
<1>3. /\ Memory(<<>>, 0, <<>>, Len(table)) /\ Grown(table, table)
      /\ ResolvedOf(table, <<>>) = <<>> /\ Closed(table, Range(<<>>)) /\ Range(<<>>) = {}
  BY <1>2, NothingYet
<1>4. Own(table', disk', hurt', p, <<>>, <<>>, FALSE)
  BY <1>1, <1>3 DEF Own
<1> QED BY <1>1, <1>2, <1>3, <1>4, LogInvAfter

\* The session in a file.
LEMMA LoadedSession ==
    ASSUME table \in Tables, NEW f, FileShape(f, Len(table)), Load(f) # <<>>
    PROVE  LET es == Tail(Load(f)) IN
           /\ Memory(es, IF es = <<>> THEN 0 ELSE Last(es), Resolved(es), Len(table))
           /\ Resolved(es) = ResolvedOf(table, es)
           /\ es \in Seq(Ids) /\ Ascending(es) /\ Below(es, Len(table))
           /\ Load(f) = FirstLines(es) /\ Range(f.lines) \subseteq {Header, Junk} \cup Range(es)
           /\ Clean(table, f) => f = Written(FirstLines(es)) /\ Closed(table, Range(es))
<1> DEFINE n == Len(table)
           s == Load(f)
           es == Tail(s)
           lf == IF es = <<>> THEN 0 ELSE Last(es)
           ls == Resolved(es)
<1>1. n \in Nat
  BY DEF Tables
<1>2. /\ s \in Seq(Parsed) /\ Ascending(s) /\ Below(s, n) /\ s # <<>> /\ s[1] = Header
      /\ Range(s) = Range(f.lines) \ {Junk}
  BY <1>1, LoadIs
<1>3. /\ es \in Seq(Ids) /\ Ascending(es) /\ Below(es, n) /\ s = FirstLines(es)
      /\ Range(s) = {Header} \cup Range(es)
  <2> HIDE DEF s, n
  <2> QED BY <1>1, <1>2, HeaderOff
<1> HIDE DEF es
<1>4. ls = ResolvedOf(table, es) /\ ls \in Seq(Ids) /\ Below(ls, n) /\ IsInjective(ls)
  <2>1. ls = ResolvedOf(table, es)
    BY ResolvedIs
  <2>2. LET ks == ResolvedOf(table, es) IN ks \in Seq(Ids) /\ Below(ks, n) /\ IsInjective(ks)
    BY <1>3, ResolvedTyped
  <2> QED BY <2>1, <2>2
<1>5. lf \in {0} \cup Range(es)
  <2>1. es # <<>> => Last(es) = es[Len(es)] /\ Len(es) \in DOMAIN es
    BY <1>3 DEF Last
  <2> QED BY <2>1 DEF Range
<1>6. Memory(es, lf, ls, n)
  BY <1>3, <1>4, <1>5 DEF Memory
<1>7. Range(f.lines) \subseteq {Header, Junk} \cup Range(es)
  BY <1>2, <1>3
<1>8. ASSUME Clean(table, f)
      PROVE  f = Written(FirstLines(es)) /\ Closed(table, Range(es))
  <2>1. f.tail = "closed" /\ Junk \notin Range(f.lines) /\ Closed(table, Range(f.lines) \ {Header})
    BY <1>8 DEF Clean
  <2>2. f.lines \in Seq(Line) /\ AscendingIn(f.lines, Parsed) /\ f = [lines |-> f.lines, tail |-> f.tail]
    BY DEF FileShape, File
  <2>3. Range(f.lines) = Range(s) /\ Header \notin Range(es)
    <3>1. Range(es) \subseteq Ids
      BY <1>3 DEF Range
    <3> QED BY <1>2, <2>1, <3>1, LineNumbers
  <2>4. f.lines \in Seq(Int) /\ s \in Seq(Int)
    <3>1. \A i \in 1..Len(f.lines) : f.lines[i] \in Int
      BY <2>2, LineNumbers
    <3>2. \A i \in 1..Len(s) : s[i] \in Int
      BY <1>2, LineNumbers
    <3> DEFINE a == f.lines
    <3>3. a \in Seq(Line) /\ \A i \in 1..Len(a) : a[i] \in Int
      BY <2>2, <3>1
    <3> HIDE DEF a, s
    <3>4. a \in Seq(Int)
      BY <3>3
    <3>5. s \in Seq(Int)
      BY <1>2, <3>2
    <3> QED BY <3>4, <3>5 DEF a
  <2>5. Ascending(f.lines)
    <3> DEFINE a == f.lines
    <3>1. \A i \in 1..Len(a) : a[i] \in Parsed
      <4>1. \A i \in 1..Len(a) : a[i] \in Line /\ a[i] \in Range(a)
        BY <2>2 DEF Range
      <4> QED BY <2>1, <4>1 DEF Parsed
    <3> QED BY <2>2, <3>1 DEF Ascending, AscendingIn
  <2>6. f.lines = s
    <3> DEFINE a == f.lines
    <3> HIDE DEF a, s
    <3>1. a = s
      BY <1>2, <2>3, <2>4, <2>5, OneAscending DEF a
    <3> QED BY <3>1 DEF a
  <2>7. Range(f.lines) \ {Header} = Range(es)
    BY <1>3, <2>3
  <2> QED BY <1>3, <2>1, <2>2, <2>6, <2>7 DEF Written
<1> QED BY <1>3, <1>4, <1>6, <1>7, <1>8 DEF es

\* Opening a file: what parses of it is the session, and a file that is not one is begun
\* anew.
LEMMA OpenStep ==
    ASSUME LogInv, NEW p \in Path, Open(p)
    PROVE  LogInv'
<1>1. /\ Types /\ FilesClean /\ table \in Tables /\ Len(table) \in Nat /\ hurt \subseteq Path
      /\ faults \in 0..MaxFaults /\ (\A q \in DOMAIN disk : FileShape(disk[q], Len(table)))
  BY InvFacts
<1>2. /\ Memory(<<>>, 0, <<>>, Len(table)) /\ Grown(table, table)
      /\ ResolvedOf(table, <<>>) = <<>> /\ Closed(table, Range(<<>>)) /\ Range(<<>>) = {}
  BY <1>1, NothingYet
<1>3. p \in DOMAIN disk /\ up' = TRUE /\ table' = table /\ faults' = faults
  BY DEF Open
<1>4. CASE Load(disk[p]) # <<>>
  <2> DEFINE es == Tail(Load(disk[p]))
             lf == IF es = <<>> THEN 0 ELSE Last(es)
             ls == Resolved(es)
  <2>1. disk' = disk /\ hurt' = hurt /\ Hold(p, es, lf, ls, TRUE)
    BY <1>4 DEF Open, Opened
  <2>2. /\ Memory(es, lf, ls, Len(table)) /\ ls = ResolvedOf(table, es)
        /\ Range(disk[p].lines) \subseteq {Header, Junk} \cup Range(es)
        /\ Clean(table, disk[p]) => disk[p] = Written(FirstLines(es)) /\ Closed(table, Range(es))
    BY <1>1, <1>3, <1>4, LoadedSession
  <2> HIDE DEF es, lf, ls
  <2>3. p \notin hurt => Clean(table, disk[p])
    BY <1>1, <1>3 DEF FilesClean
  <2>4. Own(table', disk', hurt', p, es, ls, TRUE)
    BY <1>3, <2>1, <2>2, <2>3 DEF Own
  <2> QED BY <1>1, <1>2, <1>3, <2>1, <2>2, <2>4, LogInvAfter
<1>5. CASE Load(disk[p]) = <<>>
  <2> DEFINE f == Written(<<Header>>)
  <2>1. disk' = SetFile(p, f) /\ hurt' = hurt \ {p} /\ Hold(p, <<>>, 0, Resolved(<<>>), TRUE)
    BY <1>5 DEF Open, Opened
  <2>2. Resolved(<<>>) = <<>>
    BY <1>2, ResolvedIs
  <2>3. f = Written(FirstLines(<<>>)) /\ f.lines = <<Header>> /\ Range(<<Header>>) = {Header}
    BY DEF FirstLines, Written, Range
  <2>4. FileShape(f, Len(table)) /\ Clean(table, f)
    <3> DEFINE es == <<>>
    <3>1. es \in Seq(Ids) /\ Ascending(es) /\ Below(es, Len(table)) /\ Closed(table, Range(es))
      BY <1>2 DEF Memory
    <3> HIDE DEF es
    <3>2. FileShape(Written(FirstLines(es)), Len(table)) /\ Clean(table, Written(FirstLines(es)))
      BY <1>1, <3>1, FirstWrite
    <3> QED BY <2>3, <3>2 DEF es
  <2> HIDE DEF f
  <2>5. Wrote(p, f)
    BY <1>1, <1>3, <2>1, <2>4 DEF Wrote
  <2>6. disk'[p] = f /\ p \in DOMAIN disk'
    BY <2>1 DEF SetFile
  <2>7. Own(table', disk', hurt', p, <<>>, <<>>, TRUE)
    BY <1>2, <1>3, <2>3, <2>6 DEF Own
  <2> QED BY <1>1, <1>2, <1>3, <2>1, <2>2, <2>5, <2>7, LogInvAfter
<1> QED BY <1>4, <1>5

\* forkFrom: a copy of what parses, as damaged as its source.
LEMMA ForkFromStep ==
    ASSUME LogInv, NEW source \in Path, NEW p \in Path, ForkFrom(source, p)
    PROVE  LogInv'
<1> DEFINE f == disk[source]
           lines == Load(f)
           es == Tail(lines)
           lf == IF es = <<>> THEN 0 ELSE Last(es)
           ls == Resolved(es)
<1>1. /\ Types /\ FilesClean /\ table \in Tables /\ Len(table) \in Nat /\ hurt \subseteq Path /\ file \in Path
      /\ faults \in 0..MaxFaults /\ (\A q \in DOMAIN disk : FileShape(disk[q], Len(table)))
      /\ flushed \in BOOLEAN /\ Memory(entries, leaf, labels, Len(table))
      /\ up => Own(table, disk, hurt, file, entries, labels, flushed)
  BY InvFacts
<1>2. Memory(<<>>, 0, <<>>, Len(table)) /\ Grown(table, table)
  BY <1>1, NothingYet
<1>3. /\ source \in DOMAIN disk /\ lines # <<>> /\ p \notin DOMAIN disk /\ (up => p # file) /\ table' = table
      /\ \/ WriteSucceeds(source, p, Written(lines)) /\ Hold(p, es, lf, ls, TRUE)
         \/ WriteFails(p, CutWrites(lines)) /\ UNCHANGED memory /\ up
         \/ KilledInWrite(source, p, CutWrites(lines)) /\ Hold(p, <<>>, 0, <<>>, FALSE)
  BY DEF ForkFrom, Fresh, Opened
<1>4. /\ Memory(es, lf, ls, Len(table)) /\ ls = ResolvedOf(table, es)
      /\ es \in Seq(Ids) /\ Ascending(es) /\ Below(es, Len(table)) /\ lines = FirstLines(es)
      /\ Clean(table, f) => Closed(table, Range(es))
  BY <1>1, <1>3, LoadedSession
<1> HIDE DEF lines, es, lf, ls
<1>5. /\ FileShape(Written(lines), Len(table)) /\ Range(lines) = {Header} \cup Range(es)
      /\ Closed(table, Range(es)) => Clean(table, Written(lines))
      /\ \A g \in CutWrites(lines) :
            /\ FileShape(g, Len(table)) /\ Range(g.lines) \subseteq {Header, Junk} \cup Range(es)
            /\ g.tail = "closed" /\ Closed(table, Range(es)) => Clean(table, g)
  BY <1>1, <1>4, FirstWrite
<1>6. source \notin hurt => Closed(table, Range(es))
  BY <1>1, <1>3, <1>4 DEF FilesClean
<1>7. CASE WriteSucceeds(source, p, Written(lines)) /\ Hold(p, es, lf, ls, TRUE)
  <2>1. Wrote(p, Written(lines)) /\ up' = TRUE /\ hurt' = Heirs(source, p) /\ faults' \in 0..MaxFaults
    BY <1>1, <1>3, <1>5, <1>6, <1>7, SuccessWrote
  <2>2. disk'[p] = Written(lines) /\ p \in DOMAIN disk' /\ Written(lines).lines = lines
    BY <2>1 DEF Wrote, SetFile, Written
  <2>3. p \notin hurt' => source \notin hurt
    BY <2>1 DEF Heirs
  <2>4. Own(table', disk', hurt', p, es, ls, TRUE)
    BY <1>3, <1>4, <1>5, <1>6, <2>2, <2>3 DEF Own
  <2> QED BY <1>1, <1>2, <1>3, <1>4, <1>7, <2>1, <2>4, LogInvAfter
<1>8. CASE WriteFails(p, CutWrites(lines)) /\ UNCHANGED memory /\ up
  <2>1. /\ \E g \in CutWrites(lines) : Wrote(p, g)
        /\ up' = TRUE /\ p \in hurt' /\ hurt \subseteq hurt' /\ faults' \in 0..MaxFaults
    BY <1>1, <1>3, <1>5, <1>8, FailureWrote
  <2>2. PICK g \in CutWrites(lines) : Wrote(p, g)
    BY <2>1
  <2>3. Hold(file, entries, leaf, labels, flushed)
    BY <1>8, <2>1 DEF Hold, memory
  <2>4. DOMAIN disk' = DOMAIN disk \cup {p} /\ p # file /\ (file \in DOMAIN disk => disk'[file] = disk[file])
    BY <1>3, <1>8, <2>2 DEF Wrote, SetFile
  <2>5. Own(table', disk', hurt', file, entries, labels, flushed)
    BY <1>1, <1>3, <1>8, <2>1, <2>4 DEF Own
  <2> QED BY <1>1, <1>2, <1>3, <2>1, <2>2, <2>3, <2>5, LogInvAfter
<1>9. CASE KilledInWrite(source, p, CutWrites(lines)) /\ Hold(p, <<>>, 0, <<>>, FALSE)
  <2>1. (\E g \in CutWrites(lines) : Wrote(p, g)) /\ up' = FALSE /\ faults' \in 0..MaxFaults
    BY <1>1, <1>3, <1>5, <1>6, <1>9, DeathWrote
  <2> QED BY <1>1, <1>2, <1>3, <1>9, <2>1, LogInvAfter
<1> QED BY <1>3, <1>7, <1>8, <1>9

-----------------------------------------------------------------------------
(* createBranchedSession.                                                  *)

\* The labels of a path without labels and a label entry for each of the targets behind it.
LabelsBehind(t, targets, a, es) ==
    /\ t \in Tables /\ targets \in Seq(Ids) /\ IsInjective(targets) /\ a \in Nat
    /\ es \in Seq(Ids) /\ Below(es, Len(t)) /\ Len(es) = a + Len(targets)
    /\ \A j \in 1..a : t[es[j]].kind # "label"
    /\ \A k \in 1..Len(targets) : /\ t[es[a + k]].kind = "label" /\ t[es[a + k]].ref = targets[k]
                                   /\ t[es[a + k]].set = TRUE

\* The labels of these entries are the targets.
LEMMA ChainResolved ==
    ASSUME NEW t, NEW targets, NEW a, NEW es, LabelsBehind(t, targets, a, es)
    PROVE  ResolvedOf(t, es) = targets
<1>0. /\ t \in Tables /\ targets \in Seq(Ids) /\ IsInjective(targets) /\ a \in Nat
      /\ es \in Seq(Ids) /\ Below(es, Len(t)) /\ Len(es) = a + Len(targets)
      /\ \A j \in 1..a : t[es[j]].kind # "label"
      /\ \A k \in 1..Len(targets) : /\ t[es[a + k]].kind = "label" /\ t[es[a + k]].ref = targets[k]
                                     /\ t[es[a + k]].set = TRUE
  BY DEF LabelsBehind
<1> USE <1>0
<1> DEFINE f == SeenOf(t, es)
           m == Len(targets)
           begin(k) == SubSeq(targets, 1, k)
           A == {k \in Nat : k <= a => f[k] = <<>>}
           B == {k \in Nat : k <= m => f[a + k] = begin(k)}
<1>1. m \in Nat /\ Len(es) = a + m /\ \A k \in 1..m : targets[k] \in Ids
  OBVIOUS
<1>2. /\ f[0] = <<>> /\ ResolvedOf(t, es) = f[a + m]
      /\ \A j \in 1..(a + m) : f[j] = IF t[es[j]].kind = "label" THEN WithLabel(f[j - 1], t[es[j]].ref, t[es[j]].set)
                                      ELSE f[j - 1]
  <2>1. /\ f[0] = <<>> /\ ResolvedOf(t, es) = f[Len(es)]
        /\ \A j \in 1..Len(es) : f[j] = IF t[es[j]].kind = "label" THEN WithLabel(f[j - 1], t[es[j]].ref, t[es[j]].set)
                                        ELSE f[j - 1]
    BY ResolvedExists
  <2> HIDE DEF f, m
  <2> QED BY <1>1, <2>1
<1> HIDE DEF f
<1>3. ASSUME NEW k \in A
      PROVE  k + 1 \in A
  <2> SUFFICES ASSUME k + 1 <= a PROVE f[k + 1] = <<>>
    OBVIOUS
  <2>1. k + 1 \in 1..a /\ k + 1 \in 1..(a + m) /\ (k + 1) - 1 = k /\ f[k] = <<>>
    BY <1>1
  <2> QED BY <1>2, <2>1
<1>4. A = Nat
  <2>1. 0 \in A
    BY <1>2
  <2> HIDE DEF A
  <2> QED BY <1>3, <2>1, Induct DEF A
<1>5. \A k \in 0..m : begin(k) \in Seq(Ids) /\ Len(begin(k)) = k /\ \A j \in 1..k : begin(k)[j] = targets[j]
  <2> TAKE k \in 0..m
  <2>1. \A i \in 1..k : targets[i] \in Ids
    BY <1>1
  <2>2. begin(k) \in Seq(Ids) /\ Len(begin(k)) = IF 1 <= k THEN k - 1 + 1 ELSE 0
    BY <1>1, <2>1, SubSeqProperties
  <2>3. \A i \in 1..(k - 1 + 1) : begin(k)[i] = targets[1 + i - 1]
    BY <1>1, <2>1, SubSeqProperties
  <2> HIDE DEF begin
  <2> QED BY <1>1, <2>2, <2>3
<1>6. 0 \in B
  <2>1. f[a] = <<>>
    <3>1. a \in A
      BY <1>4
    <3> QED BY <3>1
  <2>2. begin(0) = <<>>
    <3>1. begin(0) \in Seq(Ids) /\ Len(begin(0)) = 0
      BY <1>1, <1>5
    <3> HIDE DEF begin
    <3> QED BY <3>1
  <2> HIDE DEF begin
  <2>3. f[a + 0] = begin(0)
    BY <2>1, <2>2
  <2> QED BY <2>3
<1>7. ASSUME NEW k \in B
      PROVE  k + 1 \in B
  <2> SUFFICES ASSUME k + 1 <= m PROVE f[a + (k + 1)] = begin(k + 1)
    OBVIOUS
  <2> DEFINE b == begin(k)
             c == begin(k + 1)
             x == targets[k + 1]
  <2>1. /\ k \in Nat /\ k \in 0..m /\ k + 1 \in 0..m /\ k + 1 \in 1..m /\ a + (k + 1) \in 1..(a + m)
        /\ (a + (k + 1)) - 1 = a + k
    BY <1>1
  <2>2. f[a + k] = b
    BY <2>1
  <2>3. /\ b \in Seq(Ids) /\ Len(b) = k /\ (\A j \in 1..k : b[j] = targets[j])
        /\ c \in Seq(Ids) /\ Len(c) = k + 1 /\ (\A j \in 1..(k + 1) : c[j] = targets[j])
    BY <1>5, <2>1
  <2>4. f[a + (k + 1)] = WithLabel(b, x, TRUE)
    <3>1. /\ t[es[a + (k + 1)]].kind = "label" /\ t[es[a + (k + 1)]].ref = x
          /\ t[es[a + (k + 1)]].set = TRUE
      BY <2>1
    <3> HIDE DEF b, x
    <3> QED BY <1>2, <2>1, <2>2, <3>1
  <2> HIDE DEF b, c
  <2>5. x \notin Range(b)
    <3> SUFFICES ASSUME x \in Range(b) PROVE FALSE
      OBVIOUS
    <3>1. PICK j \in 1..k : b[j] = x
      BY <2>3 DEF Range
    <3>2. targets[j] = targets[k + 1] /\ j \in 1..m /\ j # k + 1
      BY <1>1, <2>1, <2>3, <3>1
    <3> QED BY <2>1, <3>2 DEF IsInjective
  <2>6. WithLabel(b, x, TRUE) = Append(b, x)
    BY <2>5 DEF WithLabel
  <2>7. Append(b, x) = c
    <3>1. Append(b, x) \in Seq(Ids) /\ Len(Append(b, x)) = k + 1
      BY <1>1, <2>1, <2>3
    <3> DEFINE d == Append(b, x)
    <3>2. d[k + 1] = x /\ \A j \in 1..k : d[j] = b[j]
      BY <1>1, <2>1, <2>3
    <3>3. c[k + 1] = x /\ \A j \in 1..k : c[j] = b[j]
      <4>1. k + 1 \in 1..(k + 1) /\ \A j \in 1..k : j \in 1..(k + 1)
        BY <2>1
      <4> HIDE DEF d
      <4> QED BY <2>3, <4>1
    <3> HIDE DEF d, x
    <3>4. \A j \in 1..(k + 1) : d[j] = c[j]
      <4> TAKE j \in 1..(k + 1)
      <4>1. j = k + 1 \/ j \in 1..k
        BY <2>1
      <4> QED BY <3>2, <3>3, <4>1
    <3>5. d = c
      BY <2>1, <2>3, <3>1, <3>4 DEF d
    <3> QED BY <3>5 DEF d
  <2> QED BY <2>4, <2>6, <2>7 DEF c
<1>8. B = Nat
  <2> HIDE DEF B
  <2> QED BY <1>6, <1>7, Induct DEF B
<1>9. f[a + m] = begin(m)
  <2>1. \A k \in Nat : k <= m => f[a + k] = begin(k)
    BY <1>8
  <2> HIDE DEF B, begin
  <2> QED BY <1>1, <2>1
<1>10. begin(m) = targets
  <2> DEFINE c == begin(m)
  <2>1. c \in Seq(Ids) /\ Len(c) = m /\ \A j \in 1..m : c[j] = targets[j]
    BY <1>1, <1>5
  <2> HIDE DEF c
  <2>2. c = targets
    BY <1>1, <2>1
  <2> QED BY <2>2 DEF c
<1> QED BY <1>2, <1>9, <1>10

\* What is behind a sequence.
LEMMA BehindIs ==
    ASSUME NEW S, NEW a \in Seq(S), NEW b \in Seq(S), NEW k \in 1..Len(b)
    PROVE  (a \o b)[Len(a) + k] = b[k]
<1> DEFINE i == Len(a) + k
<1>1. Len(a) \in Nat /\ Len(b) \in Nat /\ i \in 1..(Len(a) + Len(b)) /\ i > Len(a) /\ i - Len(a) = k
  OBVIOUS
<1>2. (a \o b)[i] = IF i <= Len(a) THEN a[i] ELSE b[i - Len(a)]
  <2> HIDE DEF i
  <2> QED BY <1>1, ConcatProperties
<1> HIDE DEF i
<1>3. (a \o b)[i] = b[k]
  BY <1>1, <1>2
<1> QED BY <1>3 DEF i

\* The table with a chain of label entries.
ChainFits(path, targets, u) ==
    /\ table \in Tables /\ path \in Seq(Ids) /\ Below(path, Len(table))
    /\ targets \in Seq(Ids) /\ Below(targets, Len(table)) /\ Len(table) + Len(targets) <= MaxEntries
    /\ u = table \o LabelChain(path, targets)
\* What it then holds: the first n as before, and behind them the chain.
Chained(path, targets, u) ==
    /\ u \in Tables /\ Grown(table, u) /\ Len(u) = Len(table) + Len(targets)
    /\ \A k \in 1..Len(targets) :
          /\ u[Len(table) + k].kind = "label" /\ u[Len(table) + k].ref = targets[k]
          /\ u[Len(table) + k].set = TRUE
          /\ u[Len(table) + k].parent = IF k = 1 THEN (IF path = <<>> THEN 0 ELSE Last(path))
                                        ELSE Len(table) + k - 1

\* The chain joins the table, each entry of it below the one in front.
LEMMA ChainJoins ==
    ASSUME NEW path, NEW targets, NEW u, ChainFits(path, targets, u)
    PROVE  Chained(path, targets, u)
<1> DEFINE n == Len(table)
           m == Len(targets)
           chain == LabelChain(path, targets)
           start == IF path = <<>> THEN 0 ELSE Last(path)
           link(k) == [kind |-> "label", ref |-> targets[k], set |-> TRUE,
                       parent |-> IF k = 1 THEN start ELSE n + k - 1]
<1>0. /\ table \in Tables /\ path \in Seq(Ids) /\ Below(path, Len(table))
      /\ targets \in Seq(Ids) /\ Below(targets, Len(table)) /\ Len(table) + Len(targets) <= MaxEntries
      /\ u = table \o LabelChain(path, targets)
  BY DEF ChainFits
<1> USE <1>0
<1>1. /\ table \in Seq(Entry) /\ n \in Nat /\ m \in Nat /\ n + m <= MaxEntries /\ MaxEntries \in Nat
      /\ \A j \in 1..n : Refers(table, j)
  BY SessionLogAssumption DEF Tables
<1>2. start \in 0..n
  <2>1. CASE path = <<>>
    BY <1>1, <2>1
  <2>2. CASE path # <<>>
    <3>1. Last(path) = path[Len(path)] /\ Len(path) \in 1..Len(path) /\ path[Len(path)] \in Ids
      BY <2>2 DEF Last
    <3>2. path[Len(path)] <= n
      BY <3>1 DEF Below
    <3> QED BY <1>1, <2>2, <3>1, <3>2, LineNumbers
  <2> QED BY <2>1, <2>2
<1>3. \A k \in 1..m : targets[k] \in Ids /\ targets[k] \in Nat \ {0} /\ targets[k] <= n
  <2>1. \A k \in 1..m : targets[k] \in Ids /\ targets[k] <= n
    BY DEF Below
  <2> QED BY <2>1, LineNumbers
<1>4. DOMAIN chain = 1..m /\ \A k \in 1..m : chain[k] = link(k)
  <2>1. chain = [k \in DOMAIN targets |-> link(k)] /\ DOMAIN targets = 1..m
    BY DEF LabelChain
  <2> HIDE DEF link, chain
  <2> QED BY <2>1
<1> HIDE DEF start
<1>5. \A k \in 1..m : /\ link(k) \in Entry /\ link(k).kind = "label" /\ link(k).ref = targets[k]
                      /\ link(k).set = TRUE /\ link(k).parent = (IF k = 1 THEN start ELSE n + k - 1)
                      /\ link(k).parent < n + k
  <2> TAKE k \in 1..m
  <2> DEFINE h == IF k = 1 THEN start ELSE n + k - 1
             e == [kind |-> "label", ref |-> targets[k], set |-> TRUE, parent |-> h]
  <2>1. h \in 0..MaxEntries /\ h < n + k
    BY <1>1, <1>2
  <2>2. targets[k] \in 0..MaxEntries
    BY <1>1, <1>3
  <2> HIDE DEF h
  <2>3. e \in Entry /\ e.kind = "label" /\ e.ref = targets[k] /\ e.set = TRUE /\ e.parent = h
    BY <2>1, <2>2 DEF Entry
  <2>4. link(k) = e
    BY DEF h
  <2> HIDE DEF e, link
  <2> QED BY <2>1, <2>3, <2>4 DEF h
<1> HIDE DEF link
<1>6. chain \in Seq(Entry) /\ Len(chain) = m
  <2> HIDE DEF chain, m
  <2>1. chain = [k \in 1..m |-> chain[k]] /\ \A k \in 1..m : chain[k] \in Entry
    <3>1. \A k \in 1..m : chain[k] \in Entry
      BY <1>4, <1>5
    <3>2. chain = [k \in DOMAIN targets |-> link(k)]
      BY DEF chain, LabelChain, link, start
    <3>3. chain = [k \in DOMAIN chain |-> chain[k]]
      BY <3>2
    <3> QED BY <1>4, <3>1, <3>3
  <2> QED BY <1>1, <2>1
<1> HIDE DEF chain
<1>7. u = table \o chain
  BY DEF chain
<1>8. /\ u \in Seq(Entry) /\ Len(u) = n + m /\ (\A j \in 1..n : u[j] = table[j])
      /\ \A k \in 1..m : u[n + k] = chain[k]
  <2> HIDE DEF m
  <2>1. table \in Seq(Entry) /\ chain \in Seq(Entry) /\ Len(chain) = m /\ n \in Nat /\ m \in Nat
    BY <1>1, <1>6
  <2>2. u \in Seq(Entry) /\ Len(u) = n + m
    BY <1>7, <2>1, ConcatProperties
  <2>3. ASSUME NEW j \in 1..n
        PROVE  u[j] = table[j]
    BY <1>7, <2>1
  <2>4. ASSUME NEW k \in 1..m
        PROVE  u[n + k] = chain[k]
    BY <1>7, <2>1, BehindIs
  <2> QED BY <2>2, <2>3, <2>4
<1>9. ASSUME NEW j \in 1..(n + m)
      PROVE  Refers(u, j)
  <2>1. CASE j <= n
    <3>1. j \in 1..n
      BY <1>1, <2>1
    <3> QED BY <1>1, <1>8, <3>1 DEF Refers
  <2>2. CASE j > n
    <3> DEFINE k == j - n
    <3>1. k \in 1..m /\ j = n + k
      BY <1>1, <2>2
    <3>2. u[j] = link(k) /\ targets[k] < j /\ targets[k] # 0
      BY <1>1, <1>3, <1>4, <1>8, <3>1
    <3>3. link(k).parent < j /\ link(k).ref = targets[k]
      BY <1>5, <3>1
    <3> QED BY <3>2, <3>3 DEF Refers
  <2> QED BY <1>1, <2>1, <2>2
<1>10. u \in Tables /\ Grown(table, u)
  BY <1>1, <1>8, <1>9 DEF Tables, Grown
<1> QED BY <1>4, <1>5, <1>8, <1>10 DEF start, Chained

\* Its entries behind a path.
TailFits(path, n, m, es) ==
    /\ path \in Seq(Ids) /\ Ascending(path) /\ n \in Nat /\ Below(path, n) /\ m \in Nat /\ n + m <= MaxEntries
    /\ es = path \o [k \in 1..m |-> n + k]

\* Path and chain ascend together, for the chain is newer than the path.
LEMMA ChainBehind ==
    ASSUME NEW path, NEW n, NEW m, NEW es, TailFits(path, n, m, es)
    PROVE  /\ es \in Seq(Ids) /\ Ascending(es) /\ Below(es, n + m) /\ Len(es) = Len(path) + m
           /\ (\A j \in 1..Len(path) : es[j] = path[j]) /\ (\A k \in 1..m : es[Len(path) + k] = n + k)
           /\ Range(es) = Range(path) \cup {n + k : k \in 1..m}
<1> DEFINE a == Len(path)
           c == [k \in 1..m |-> n + k]
<1>0. /\ path \in Seq(Ids) /\ Ascending(path) /\ n \in Nat /\ Below(path, n) /\ m \in Nat /\ n + m <= MaxEntries
      /\ es = path \o [k \in 1..m |-> n + k]
  BY DEF TailFits
<1> USE <1>0
<1>1. a \in Nat /\ \A j \in 1..a : path[j] \in Ids /\ path[j] \in Nat /\ path[j] <= n
  <2>1. a \in Nat /\ \A j \in 1..a : path[j] \in Ids /\ path[j] <= n
    BY DEF Below
  <2> QED BY <2>1, LineNumbers
<1>2. c \in Seq(Ids) /\ Len(c) = m /\ \A k \in 1..m : c[k] = n + k
  <2>1. \A k \in 1..m : n + k \in Ids
    BY SessionLogAssumption DEF Ids
  <2> QED BY <2>1
<1> HIDE DEF c
<1>3. es = path \o c
  BY DEF c
<1>4. /\ es \in Seq(Ids) /\ Len(es) = a + m /\ DOMAIN es = 1..(a + m)
      /\ (\A j \in 1..a : es[j] = path[j]) /\ (\A k \in 1..m : es[a + k] = n + k)
  <2>1. es \in Seq(Ids) /\ Len(es) = a + m /\ DOMAIN es = 1..(a + m)
    <3> DEFINE d == path \o c
    <3>1. d \in Seq(Ids) /\ Len(d) = a + m
      BY <1>2, ConcatProperties
    <3> HIDE DEF d
    <3>2. d \in Seq(Ids) /\ Len(d) = a + m /\ DOMAIN d = 1..(a + m)
      BY <3>1
    <3> QED BY <1>3, <3>2 DEF d
  <2>2. (\A j \in 1..a : es[j] = path[j]) /\ (\A k \in 1..m : es[a + k] = c[k])
    <3>1. ASSUME NEW j \in 1..a
          PROVE  es[j] = path[j]
      BY <1>2, <1>3
    <3>2. ASSUME NEW k \in 1..m
          PROVE  es[a + k] = c[k]
      BY <1>2, <1>3, BehindIs
    <3> QED BY <3>1, <3>2
  <2> QED BY <1>2, <2>1, <2>2
<1>5. \A j \in 1..(a + m) : j \in 1..a \/ (j - a \in 1..m /\ es[j] = n + (j - a))
  <2> TAKE j \in 1..(a + m)
  <2>1. CASE j <= a
    BY <1>1, <2>1
  <2>2. CASE j > a
    <3>1. j - a \in 1..m /\ a + (j - a) = j
      BY <1>1, <2>2
    <3> QED BY <1>4, <3>1
  <2> QED BY <1>1, <2>1, <2>2
<1>6. Range(es) = Range(path) \cup {n + k : k \in 1..m}
  <2>1. Range(path) = {path[j] : j \in 1..a}
    BY DEF Range
  <2>2. Range(es) = {es[j] : j \in 1..(a + m)}
    BY <1>4 DEF Range
  <2>3. \A j \in 1..a : j \in 1..(a + m)
    BY <1>1
  <2>4. \A k \in 1..m : a + k \in 1..(a + m)
    BY <1>1
  <2> HIDE DEF a
  <2>5. ASSUME NEW x \in Range(es)
        PROVE  x \in Range(path) \cup {n + k : k \in 1..m}
    <3>1. PICK j \in 1..(a + m) : x = es[j]
      BY <2>2
    <3>2. CASE j \in 1..a
      BY <1>4, <2>1, <3>1, <3>2
    <3>3. CASE j - a \in 1..m /\ es[j] = n + (j - a)
      BY <3>1, <3>3
    <3> QED BY <1>5, <3>2, <3>3
  <2>6. ASSUME NEW x \in Range(path) \cup {n + k : k \in 1..m}
        PROVE  x \in Range(es)
    BY <1>4, <2>1, <2>2, <2>3, <2>4, <2>6
  <2> QED BY <2>5, <2>6
<1>7. Below(es, n + m)
  <2>1. \A j \in 1..(a + m) : es[j] <= n + m
    BY <1>1, <1>4, <1>5
  <2> QED BY <1>4, <2>1 DEF Below
<1>8. Ascending(es)
  <2>1. \A j, k \in 1..a : j < k => path[j] < path[k]
    BY DEF Ascending
  <2>2. ASSUME NEW j \in 1..(a + m), NEW k \in 1..(a + m), j < k
        PROVE  es[j] < es[k]
    <3>1. CASE k \in 1..a
      <4>1. j \in 1..a
        BY <1>1, <2>2, <3>1
      <4> QED BY <1>4, <2>1, <2>2, <3>1, <4>1
    <3>2. CASE k \notin 1..a
      <4>1. k - a \in 1..m /\ es[k] = n + (k - a)
        BY <1>5, <3>2
      <4>2. CASE j \in 1..a
        BY <1>1, <1>4, <4>1, <4>2
      <4>3. CASE j \notin 1..a
        <5>1. j - a \in 1..m /\ es[j] = n + (j - a)
          BY <1>5, <4>3
        <5> QED BY <1>1, <2>2, <4>1, <5>1
      <4> QED BY <4>2, <4>3
    <3> QED BY <3>1, <3>2
  <2> QED BY <1>4, <2>2 DEF Ascending
<1> QED BY <1>4, <1>6, <1>7, <1>8

\* Belonging to a range that is bounded.
LEMMA RangeBounds ==
    ASSUME NEW s \in Seq(Ids), NEW n, \A x \in Range(s) : x <= n
    PROVE  Below(s, n)
BY DEF Below, Range

\* The parts of a branched session: the path without its labels, the labels of its entries,
\* and the path with a new entry for each of those.
BranchPath(i) == Kept(Branch(Range(entries), i), {j \in Range(entries) : ~IsLabel(j)})
BranchLabels(i) == Kept(labels, Range(BranchPath(i)))
BranchEntries(i) == BranchPath(i) \o [k \in DOMAIN BranchLabels(i) |-> Len(table) + k]

\* What they are, and what becomes of the table.
LEMMA BranchedIs ==
    ASSUME LogInv, NEW i \in Range(entries), NEW p \in Path, CreateBranchedSession(i, p)
    PROVE  LET n == Len(table)
               present == Range(entries)
               branch == Branch(present, i)
               S == {j \in present : ~IsLabel(j)}
               path == BranchPath(i)
               targets == BranchLabels(i)
               m == Len(targets)
               es == BranchEntries(i)
           IN
           /\ branch \in Seq(Ids) /\ Range(branch) \subseteq present /\ Ascending(branch)
           /\ i \in Range(branch) /\ branch # <<>> /\ branch[Len(branch)] = i
           /\ \A k \in Range(branch) : table[k].parent \in {0} \cup Range(branch) \/ table[k].parent \notin present
           /\ \A k \in 2..Len(branch) : table[branch[k]].parent = branch[k - 1]
           /\ path \in Seq(Ids) /\ Range(path) = Range(branch) \cap S /\ Ascending(path) /\ Below(path, n)
           /\ targets \in Seq(Ids) /\ Below(targets, n) /\ IsInjective(targets)
           /\ Range(targets) = Range(labels) \cap Range(path)
           /\ n + m <= MaxEntries /\ table' \in Tables /\ Grown(table, table') /\ Len(table') = n + m
           /\ \A k \in 1..m :
                 /\ table'[n + k].kind = "label" /\ table'[n + k].ref = targets[k] /\ table'[n + k].set = TRUE
                 /\ table'[n + k].parent = IF k = 1 THEN (IF path = <<>> THEN 0 ELSE Last(path)) ELSE n + k - 1
           /\ es \in Seq(Ids) /\ Ascending(es) /\ Below(es, n + m) /\ Len(es) = Len(path) + m
           /\ (\A j \in 1..Len(path) : es[j] = path[j]) /\ (\A k \in 1..m : es[Len(path) + k] = n + k)
           /\ Range(es) = Range(path) \cup {n + k : k \in 1..m}
<1> DEFINE n == Len(table)
           present == Range(entries)
           branch == Branch(present, i)
           S == {j \in present : ~IsLabel(j)}
           path == BranchPath(i)
           targets == BranchLabels(i)
           m == Len(targets)
           es == BranchEntries(i)
<1>1. /\ Types /\ FilesClean /\ table \in Tables /\ n \in Nat /\ n <= MaxEntries /\ file \in Path
      /\ flushed \in BOOLEAN /\ hurt \subseteq Path /\ faults \in 0..MaxFaults
      /\ labels \in Seq(Ids) /\ IsInjective(labels)
      /\ present \in SUBSET Ids /\ \A j \in present : j \in Ids /\ j <= n
  BY InvFacts
<1>2. up /\ p \notin DOMAIN disk /\ p # file /\ n + m <= MaxEntries /\ table' = table \o LabelChain(path, targets)
  BY DEF CreateBranchedSession, Fresh, BranchPath, BranchLabels
<1>3. /\ branch \in Seq(Ids) /\ Range(branch) \subseteq present /\ Ascending(branch)
      /\ i \in Range(branch) /\ branch # <<>> /\ branch[Len(branch)] = i
      /\ \A k \in Range(branch) : table[k].parent \in {0} \cup Range(branch) \/ table[k].parent \notin present
      /\ \A k \in 2..Len(branch) : table[branch[k]].parent = branch[k - 1]
  <2>1. i \in 0..MaxEntries
    BY <1>1, SessionLogAssumption DEF Ids
  <2> HIDE DEF present, branch
  <2>2. branch = BranchOf(table, present, i)
    BY BranchOfTable DEF branch
  <2> DEFINE b == BranchOf(table, present, i)
  <2>3. /\ branch \in Seq(Ids) /\ Range(branch) \subseteq present /\ Ascending(branch)
        /\ i \in present => i \in Range(branch)
        /\ branch # <<>> => branch[Len(branch)] = i
        /\ \A k \in Range(branch) : table[k].parent \in {0} \cup Range(branch) \/ table[k].parent \notin present
        /\ \A k \in 2..Len(branch) : table[branch[k]].parent = branch[k - 1]
    <3>1. /\ b \in Seq(Ids) /\ Range(b) \subseteq present /\ Ascending(b)
          /\ i \in present => i \in Range(b)
          /\ b # <<>> => b[Len(b)] = i
          /\ \A k \in Range(b) : table[k].parent \in {0} \cup Range(b) \/ table[k].parent \notin present
          /\ \A k \in 2..Len(b) : table[b[k]].parent = b[k - 1]
      BY <1>1, <2>1, BranchIs
    <3> HIDE DEF b
    <3>2. branch = b
      BY <2>2 DEF b
    <3> QED BY <3>1, <3>2
  <2>4. i \in present
    BY DEF present
  <2>5. branch # <<>>
    <3>1. Range(<<>>) = {}
      BY DEF Range
    <3> QED BY <2>3, <2>4, <3>1
  <2> QED BY <2>3, <2>4, <2>5
<1>4. path = Kept(branch, S) /\ targets = Kept(labels, Range(path)) /\ es = path \o [k \in DOMAIN targets |-> n + k]
  BY DEF BranchPath, BranchLabels, BranchEntries
<1> HIDE DEF branch, S, path, targets, es
<1>5. path \in Seq(Ids) /\ Range(path) = Range(branch) \cap S /\ Ascending(path) /\ Below(path, n)
  <2>1. path \in Seq(Ids) /\ Range(path) = Range(branch) \cap S
    BY <1>3, <1>4, KeptElements
  <2>2. branch \in Seq(Int) /\ AscendingIn(branch, S)
    <3>1. \A k \in 1..Len(branch) : branch[k] \in Int
      BY <1>3, LineNumbers
    <3> QED BY <1>3, <3>1 DEF Ascending, AscendingIn
  <2>3. Ascending(path)
    BY <1>4, <2>2, KeptAscends
  <2>4. Below(path, n)
    BY <1>1, <1>3, <2>1, RangeBounds
  <2> QED BY <2>1, <2>3, <2>4
<1>6. targets \in Seq(Ids) /\ Below(targets, n) /\ IsInjective(targets)
      /\ Range(targets) = Range(labels) \cap Range(path)
  <2>1. targets \in Seq(Ids) /\ Range(targets) = Range(labels) \cap Range(path)
    BY <1>1, <1>4, KeptElements
  <2>2. IsInjective(targets)
    BY <1>1, <1>4, KeptInjective
  <2>3. Below(targets, n)
    BY <1>1, <1>3, <1>5, <2>1, RangeBounds
  <2> QED BY <2>1, <2>2, <2>3
<1>7. m \in Nat /\ DOMAIN targets = 1..m
  BY <1>6
<1>8. /\ table' \in Tables /\ Grown(table, table') /\ Len(table') = n + m
       /\ \A k \in 1..m :
             /\ table'[n + k].kind = "label" /\ table'[n + k].ref = targets[k] /\ table'[n + k].set = TRUE
             /\ table'[n + k].parent = IF k = 1 THEN (IF path = <<>> THEN 0 ELSE Last(path)) ELSE n + k - 1
  <2> DEFINE u == table'
  <2>1. /\ table \in Tables /\ Below(path, Len(table)) /\ Below(targets, Len(table))
        /\ path \in Seq(Ids) /\ targets \in Seq(Ids)
        /\ Len(table) + Len(targets) <= MaxEntries /\ u = table \o LabelChain(path, targets)
    BY <1>1, <1>2, <1>5, <1>6
  <2> HIDE DEF u
  <2>2. /\ u \in Tables /\ Grown(table, u) /\ Len(u) = Len(table) + Len(targets)
        /\ \A k \in 1..Len(targets) :
              /\ u[Len(table) + k].kind = "label" /\ u[Len(table) + k].ref = targets[k]
              /\ u[Len(table) + k].set = TRUE
              /\ u[Len(table) + k].parent = IF k = 1 THEN (IF path = <<>> THEN 0 ELSE Last(path))
                                            ELSE Len(table) + k - 1
    <3>1. ChainFits(path, targets, u)
      BY <2>1 DEF ChainFits
    <3>2. Chained(path, targets, u)
      BY <3>1, ChainJoins
    <3> QED BY <3>2 DEF Chained
  <2> QED BY <2>2 DEF u
<1>9. /\ es \in Seq(Ids) /\ Ascending(es) /\ Below(es, n + m) /\ Len(es) = Len(path) + m
       /\ (\A j \in 1..Len(path) : es[j] = path[j]) /\ (\A k \in 1..m : es[Len(path) + k] = n + k)
       /\ Range(es) = Range(path) \cup {n + k : k \in 1..m}
  <2>1. es = path \o [k \in 1..m |-> n + k]
    BY <1>4, <1>7
  <2>2. /\ path \in Seq(Ids) /\ Ascending(path) /\ n \in Nat /\ Below(path, n) /\ m \in Nat
        /\ n + m <= MaxEntries
    BY <1>1, <1>2, <1>5, <1>7
  <2> HIDE DEF n, m
  <2>3. TailFits(path, n, m, es)
    BY <2>1, <2>2 DEF TailFits
  <2> QED BY <2>3, ChainBehind
<1> HIDE DEF n, m
<1> QED BY <1>2, <1>3, <1>5, <1>6, <1>8, <1>9 DEF present, n, m, branch, S, path, targets, es

\* createBranchedSession: the path without its labels, which join as a chain behind it.
LEMMA CreateBranchedSessionStep ==
    ASSUME LogInv, NEW i \in Range(entries), NEW p \in Path, CreateBranchedSession(i, p)
    PROVE  LogInv'
<1> DEFINE n == Len(table)
           present == Range(entries)
           branch == Branch(present, i)
           S == {j \in present : ~IsLabel(j)}
           path == BranchPath(i)
           targets == BranchLabels(i)
           m == Len(targets)
           es == BranchEntries(i)
           last == IF es = <<>> THEN 0 ELSE Last(es)
           all == FirstLines(es)
<1>1. /\ Types /\ FilesClean /\ table \in Tables /\ n \in Nat /\ n <= MaxEntries /\ file \in Path
      /\ flushed \in BOOLEAN /\ hurt \subseteq Path /\ faults \in 0..MaxFaults
      /\ labels \in Seq(Ids) /\ IsInjective(labels)
      /\ present \in SUBSET Ids /\ \A j \in present : j \in Ids /\ j <= n
  BY InvFacts
<1>2. up /\ p \notin DOMAIN disk /\ p # file /\ n + m <= MaxEntries /\ table' = table \o LabelChain(path, targets)
  BY DEF CreateBranchedSession, Fresh, BranchPath, BranchLabels
<1>3. Own(table, disk, hurt, file, entries, labels, flushed)
  BY <1>2, InvFacts
<1>4. IF HasAssistant(es)
      THEN \/ WriteSucceeds(file, p, Written(all)) /\ Hold(p, es, last, targets, TRUE)
           \/ WriteFails(p, CutWrites(all)) /\ Hold(p, es, last, targets, flushed)
           \/ KilledInWrite(file, p, CutWrites(all)) /\ Hold(p, es, last, targets, flushed)
      ELSE /\ up' = TRUE /\ hurt' = Heirs(file, p) /\ UNCHANGED <<disk, faults>>
           /\ Hold(p, es, last, targets, FALSE)
  BY DEF CreateBranchedSession, FirstLines, BranchPath, BranchLabels, BranchEntries
<1>5. /\ branch \in Seq(Ids) /\ Range(branch) \subseteq present
      /\ \A k \in Range(branch) : table[k].parent \in {0} \cup Range(branch) \/ table[k].parent \notin present
  BY BranchedIs
<1>6. S \subseteq present /\ (\A j \in S : table[j].kind # "label")
      /\ (\A j \in present : j \notin S => table[j].kind = "label")
  BY DEF IsLabel
<1>7. path \in Seq(Ids) /\ Range(path) = Range(branch) \cap S /\ Ascending(path) /\ Below(path, n)
  BY BranchedIs
<1>8. targets \in Seq(Ids) /\ Below(targets, n) /\ IsInjective(targets)
  BY BranchedIs
<1>9. m \in Nat /\ DOMAIN targets = 1..m
  BY <1>8
<1>10. /\ table' \in Tables /\ Grown(table, table') /\ Len(table') = n + m
       /\ \A k \in 1..m :
             /\ table'[n + k].kind = "label" /\ table'[n + k].ref = targets[k] /\ table'[n + k].set = TRUE
             /\ table'[n + k].parent = IF k = 1 THEN (IF path = <<>> THEN 0 ELSE Last(path)) ELSE n + k - 1
  BY BranchedIs
<1>11. /\ es \in Seq(Ids) /\ Ascending(es) /\ Below(es, n + m) /\ Len(es) = Len(path) + m
       /\ (\A j \in 1..Len(path) : es[j] = path[j]) /\ (\A k \in 1..m : es[Len(path) + k] = n + k)
       /\ Range(es) = Range(path) \cup {n + k : k \in 1..m}
  BY BranchedIs
<1> HIDE DEF branch, S, path, targets, es
<1>12. targets = ResolvedOf(table', es)
  <2> DEFINE a == Len(path)
  <2>1. a \in Nat /\ Below(es, Len(table')) /\ Len(es) = a + Len(targets)
    BY <1>7, <1>10, <1>11
  <2>2. \A j \in 1..a : table'[es[j]].kind # "label"
    <3> TAKE j \in 1..a
    <3>1. path[j] \in Range(path) /\ es[j] = path[j]
      BY <1>7, <1>11 DEF Range
    <3>2. path[j] \in S /\ path[j] \in Ids /\ path[j] <= n
      BY <1>1, <1>6, <1>7, <3>1
    <3>3. table'[path[j]] = table[path[j]]
      BY <1>1, <1>10, <3>2, EntryIs DEF Grown
    <3> QED BY <1>6, <3>1, <3>2, <3>3
  <2>3. \A k \in 1..Len(targets) : /\ table'[es[a + k]].kind = "label" /\ table'[es[a + k]].ref = targets[k]
                                   /\ table'[es[a + k]].set = TRUE
    <3> TAKE k \in 1..Len(targets)
    <3>1. es[a + k] = n + k
      BY <1>11
    <3>2. table'[n + k].kind = "label" /\ table'[n + k].ref = targets[k] /\ table'[n + k].set = TRUE
      BY <1>10
    <3> HIDE DEF n, a
    <3> QED BY <3>1, <3>2
  <2> DEFINE t == table'
  <2>4. /\ t \in Tables /\ targets \in Seq(Ids) /\ IsInjective(targets) /\ es \in Seq(Ids)
        /\ Below(es, Len(t)) /\ (\A j \in 1..a : t[es[j]].kind # "label")
        /\ \A k \in 1..Len(targets) : /\ t[es[a + k]].kind = "label" /\ t[es[a + k]].ref = targets[k]
                                       /\ t[es[a + k]].set = TRUE
    BY <1>8, <1>10, <1>11, <2>1, <2>2, <2>3
  <2> HIDE DEF a, t
  <2>5. ResolvedOf(t, es) = targets
    <3>1. LabelsBehind(t, targets, a, es)
      BY <2>1, <2>4 DEF LabelsBehind
    <3> QED BY <3>1, ChainResolved
  <2> QED BY <2>5 DEF t
<1>13. file \notin hurt => Closed(table', Range(es))
  <2> SUFFICES ASSUME file \notin hurt, NEW j \in Range(es)
               PROVE  table'[j].parent \in {0} \cup Range(es) \/ table'[table'[j].parent].kind = "label"
    BY DEF Closed
  <2>1. Closed(table, present)
    BY <1>3 DEF Own
  <2>2. CASE j \in Range(path)
    <3>1. j \in present /\ j \in Ids /\ j <= n /\ j \in Range(branch)
      BY <1>1, <1>5, <1>7, <2>2
    <3>2. j \in 1..n /\ table'[j] = table[j]
      BY <1>1, <1>10, <3>1, EntryIs DEF Grown
    <3> DEFINE h == table[j].parent
    <3>3. h = 0 \/ (h \in Ids /\ h <= n)
      BY <1>1, <3>1, EntryIs
    <3>4. h # 0 => table'[h] = table[h]
      BY <1>1, <1>10, <3>3, EntryIs DEF Grown
    <3>5. h \in {0} \cup Range(branch) \/ h \notin present
      BY <1>5, <3>1
    <3>6. h \in {0} \cup present \/ table[h].kind = "label"
      BY <2>1, <3>1 DEF Closed
    <3> HIDE DEF h
    <3>7. h = 0 \/ h \in Range(path) \/ table[h].kind = "label"
      BY <1>5, <1>6, <1>7, <3>5, <3>6
    <3>8. h \in {0} \cup Range(es) \/ table'[h].kind = "label"
      BY <1>11, <3>4, <3>7
    <3> QED BY <3>2, <3>8 DEF h
  <2>3. CASE j \notin Range(path)
    <3>1. PICK k \in 1..m : j = n + k
      BY <1>11, <2>3
    <3>2. table'[j].parent = IF k = 1 THEN (IF path = <<>> THEN 0 ELSE Last(path)) ELSE n + k - 1
      BY <1>10, <3>1
    <3>3. path # <<>> => Last(path) \in Range(path)
      BY <1>7 DEF Last, Range
    <3>4. k # 1 => n + k - 1 \in {n + l : l \in 1..m}
      <4> SUFFICES ASSUME k # 1 PROVE n + k - 1 \in {n + l : l \in 1..m}
        OBVIOUS
      <4>1. k - 1 \in 1..m /\ n + k - 1 = n + (k - 1)
        BY <1>1, <1>9, <3>1
      <4> QED BY <4>1
    <3> QED BY <1>11, <3>2, <3>3, <3>4
  <2> QED BY <2>2, <2>3
<1>14. Memory(es, last, targets, n + m)
  <2>1. es # <<>> => Last(es) = es[Len(es)] /\ Len(es) \in DOMAIN es
    BY <1>11 DEF Last
  <2>2. last \in {0} \cup Range(es)
    BY <2>1 DEF Range
  <2>3. Below(targets, n + m)
    BY <1>1, <1>8, <1>9, BelowGrown
  <2> QED BY <1>8, <1>11, <2>2, <2>3 DEF Memory
<1> HIDE DEF last
<1>15. /\ FileShape(Written(all), Len(table')) /\ Range(all) = {Header} \cup Range(es)
       /\ Closed(table', Range(es)) => Clean(table', Written(all))
       /\ \A g \in CutWrites(all) :
             /\ FileShape(g, Len(table')) /\ Range(g.lines) \subseteq {Header, Junk} \cup Range(es)
             /\ g.tail = "closed" /\ Closed(table', Range(es)) => Clean(table', g)
  BY <1>10, <1>11, FirstWrite
<1>16. HasAssistant(es) <=> \E j \in Range(es) : table'[j].kind = "assistant"
  BY DEF HasAssistant
<1> HIDE DEF n, m, all, present
<1>17. CASE HasAssistant(es) /\ WriteSucceeds(file, p, Written(all)) /\ Hold(p, es, last, targets, TRUE)
  <2>1. Wrote(p, Written(all)) /\ up' = TRUE /\ hurt' = Heirs(file, p) /\ faults' \in 0..MaxFaults
    BY <1>1, <1>13, <1>15, <1>17, SuccessWrote
  <2>2. disk'[p] = Written(all) /\ p \in DOMAIN disk' /\ Written(all).lines = all
    BY <2>1 DEF Wrote, SetFile, Written
  <2>3. p \notin hurt' => file \notin hurt
    BY <2>1 DEF Heirs
  <2>4. Own(table', disk', hurt', p, es, targets, TRUE)
    BY <1>12, <1>13, <1>15, <2>2, <2>3 DEF Own, all
  <2> QED BY <1>1, <1>10, <1>14, <1>17, <2>1, <2>4, LogInvAfter
<1>18. CASE HasAssistant(es) /\ WriteFails(p, CutWrites(all)) /\ Hold(p, es, last, targets, flushed)
  <2>1. /\ \E g \in CutWrites(all) : Wrote(p, g)
        /\ up' = TRUE /\ p \in hurt' /\ hurt \subseteq hurt' /\ faults' \in 0..MaxFaults
    BY <1>1, <1>15, <1>18, FailureWrote
  <2>2. PICK g \in CutWrites(all) : Wrote(p, g)
    BY <2>1
  <2>3. disk'[p] = g /\ p \in DOMAIN disk'
    BY <2>2 DEF Wrote, SetFile
  <2>4. Own(table', disk', hurt', p, es, targets, flushed)
    BY <1>15, <2>1, <2>3 DEF Own
  <2> QED BY <1>1, <1>10, <1>14, <1>18, <2>1, <2>2, <2>4, LogInvAfter
<1>19. CASE HasAssistant(es) /\ KilledInWrite(file, p, CutWrites(all)) /\ Hold(p, es, last, targets, flushed)
  <2>1. (\E g \in CutWrites(all) : Wrote(p, g)) /\ up' = FALSE /\ faults' \in 0..MaxFaults
    BY <1>1, <1>13, <1>15, <1>19, DeathWrote
  <2>2. up' \in BOOLEAN /\ ~up'
    BY <2>1
  <2> QED BY <1>1, <1>10, <1>14, <1>19, <2>1, <2>2, LogInvAfter
<1>20. CASE ~HasAssistant(es)
  <2>1. /\ up' = TRUE /\ hurt' = Heirs(file, p) /\ disk' = disk /\ faults' = faults
        /\ Hold(p, es, last, targets, FALSE)
    BY <1>4, <1>20
  <2>2. hurt \subseteq hurt' /\ hurt' \subseteq Path /\ (p \notin hurt' => file \notin hurt)
    BY <1>1, <2>1 DEF Heirs
  <2>3. Own(table', disk', hurt', p, es, targets, FALSE)
    BY <1>2, <1>12, <1>13, <1>16, <1>20, <2>1, <2>2 DEF Own
  <2> QED BY <1>1, <1>10, <1>14, <2>1, <2>2, <2>3, LogInvAfter
<1> QED BY <1>4, <1>17, <1>18, <1>19, <1>20

-----------------------------------------------------------------------------
(* The theorems.                                                           *)

\* The initial states satisfy the invariant.
LEMMA LogInvInit ==
    ASSUME Init
    PROVE  LogInv
<1>1. /\ table = <<>> /\ disk = <<>> /\ up = TRUE /\ file \in Path /\ entries = <<>> /\ leaf = 0
      /\ labels = <<>> /\ flushed = FALSE /\ hurt = {} /\ faults = 0
  BY DEF Init
<1>2. table \in Tables /\ Len(table) = 0 /\ DOMAIN disk = {} /\ faults \in 0..MaxFaults
  BY <1>1, SessionLogAssumption DEF Tables
<1>3. /\ Memory(<<>>, 0, <<>>, 0) /\ ResolvedOf(table, <<>>) = <<>> /\ Closed(table, Range(<<>>))
      /\ Range(<<>>) = {}
  BY <1>2, NothingYet
<1>4. Types
  BY <1>1, <1>2, <1>3 DEF Types
<1>5. FilesClean
  BY <1>2 DEF FilesClean
<1>6. FileOfSession
  BY <1>1, <1>2, <1>3 DEF FileOfSession, Own
<1> QED BY <1>4, <1>5, <1>6 DEF LogInv

\* Every action preserves the invariant.
LEMMA LogInvStep ==
    ASSUME LogInv, [Next]_vars
    PROVE  LogInv'
<1>1. CASE AppendEntry
  BY <1>1, AppendEntryStep
<1>2. CASE AppendLabelChange
  BY <1>2, AppendLabelChangeStep
<1>3. CASE BranchWithSummary
  BY <1>3, BranchWithSummaryStep
<1>4. CASE MoveLeaf
  BY <1>4, MoveLeafStep
<1>5. CASE Crash
  BY <1>5, CrashStep
<1>6. ASSUME NEW p \in Path, NewSession(p)
      PROVE  LogInv'
  BY <1>6, NewSessionStep
<1>7. ASSUME NEW p \in Path, Open(p)
      PROVE  LogInv'
  BY <1>7, OpenStep
<1>8. ASSUME NEW p \in Path, NEW source \in Path, ForkFrom(source, p)
      PROVE  LogInv'
  BY <1>8, ForkFromStep
<1>9. ASSUME NEW p \in Path, NEW i \in Range(entries), CreateBranchedSession(i, p)
      PROVE  LogInv'
  BY <1>9, CreateBranchedSessionStep
<1>10. CASE UNCHANGED vars
  <2>1. /\ table' = table /\ disk' = disk /\ up' = up /\ file' = file /\ entries' = entries /\ leaf' = leaf
        /\ labels' = labels /\ flushed' = flushed /\ hurt' = hurt /\ faults' = faults
    BY <1>10 DEF vars
  <2> QED BY <2>1 DEF LogInv, Types, FilesClean, FileOfSession
<1> QED BY <1>1, <1>2, <1>3, <1>4, <1>5, <1>6, <1>7, <1>8, <1>9, <1>10 DEF Next

\* The invariant holds.
LEMMA LogInvHolds == Spec => []LogInv
<1>1. Init => LogInv
  BY LogInvInit
<1>2. LogInv /\ [Next]_vars => LogInv'
  BY LogInvStep
<1> QED BY <1>1, <1>2, PTL DEF Spec

\* The variables have their types: for any number of files, entries and faults, and
\* whatever is written, fails and is torn, a leaf is an entry of the session or none, and
\* what a file or the memory holds are entries that were created.
THEOREM LogTypes == Spec => []TypeOK
<1>1. ASSUME LogInv
      PROVE  TypeOK
  <2>1. \A j \in DOMAIN table : table[j] \in Entry
    BY <1>1, InvFacts DEF Tables
  <2>2. \A p \in DOMAIN disk : disk[p] \in File
    BY <1>1, InvFacts DEF FileShape
  <2> QED BY <1>1, <2>1, <2>2, InvFacts DEF TypeOK, Entry
<1> QED BY <1>1, LogInvHolds, PTL

\* No entry of an undamaged session has lost an ancestor: across restarts, branches, forks
\* and new sessions, each entry of the session in memory has its parent in it, or a label
\* that was left out of a branched path.
THEOREM LogKeepsLineage == Spec => []LineageKept
<1>1. ASSUME LogInv
      PROVE  LineageKept
  <2> SUFFICES ASSUME up, file \notin hurt, NEW i \in Range(entries)
               PROVE  table[i].parent \in {0} \cup Range(entries) \/ IsLabel(table[i].parent)
    BY DEF LineageKept
  <2>1. Closed(table, Range(entries))
    BY <1>1, InvFacts DEF Own
  <2> QED BY <2>1 DEF Closed, IsLabel
<1> QED BY <1>1, LogInvHolds, PTL

\* A sequence that ascends has no element twice.
LEMMA AscendingInjective ==
    ASSUME NEW s \in Seq(Int), Ascending(s)
    PROVE  IsInjective(s)
<1>1. DOMAIN s = 1..Len(s) /\ Len(s) \in Nat /\ \A i \in 1..Len(s) : s[i] \in Int
  OBVIOUS
<1>2. ASSUME NEW i \in 1..Len(s), NEW j \in 1..Len(s), s[i] = s[j]
      PROVE  i = j
  <2>1. ~(i < j) /\ ~(j < i)
    BY <1>1, <1>2 DEF Ascending
  <2> QED BY <1>1, <2>1
<1> QED BY <1>1, <1>2 DEF IsInjective

\* What is kept of an ascending sequence by the elements of another one, all of it that one's.
LEMMA KeptOfAscending ==
    ASSUME NEW s \in Seq(Parsed), Ascending(s), NEW b \in Seq(Parsed), Ascending(b), NEW S,
           Range(b) = Range(s) \cap S
    PROVE  b = Kept(s, S)
<1> DEFINE c == Kept(s, S)
<1>1. c \in Seq(Parsed) /\ Range(c) = Range(s) \cap S
  BY KeptElements
<1>2. ASSUME NEW q \in Seq(Parsed)
      PROVE  q \in Seq(Int)
  <2>1. \A i \in 1..Len(q) : q[i] \in Int
    BY LineNumbers
  <2> QED BY <2>1
<1>3. Ascending(c)
  <2>1. s \in Seq(Int) /\ AscendingIn(s, S)
    BY <1>2 DEF Ascending, AscendingIn
  <2> QED BY <2>1, KeptAscends
<1> HIDE DEF c
<1>4. b = c
  BY <1>1, <1>2, <1>3, OneAscending
<1> QED BY <1>4 DEF c

\* What a process that opens the file would load is the session in memory, from the first
\* response on; whatever fails or is torn, a file holds no entry its session does not have,
\* none twice and none in another order.
THEOREM LogSavesAnswers == Spec => []AnsweredIsSaved
<1>1. ASSUME LogInv
      PROVE  AnsweredIsSaved
  <2> SUFFICES ASSUME up
               PROVE  LET session == FirstLines(entries)
                          saved == IF file \in DOMAIN disk THEN Load(disk[file]) ELSE <<>>
                      IN  /\ saved = Kept(session, Range(saved)) /\ IsInjective(entries)
                          /\ file \notin hurt =>
                                /\ IF flushed THEN saved = session
                                   ELSE ~Answered /\ file \notin DOMAIN disk
                                /\ labels = Resolved(entries)
    BY DEF AnsweredIsSaved, FirstLines
  <2> DEFINE n == Len(table)
             session == FirstLines(entries)
             saved == IF file \in DOMAIN disk THEN Load(disk[file]) ELSE <<>>
  <2>1. /\ n \in Nat /\ entries \in Seq(Ids) /\ Below(entries, n) /\ Ascending(entries)
        /\ (\A p \in DOMAIN disk : FileShape(disk[p], n))
        /\ Own(table, disk, hurt, file, entries, labels, flushed)
    BY <1>1, InvFacts
  <2>2. session \in Seq(Parsed) /\ Ascending(session) /\ Below(session, n)
        /\ Range(session) = {Header} \cup Range(entries) /\ session[1] = Header /\ Len(session) = Len(entries) + 1
    BY <2>1, HeaderFirst
  <2>3. /\ saved \in Seq(Parsed) /\ Ascending(saved)
        /\ Range(saved) \subseteq Range(session)
    <3>1. CASE file \in DOMAIN disk
      <4> DEFINE f == disk[file]
      <4>1. FileShape(f, n) /\ Range(f.lines) \subseteq {Header, Junk} \cup Range(entries)
        BY <2>1, <3>1 DEF Own
      <4> HIDE DEF f, n
      <4>2. Load(f) \in Seq(Parsed) /\ Ascending(Load(f)) /\ Range(Load(f)) \subseteq Range(f.lines) \ {Junk}
        BY <2>1, <4>1, LoadIs
      <4>3. Range(Load(f)) \subseteq Range(session)
        BY <2>2, <4>1, <4>2
      <4> QED BY <3>1, <4>2, <4>3 DEF f
    <3>2. CASE file \notin DOMAIN disk
      <4>1. <<>> \in Seq(Parsed) /\ Ascending(<<>>) /\ Range(<<>>) = {}
        BY DEF Ascending, Range
      <4> QED BY <3>2, <4>1
    <3> QED BY <3>1, <3>2
  <2>4. saved = Kept(session, Range(saved))
    <3> DEFINE S == Range(saved)
    <3>1. S = Range(session) \cap S
      BY <2>3
    <3> HIDE DEF saved, session
    <3> QED BY <2>2, <2>3, <3>1, KeptOfAscending DEF S
  <2>5. IsInjective(entries)
    <3>1. \A i \in 1..Len(entries) : entries[i] \in Int
      BY <2>1, LineNumbers
    <3>2. entries \in Seq(Int)
      BY <2>1, <3>1
    <3> QED BY <2>1, <3>2, AscendingInjective
  <2>6. ASSUME file \notin hurt
        PROVE  /\ IF flushed THEN saved = session ELSE ~Answered /\ file \notin DOMAIN disk
               /\ labels = Resolved(entries)
    <3>1. labels = Resolved(entries)
      BY <2>1, <2>6, ResolvedIs DEF Own
    <3>2. CASE ~flushed
      BY <2>1, <2>6, <3>1, <3>2 DEF Own, Answered
    <3>3. CASE flushed
      <4> DEFINE f == disk[file]
      <4>1. file \in DOMAIN disk /\ f = Written(session)
        BY <2>1, <2>6, <3>3 DEF Own
      <4>2. FileShape(f, n) /\ f.lines = session
        BY <2>1, <4>1 DEF Written
      <4> HIDE DEF f, n
      <4>3. Load(f) = IF Kept(f.lines, Parsed) # <<>> /\ Kept(f.lines, Parsed)[1] = Header
                      THEN Kept(f.lines, Parsed) ELSE <<>>
        BY <2>1, <4>2, LoadIs
      <4>4. session = Kept(session, Parsed)
        <5>1. Range(session) = Range(session) \cap Parsed
          BY <2>2 DEF Range
        <5> HIDE DEF session
        <5> QED BY <2>2, <5>1, KeptOfAscending
      <4>5. session # <<>>
        <5> HIDE DEF session
        <5>1. Len(session) # 0
          BY <2>1, <2>2
        <5> QED BY <5>1
      <4>6. Load(f) = session
        BY <2>2, <4>2, <4>3, <4>4, <4>5
      <4> QED BY <3>1, <3>3, <4>1, <4>6 DEF f
    <3> QED BY <3>2, <3>3
  <2> QED BY <2>4, <2>5, <2>6
<1> QED BY <1>1, LogInvHolds, PTL

-----------------------------------------------------------------------------
(* What a file had saved.                                                  *)

\* What a file had saved is a beginning of what it holds then, but for a last line that
\* lacks its newline.
Survives(f, g) == IsPrefix(IF f.tail = "open" THEN Front(Load(f)) ELSE Load(f), Load(g))

\* Beginnings: the first k elements, and those of a longer sequence.
LEMMA Firsts ==
    ASSUME NEW T, NEW s \in Seq(T), NEW k \in 0..Len(s)
    PROVE  SubSeq(s, 1, k) \in Seq(T) /\ Len(SubSeq(s, 1, k)) = k /\ \A i \in 1..k : SubSeq(s, 1, k)[i] = s[i]
<1> DEFINE u == SubSeq(s, 1, k)
<1>1. Len(s) \in Nat /\ k \in Nat /\ k <= Len(s) /\ \A i \in 1..k : s[i] \in T
  OBVIOUS
<1>2. u \in Seq(T) /\ Len(u) = IF 1 <= k THEN k - 1 + 1 ELSE 0
  BY <1>1, SubSeqProperties
<1>3. \A i \in 1..(k - 1 + 1) : u[i] = s[1 + i - 1]
  BY <1>1, SubSeqProperties
<1> HIDE DEF u
<1>4. u \in Seq(T) /\ Len(u) = k /\ \A i \in 1..k : u[i] = s[i]
  BY <1>1, <1>2, <1>3
<1> QED BY <1>4 DEF u

\* A sequence that begins with all of another one.
LEMMA SameBeginning ==
    ASSUME NEW T, NEW s \in Seq(T), NEW t \in Seq(T), Len(s) <= Len(t), \A i \in 1..Len(s) : t[i] = s[i]
    PROVE  IsPrefix(s, t)
<1> DEFINE k == Len(s)
           u == SubSeq(s, 1, k)
           v == SubSeq(t, 1, k)
<1>1. k \in Nat /\ Len(t) \in Nat /\ k \in 0..Len(s) /\ k \in 0..Len(t)
  OBVIOUS
<1>2. u \in Seq(T) /\ Len(u) = k /\ \A i \in 1..k : u[i] = s[i]
  BY <1>1, Firsts
<1>3. v \in Seq(T) /\ Len(v) = k /\ \A i \in 1..k : v[i] = t[i]
  <2> HIDE DEF k
  <2> QED BY <1>1, Firsts
<1> HIDE DEF u, v
<1>4. u = v
  BY <1>1, <1>2, <1>3
<1> QED BY <1>4 DEF IsPrefix, u, v

\* A sequence, without its last element and with one more.
LEMMA PrefixOf ==
    ASSUME NEW T, NEW s \in Seq(T)
    PROVE  /\ IsPrefix(s, s) /\ IsPrefix(<<>>, s) /\ IsPrefix(Front(s), s)
           /\ \A x \in T : IsPrefix(s, Append(s, x)) /\ Front(Append(s, x)) = s
           /\ Front(<<>>) = <<>>
<1>1. Len(s) \in Nat
  OBVIOUS
<1>2. IsPrefix(s, s) /\ IsPrefix(<<>>, s)
  <2> DEFINE e == <<>>
  <2>1. e \in Seq(T) /\ Len(e) = 0
    OBVIOUS
  <2> HIDE DEF e
  <2>2. IsPrefix(e, s)
    <3>1. Len(e) <= Len(s) /\ \A i \in 1..Len(e) : s[i] = e[i]
      BY <1>1, <2>1
    <3> QED BY <2>1, <3>1, SameBeginning
  <2>3. IsPrefix(s, s)
    BY <1>1, SameBeginning
  <2> QED BY <2>2, <2>3 DEF e
<1>3. Front(<<>>) = <<>>
  BY DEF Front
<1>4. IsPrefix(Front(s), s)
  <2>1. CASE s = <<>>
    BY <1>2, <1>3, <2>1
  <2>2. CASE s # <<>>
    <3> DEFINE k == Len(s) - 1
               u == SubSeq(s, 1, k)
    <3>1. k \in 0..Len(s) /\ k <= Len(s)
      BY <2>2
    <3>2. u \in Seq(T) /\ Len(u) = k /\ \A i \in 1..k : u[i] = s[i]
      <4> HIDE DEF k
      <4> QED BY <3>1, Firsts
    <3> HIDE DEF u, k
    <3>3. IsPrefix(u, s)
      BY <3>1, <3>2, SameBeginning
    <3> QED BY <3>3 DEF Front, u, k
  <2> QED BY <2>1, <2>2
<1>5. ASSUME NEW x \in T
      PROVE  IsPrefix(s, Append(s, x)) /\ Front(Append(s, x)) = s
  <2> DEFINE c == Append(s, x)
             k == Len(s)
  <2>1. c \in Seq(T) /\ Len(c) = k + 1 /\ \A i \in 1..k : c[i] = s[i]
    OBVIOUS
  <2>2. k \in 0..Len(c) /\ Len(c) - 1 = k /\ k \in Nat /\ k <= Len(c)
    BY <1>1, <2>1
  <2> HIDE DEF c
  <2>3. IsPrefix(s, c)
    BY <2>1, <2>2, SameBeginning
  <2> DEFINE u == SubSeq(c, 1, k)
  <2>4. u \in Seq(T) /\ Len(u) = k /\ \A i \in 1..k : u[i] = c[i]
    <3> HIDE DEF k
    <3> QED BY <2>1, <2>2, Firsts
  <2>5. Front(c) = u
    BY <2>2 DEF Front
  <2> HIDE DEF u
  <2>6. u = s
    BY <1>1, <2>1, <2>4
  <2> QED BY <2>3, <2>5, <2>6 DEF c
<1> QED BY <1>2, <1>3, <1>4, <1>5

\* The lines that parse of a file to which a line was added.
LEMMA LoadGrows ==
    ASSUME NEW s \in Seq(Line), NEW x \in Line
    PROVE  LET a == Kept(s, Parsed)
               b == Kept(Append(s, x), Parsed)
           IN  a \in Seq(Line) /\ b = IF x = Junk THEN a ELSE Append(a, x)
<1>1. x \in Parsed <=> x # Junk
  BY DEF Parsed
<1>2. Kept(s, Parsed) \in Seq(Line)
  BY KeptElements
<1> QED BY <1>1, <1>2, KeptAppended

\* Whatever becomes of the write of a line, all but a last line without its newline survives.
LEMMA AppendSurvives ==
    ASSUME NEW n \in Nat, NEW m \in Nat, NEW f, FileShape(f, n), NEW l \in Line, NEW g, FileShape(g, m),
           \/ g = f
           \/ f.tail = "closed" /\ (g.lines = Append(f.lines, l) \/ g.lines = Append(f.lines, Junk))
           \/ f.tail # "closed" /\ g.lines = Append(Front(f.lines), Junk)
    PROVE  Survives(f, g)
<1> DEFINE s == f.lines
           a == Kept(s, Parsed)
           b == Kept(g.lines, Parsed)
           good(c) == IF c # <<>> /\ c[1] = Header THEN c ELSE <<>>
<1>1. /\ s \in Seq(Line) /\ Below(s, n) /\ AscendingIn(s, Parsed)
      /\ f.tail # "closed" => s # <<>> /\ (s[Len(s)] = Junk <=> f.tail = "torn")
      /\ f.tail \in {"closed", "open", "torn"} /\ g.lines \in Seq(Line) /\ Junk \in Line
  BY LineNumbers DEF FileShape, File
<1>2. Load(f) = good(a) /\ Load(g) = good(b)
  BY LoadIs
<1>3. a \in Seq(Line) /\ b \in Seq(Line)
  BY <1>1, KeptElements
<1>4. good(a) \in Seq(Line) /\ good(b) \in Seq(Line)
  <2> HIDE DEF a, b
  <2> QED BY <1>3
<1>5. CASE g = f
  <2> DEFINE c == good(a)
  <2>1. c \in Seq(Line) /\ Load(f) = c /\ Load(g) = c
    BY <1>2, <1>4, <1>5
  <2> HIDE DEF c
  <2>2. IsPrefix(c, c) /\ IsPrefix(Front(c), c)
    BY <2>1, PrefixOf
  <2> QED BY <2>1, <2>2 DEF Survives
<1>6. CASE f.tail = "closed" /\ (g.lines = Append(f.lines, l) \/ g.lines = Append(f.lines, Junk))
  <2>1. PICK x \in Line : g.lines = Append(s, x)
    BY <1>1, <1>6
  <2>2. b = IF x = Junk THEN a ELSE Append(a, x)
    BY <1>1, <2>1, LoadGrows
  <2> HIDE DEF a, b
  <2>3. a # <<>> => b # <<>> /\ b[1] = a[1]
    <3> SUFFICES ASSUME a # <<>> PROVE b # <<>> /\ b[1] = a[1]
      OBVIOUS
    <3>1. Len(a) \in Nat /\ 1 \in 1..Len(a)
      BY <1>3
    <3>2. Append(a, x) # <<>> /\ Append(a, x)[1] = a[1]
      BY <1>3, <3>1
    <3> QED BY <2>2, <3>2
  <2>4. IsPrefix(a, b)
    <3>1. IsPrefix(a, a) /\ IsPrefix(a, Append(a, x))
      BY <1>3, PrefixOf
    <3> QED BY <2>2, <3>1
  <2>5. IsPrefix(<<>>, good(b))
    <3> DEFINE c == good(b)
    <3>1. c \in Seq(Line)
      BY <1>4
    <3> HIDE DEF c
    <3> QED BY <3>1, PrefixOf DEF c
  <2>6. IsPrefix(good(a), good(b))
    BY <2>3, <2>4, <2>5
  <2> QED BY <1>2, <1>6, <2>6 DEF Survives
<1>7. CASE f.tail # "closed" /\ g.lines = Append(Front(f.lines), Junk)
  <2> DEFINE r == Front(s)
             x == s[Len(s)]
             c == Kept(r, Parsed)
  <2>1. r \in Seq(Line) /\ s = Append(r, x) /\ x \in Line
    <3>1. r \in Seq(Line) /\ s = Append(r, x)
      BY <1>1, <1>7, LastOff
    <3>2. x \in Line
      BY <1>1, <1>7
    <3> QED BY <3>1, <3>2
  <2>2. (x = Junk <=> f.tail = "torn") /\ g.lines = Append(r, Junk)
    BY <1>1, <1>7
  <2> HIDE DEF r, x
  <2>3. c \in Seq(Line) /\ a = (IF x = Junk THEN c ELSE Append(c, x))
    <3>1. Kept(Append(r, x), Parsed) = (IF x = Junk THEN c ELSE Append(c, x)) /\ c \in Seq(Line)
      BY <2>1, LoadGrows
    <3>2. Kept(s, Parsed) = Kept(Append(r, x), Parsed)
      BY <2>1
    <3> QED BY <3>1, <3>2
  <2>4. b = c
    <3>1. Kept(Append(r, Junk), Parsed) = c
      BY <1>1, <2>1, LoadGrows
    <3> QED BY <2>2, <3>1
  <2> HIDE DEF a, b, c
  <2> DEFINE d == good(b)
  <2>5. d \in Seq(Line)
    BY <1>4
  <2>6. CASE f.tail = "torn"
    <3>1. Load(f) = d /\ Load(g) = d
      BY <1>2, <2>2, <2>3, <2>4, <2>6
    <3> HIDE DEF d
    <3>2. IsPrefix(d, d)
      BY <2>5, PrefixOf
    <3> QED BY <2>6, <3>1, <3>2 DEF Survives
  <2>7. CASE f.tail = "open"
    <3>1. a = Append(c, x)
      BY <2>2, <2>3, <2>7
    <3>2. Front(a) = c /\ Front(<<>>) = <<>>
      BY <2>1, <2>3, <3>1, PrefixOf
    <3>3. c # <<>> => a # <<>> /\ a[1] = c[1]
      <4> SUFFICES ASSUME c # <<>> PROVE a # <<>> /\ a[1] = c[1]
        OBVIOUS
      <4>1. Len(c) \in Nat /\ 1 \in 1..Len(c)
        BY <2>3
      <4>2. Append(c, x) # <<>> /\ Append(c, x)[1] = c[1]
        BY <2>1, <2>3, <4>1
      <4> QED BY <3>1, <4>2
    <3>4. Front(good(a)) = d \/ Front(good(a)) = <<>>
      BY <2>4, <3>2, <3>3
    <3> HIDE DEF d
    <3>5. IsPrefix(d, d) /\ IsPrefix(<<>>, d)
      BY <2>5, PrefixOf
    <3>6. IsPrefix(Front(good(a)), d)
      BY <3>4, <3>5
    <3> QED BY <1>2, <2>7, <3>6 DEF Survives, d
  <2> QED BY <1>1, <1>7, <2>6, <2>7
<1> QED BY <1>5, <1>6, <1>7

\* A step that leaves every file but that of the session it ends in alone, and of that one
\* what it had saved.
SavesStep ==
    \A p \in DOMAIN disk :
        /\ p \in DOMAIN disk'
        /\ disk'[p] # disk[p] => file' = p
        /\ Survives(disk[p], disk'[p])

\* A file that is not written.
LEMMA SurvivesItself ==
    ASSUME NEW n \in Nat, NEW f, FileShape(f, n)
    PROVE  Survives(f, f)
<1>1. Junk \in Line
  BY LineNumbers
<1> QED BY <1>1, AppendSurvives

\* No file is written.
LEMMA UntouchedSaves ==
    ASSUME LogInv, disk' = disk
    PROVE  SavesStep
<1>1. Len(table) \in Nat /\ \A p \in DOMAIN disk : FileShape(disk[p], Len(table))
  BY InvFacts
<1> QED BY <1>1, SurvivesItself DEF SavesStep

\* A file that is written, a new one or that of the session.
LEMMA WrittenSaves ==
    ASSUME LogInv, NEW p, NEW f, disk' = SetFile(p, f), p \in DOMAIN disk => file' = p /\ Survives(disk[p], f)
    PROVE  SavesStep
<1>1. Len(table) \in Nat /\ \A q \in DOMAIN disk : FileShape(disk[q], Len(table))
  BY InvFacts
<1>2. DOMAIN disk' = DOMAIN disk \cup {p} /\ disk'[p] = f /\ \A q \in DOMAIN disk : q # p => disk'[q] = disk[q]
  BY DEF SetFile
<1>3. ASSUME NEW q \in DOMAIN disk
      PROVE  q \in DOMAIN disk' /\ (disk'[q] # disk[q] => file' = q) /\ Survives(disk[q], disk'[q])
  <2>1. CASE q = p
    BY <1>2, <2>1
  <2>2. CASE q # p
    BY <1>1, <1>2, <2>2, SurvivesItself
  <2> QED BY <2>1, <2>2
<1> QED BY <1>3 DEF SavesStep

\* The name of the session's file, whether or not the process is up after the step.
LEMMA HoldFile ==
    ASSUME NEW p, NEW es, NEW lf, NEW ls, NEW fl, Hold(p, es, lf, ls, fl)
    PROVE  file' = p
BY DEF Hold

\* _persist writes all lines to a new file, or one to that of the session.
LEMMA PersistedSaves ==
    ASSUME LogInv, LogInv', up, New <= MaxEntries, NEW ls, Persisted(New, ls)
    PROVE  SavesStep
<1> DEFINE es == Append(entries, New)
           all == FirstLines(es)
           f == disk[file]
<1>1. CASE ~flushed /\ ~HasAssistant(es)
  <2>1. disk' = disk
    BY <1>1 DEF Persisted, NoWrite
  <2> QED BY <2>1, UntouchedSaves
<1>2. CASE ~flushed /\ HasAssistant(es) /\ file \notin DOMAIN disk
  <2>1. \/ WriteSucceeds(file, file, Written(all))
        \/ WriteFails(file, CutWrites(all)) \/ KilledInWrite(file, file, CutWrites(all))
    BY <1>2 DEF Persisted
  <2>2. \E g : disk' = SetFile(file, g)
    BY <2>1 DEF WriteSucceeds, WriteFails, KilledInWrite
  <2> QED BY <1>2, <2>2, WrittenSaves
<1>3. CASE ~flushed /\ HasAssistant(es) /\ file \in DOMAIN disk
  <2>1. disk' = disk
    BY <1>3 DEF Persisted, NoWrite
  <2> QED BY <2>1, UntouchedSaves
<1>4. CASE flushed
  <2>1. /\ \/ WriteSucceeds(file, file, Appended(f, New))
           \/ WriteFails(file, CutAppends(f, New)) \/ KilledInWrite(file, file, CutAppends(f, New))
        /\ file' = file
    BY <1>4, HoldFile DEF Persisted
  <2>2. PICK g : disk' = SetFile(file, g) /\ (g = Appended(f, New) \/ g \in CutAppends(f, New))
    BY <2>1 DEF WriteSucceeds, WriteFails, KilledInWrite
  <2>3. /\ file \in DOMAIN disk /\ Len(table) \in Nat /\ FileShape(f, Len(table)) /\ New \in Line
    <3>1. file \in DOMAIN disk
      BY <1>4, InvFacts DEF Own
    <3>2. Len(table) \in Nat /\ FileShape(f, Len(table))
      BY <3>1, InvFacts
    <3>3. New \in Ids
      BY <3>2, SessionLogAssumption DEF New, Ids
    <3> QED BY <3>1, <3>2, <3>3, LineNumbers
  <2>4. Len(table') \in Nat /\ FileShape(g, Len(table'))
    <3>1. table' \in Tables /\ \A p \in DOMAIN disk' : FileShape(disk'[p], Len(table'))
      BY DEF LogInv, Types
    <3>2. file \in DOMAIN disk' /\ disk'[file] = g
      BY <2>2 DEF SetFile
    <3> QED BY <3>1, <3>2 DEF Tables
  <2>5. /\ f.tail \in {"closed", "open", "torn"}
        /\ \/ g = f
           \/ f.tail = "closed" /\ (g.lines = Append(f.lines, New) \/ g.lines = Append(f.lines, Junk))
           \/ f.tail # "closed" /\ g.lines = Append(Front(f.lines), Junk)
    <3>1. f.tail \in {"closed", "open", "torn"}
      BY <2>3 DEF FileShape, File
    <3> HIDE DEF f
    <3> QED BY <2>2, <3>1 DEF Appended, CutAppends, Written
  <2> HIDE DEF f
  <2>6. Survives(f, g)
    BY <2>3, <2>4, <2>5, AppendSurvives
  <2> QED BY <2>1, <2>2, <2>6, WrittenSaves DEF f
<1>5. flushed \in BOOLEAN
  BY InvFacts
<1> QED BY <1>1, <1>2, <1>3, <1>4, <1>5

\* Every step.
LEMMA NextSaves ==
    ASSUME LogInv, LogInv', [Next]_vars
    PROVE  SavesStep
<1>1. CASE AppendEntry \/ AppendLabelChange \/ BranchWithSummary
  <2>1. up /\ New <= MaxEntries /\ \E ls : Persisted(New, ls)
    BY <1>1 DEF AppendEntry, AppendLabelChange, BranchWithSummary, NewEntry
  <2> QED BY <2>1, PersistedSaves
<1>2. CASE MoveLeaf \/ Crash \/ UNCHANGED vars
  <2>1. disk' = disk
    BY <1>2 DEF MoveLeaf, Crash, vars
  <2> QED BY <2>1, UntouchedSaves
<1>3. ASSUME NEW p \in Path, NewSession(p)
      PROVE  SavesStep
  <2>1. disk' = disk
    BY <1>3 DEF NewSession, NoWrite
  <2> QED BY <2>1, UntouchedSaves
<1>4. ASSUME NEW p \in Path, Open(p)
      PROVE  SavesStep
  <2>1. CASE Load(disk[p]) # <<>>
    <3>1. disk' = disk
      BY <1>4, <2>1 DEF Open
    <3> QED BY <3>1, UntouchedSaves
  <2>2. CASE Load(disk[p]) = <<>>
    <3> DEFINE g == Written(<<Header>>)
    <3>1. disk' = SetFile(p, g) /\ file' = p
      BY <1>4, <2>2, HoldFile DEF Open, Opened
    <3> HIDE DEF g
    <3>2. Load(g) \in Seq(Parsed)
      <4>1. table' \in Tables /\ \A q \in DOMAIN disk' : FileShape(disk'[q], Len(table'))
        BY DEF LogInv, Types
      <4>2. p \in DOMAIN disk' /\ disk'[p] = g
        BY <3>1 DEF SetFile
      <4> QED BY <4>1, <4>2, LoadIs DEF Tables
    <3>3. IsPrefix(<<>>, Load(g)) /\ Front(<<>>) = <<>>
      BY <3>2, PrefixOf
    <3>4. Survives(disk[p], g)
      BY <2>2, <3>3 DEF Survives
    <3> QED BY <3>1, <3>4, WrittenSaves
  <2> QED BY <2>1, <2>2
<1>5. ASSUME NEW p \in Path, NEW source \in Path, ForkFrom(source, p)
      PROVE  SavesStep
  <2>1. p \notin DOMAIN disk /\ \E g : disk' = SetFile(p, g)
    BY <1>5 DEF ForkFrom, Fresh, WriteSucceeds, WriteFails, KilledInWrite
  <2> QED BY <2>1, WrittenSaves
<1>6. ASSUME NEW p \in Path, NEW i \in Range(entries), CreateBranchedSession(i, p)
      PROVE  SavesStep
  <2>1. p \notin DOMAIN disk /\ (disk' = disk \/ \E g : disk' = SetFile(p, g))
    BY <1>6 DEF CreateBranchedSession, Fresh, WriteSucceeds, WriteFails, KilledInWrite
  <2> QED BY <2>1, UntouchedSaves, WrittenSaves
<1> QED BY <1>1, <1>2, <1>3, <1>4, <1>5, <1>6 DEF Next

\* Every step leaves the files of other sessions alone, and what a file had saved stays
\* saved: an append that fails or is torn, in whatever state an earlier failure left the
\* file, costs at most a last line that lacked its newline.
THEOREM LogKeepsSaved == Spec => SavedStaysSaved
<1>1. ASSUME LogInv, LogInv', [Next]_vars
      PROVE  [\A p \in DOMAIN disk :
                 /\ p \in DOMAIN disk'
                 /\ disk'[p] # disk[p] => file' = p
                 /\ LET saved == Load(disk[p])
                    IN  IsPrefix(IF disk[p].tail = "open" THEN Front(saved) ELSE saved, Load(disk'[p]))]_vars
  <2>1. SavesStep
    BY <1>1, NextSaves
  <2> QED BY <2>1 DEF SavesStep, Survives
<1> QED BY <1>1, LogInvHolds, PTL DEF Spec, SavedStaysSaved

-----------------------------------------------------------------------------
(* What a branched session shows.                                          *)

\* buildSessionContext over a path in a table: its compactions, the newest of them, and the
\* messages it leaves.
Compacted(t, path) == {j \in Range(path) : t[j].kind = "compaction"}
Newest(C) == IF C = {} THEN 0 ELSE Max(C)
ShownOf(t, path, last) ==
    {j \in Range(path) \ Compacted(t, path) :
        /\ j > last \/ (t[last].ref \in Range(path) /\ t[last].ref < last /\ j >= t[last].ref)
        /\ t[j].kind # "label"}
ContextOf(t, path) ==
    LET last == Newest(Compacted(t, path))
    IN  (IF last = 0 THEN <<>> ELSE <<last>>) \o Kept(path, ShownOf(t, path, last))

\* The session builds its contexts in its table.
LEMMA ContextIs ==
    /\ \A i : Context(Range(entries), i) = ContextOf(table, BranchOf(table, Range(entries), i))
    /\ Shown' = ContextOf(table', BranchOf(table', Range(entries'), leaf'))
<1>1. \A i : Context(Range(entries), i) = ContextOf(table, BranchOf(table, Range(entries), i))
  BY DEF Context, ContextOf, Compacted, Newest, ShownOf, Branch, BranchOf, IsLabel
<1>2. Shown' = ContextOf(table', BranchOf(table', Range(entries'), leaf'))
  BY DEF Shown, Context, ContextOf, Compacted, Newest, ShownOf, Branch, BranchOf, IsLabel
<1> QED BY <1>1, <1>2

\* Places and elements of what ascends are in one order.
LEMMA AscendingOrder ==
    ASSUME NEW s \in Seq(Ids), Ascending(s), NEW j \in 1..Len(s), NEW k \in 1..Len(s)
    PROVE  s[j] \in Nat /\ s[k] \in Nat /\ (j < k <=> s[j] < s[k]) /\ (j = k <=> s[j] = s[k])
<1>1. s[j] \in Nat /\ s[k] \in Nat /\ Len(s) \in Nat
  BY LineNumbers
<1>2. (j < k => s[j] < s[k]) /\ (k < j => s[k] < s[j])
  BY DEF Ascending
<1> QED BY <1>1, <1>2

\* A path without its labels, none of which is the parent of an entry of the path, and the
\* chain behind it: a branch t that is a row, and what a branched session makes of it in u.
RowOf(t, branch) ==
    /\ t \in Tables /\ branch \in Seq(Ids) /\ Ascending(branch) /\ Below(branch, Len(t))
    /\ \A k \in 2..Len(branch) : t[branch[k]].parent = branch[k - 1] /\ t[branch[k - 1]].kind # "label"
Behind(t, u, branch, path, es) ==
    /\ u \in Tables /\ Grown(t, u) /\ path \in Seq(Ids) /\ Ascending(path)
    /\ Range(path) = {j \in Range(branch) : t[j].kind # "label"}
    /\ es \in Seq(Ids) /\ Ascending(es) /\ Below(es, Len(u)) /\ Len(es) >= Len(path)
    /\ (\A j \in 1..Len(path) : es[j] = path[j])
    /\ \A k \in 1..(Len(es) - Len(path)) :
          /\ es[Len(path) + k] = Len(t) + k /\ u[Len(t) + k].kind = "label"
          /\ u[Len(t) + k].parent = IF k = 1 THEN (IF path = <<>> THEN 0 ELSE Last(path)) ELSE Len(t) + k - 1

\* Each entry of it has the one in front as its parent.
LEMMA BehindInRow ==
    ASSUME NEW t, NEW u, NEW branch, NEW path, NEW es, RowOf(t, branch), Behind(t, u, branch, path, es)
    PROVE  \A k \in 2..Len(es) : u[es[k]].parent = es[k - 1]
<1> DEFINE n == Len(t)
           a == Len(path)
<1>1. /\ t \in Tables /\ n \in Nat /\ branch \in Seq(Ids) /\ Ascending(branch) /\ Below(branch, n)
      /\ \A k \in 2..Len(branch) : t[branch[k]].parent = branch[k - 1] /\ t[branch[k - 1]].kind # "label"
  BY DEF RowOf, Tables
<1>2. /\ Grown(t, u) /\ path \in Seq(Ids) /\ Ascending(path) /\ a \in Nat /\ Len(es) \in Nat /\ Len(es) >= a
      /\ Range(path) = {j \in Range(branch) : t[j].kind # "label"}
      /\ (\A j \in 1..a : es[j] = path[j])
      /\ \A k \in 1..(Len(es) - a) :
            /\ es[a + k] = n + k
            /\ u[n + k].parent = IF k = 1 THEN (IF path = <<>> THEN 0 ELSE Last(path)) ELSE n + k - 1
  <2>1. path \in Seq(Ids) /\ es \in Seq(Ids)
    BY DEF Behind
  <2>2. a \in Nat /\ Len(es) \in Nat
    BY <2>1
  <2> QED BY <2>1, <2>2 DEF Behind
<1> HIDE DEF n
<1>3. ASSUME NEW k \in 2..a
      PROVE  u[path[k]].parent = path[k - 1]
  <2>1. k \in 1..a /\ k - 1 \in 1..a /\ k \in Nat /\ k - 1 < k
    BY <1>2
  <2>2. path[k] \in Range(branch) /\ path[k - 1] \in Range(branch) /\ path[k - 1] < path[k]
    <3>1. path[k] \in Range(path) /\ path[k - 1] \in Range(path)
      BY <1>2, <2>1 DEF Range
    <3> QED BY <1>2, <2>1, <3>1 DEF Ascending
  <2>3. PICK q \in 1..Len(branch), r \in 1..Len(branch) : path[k] = branch[q] /\ path[k - 1] = branch[r]
    BY <1>1, <2>2 DEF Range
  <2>4. r < q /\ Len(branch) \in Nat
    BY <1>1, <2>2, <2>3, AscendingOrder
  <2>5. q \in 2..Len(branch) /\ q - 1 \in 1..Len(branch) /\ r <= q - 1
    BY <2>4
  <2>6. PICK l \in 1..a : branch[q - 1] = path[l]
    <3>1. branch[q - 1] \in Range(branch) /\ t[branch[q - 1]].kind # "label"
      BY <1>1, <2>5 DEF Range
    <3>2. branch[q - 1] \in Range(path)
      BY <1>2, <3>1
    <3>3. Range(path) = {path[x] : x \in 1..a}
      BY <1>2 DEF Range
    <3> HIDE DEF a
    <3> QED BY <3>2, <3>3
  <2>7. l < k
    <3>1. branch[q - 1] < branch[q]
      BY <1>1, <2>5 DEF Ascending
    <3> QED BY <1>2, <2>1, <2>3, <2>6, <3>1, AscendingOrder
  <2>8. ~(l < k - 1)
    <3>1. ~(branch[q - 1] < branch[r])
      <4>1. ~(q - 1 < r)
        BY <2>5
      <4> QED BY <1>1, <2>5, <4>1, AscendingOrder
    <3> QED BY <1>2, <2>1, <2>3, <2>6, <3>1, AscendingOrder
  <2>9. l = k - 1
    BY <2>1, <2>7, <2>8
  <2>10. t[path[k]].parent = path[k - 1]
    BY <1>1, <2>3, <2>5, <2>6, <2>9
  <2>11. u[path[k]] = t[path[k]]
    <3>1. path[k] \in Ids /\ path[k] <= n
      BY <1>1, <2>3 DEF Below
    <3>2. path[k] \in 1..n
      BY <1>1, <3>1, EntryIs DEF n
    <3> QED BY <1>2, <3>2 DEF Grown, n
  <2> QED BY <2>10, <2>11
<1>4. ASSUME NEW k \in 2..Len(es)
      PROVE  u[es[k]].parent = es[k - 1]
  <2>1. CASE k <= a
    <3>1. k \in 2..a /\ k \in 1..a /\ k - 1 \in 1..a
      BY <1>2, <2>1
    <3> QED BY <1>2, <1>3, <3>1
  <2>2. CASE k = a + 1
    <3>1. 1 \in 1..(Len(es) - a) /\ k = a + 1 /\ a \in 1..a /\ k - 1 = a
      BY <1>2, <2>2
    <3>2. es[k] = n + 1 /\ u[n + 1].parent = IF path = <<>> THEN 0 ELSE Last(path)
      BY <1>2, <3>1
    <3>3. path # <<>> /\ Last(path) = path[a] /\ es[k - 1] = path[a]
      BY <1>2, <3>1 DEF Last
    <3> QED BY <3>2, <3>3
  <2>3. CASE k > a + 1
    <3> DEFINE l == k - a
    <3>1. /\ l \in 1..(Len(es) - a) /\ l - 1 \in 1..(Len(es) - a) /\ l # 1
          /\ k = a + l /\ k - 1 = a + (l - 1) /\ l \in Nat
      BY <1>2, <2>3
    <3> HIDE DEF l
    <3>2. es[a + l] = n + l /\ u[n + l].parent = n + l - 1 /\ es[a + (l - 1)] = n + (l - 1)
      BY <1>2, <3>1
    <3>3. n + l - 1 = n + (l - 1)
      BY <1>1, <3>1
    <3> QED BY <3>1, <3>2, <3>3
  <2> QED BY <1>2, <2>1, <2>2, <2>3
<1> QED BY <1>4

\* The newest of some entries is one of them.
LEMMA NewestIs ==
    ASSUME NEW C \in SUBSET Ids
    PROVE  Newest(C) \in C \cup {0}
<1>1. CASE C = {}
  BY <1>1 DEF Newest
<1>2. CASE C # {}
  <2> DEFINE D == {MaxEntries - x : x \in C}
  <2>1. MaxEntries \in Nat /\ \A x \in C : x \in Nat /\ x <= MaxEntries
    BY SessionLogAssumption DEF Ids
  <2>2. D \in SUBSET Nat /\ D # {}
    BY <1>2, <2>1
  <2> HIDE DEF D
  <2>3. PICK d \in D : \A e \in D : d <= e
    BY <2>2, Least
  <2>4. PICK x \in C : d = MaxEntries - x
    BY <2>3 DEF D
  <2>5. \A y \in C : x >= y
    <3> TAKE y \in C
    <3>1. d <= MaxEntries - y
      BY <2>3 DEF D
    <3> QED BY <2>1, <2>4, <3>1
  <2>6. Max(C) \in C
    BY <2>4, <2>5 DEF Max
  <2> QED BY <1>2, <2>6 DEF Newest
<1> QED BY <1>1, <1>2

\* Where no compaction keeps its entries from a label on, the branched session shows what
\* the branch shows.
LEMMA SameContext ==
    ASSUME NEW t, NEW u, NEW branch, NEW path, NEW es, RowOf(t, branch), Behind(t, u, branch, path, es),
           \A j \in Range(branch) : t[j].kind = "compaction" => t[t[j].ref].kind # "label"
    PROVE  ContextOf(t, branch) = ContextOf(u, es)
<1> DEFINE n == Len(t)
           a == Len(path)
           C == Compacted(t, branch)
           last == Newest(C)
           first == t[last].ref
           S == ShownOf(t, branch, last)
           T == ShownOf(u, es, last)
<1>1. /\ t \in Tables /\ u \in Tables /\ n \in Nat /\ branch \in Seq(Ids) /\ Ascending(branch) /\ Below(branch, n)
      /\ es \in Seq(Ids) /\ Ascending(es)
  BY DEF RowOf, Behind, Tables
<1>2. \A j \in Range(branch) : j \in Ids /\ j \in Nat \ {0} /\ j <= n /\ u[j] = t[j]
  <2> TAKE j \in Range(branch)
  <2>1. j \in Ids /\ j <= n
    BY <1>1 DEF Below, Range
  <2>2. j \in 1..n
    BY <1>1, <2>1, EntryIs
  <2> QED BY <2>1, <2>2, LineNumbers DEF Behind, Grown
<1>3. \A j \in Range(branch) : t[j].kind # "label" => j \in Range(es)
  <2> SUFFICES ASSUME NEW j \in Range(branch), t[j].kind # "label"
               PROVE  j \in Range(es)
    OBVIOUS
  <2>1. PICK k \in 1..a : j = path[k]
    <3>1. j \in Range(path)
      BY DEF Behind
    <3> QED BY <3>1 DEF Range, Behind
  <2>2. k \in DOMAIN es /\ es[k] = j
    <3>1. a \in Nat /\ Len(es) \in Nat /\ a <= Len(es) /\ DOMAIN es = 1..Len(es)
      BY <1>1 DEF Behind
    <3> QED BY <2>1, <3>1 DEF Behind
  <2> QED BY <2>2 DEF Range
<1>4. \A j \in Range(es) : (j \in Range(branch) /\ t[j].kind # "label") \/ (j \in Nat /\ j > n /\ u[j].kind = "label")
  <2> TAKE j \in Range(es)
  <2>1. PICK k \in 1..Len(es) : j = es[k]
    BY <1>1 DEF Range
  <2>2. a \in Nat /\ Len(es) \in Nat
    BY <1>1 DEF Behind
  <2>3. CASE k <= a
    <3>1. k \in 1..a
      BY <2>2, <2>3
    <3>2. j = path[k] /\ path[k] \in Range(path)
      BY <2>1, <3>1 DEF Behind, Range
    <3> QED BY <3>2 DEF Behind
  <2>4. CASE k > a
    <3> DEFINE l == k - a
    <3>1. l \in 1..(Len(es) - a) /\ k = a + l /\ l \in Nat \ {0}
      BY <2>2, <2>4
    <3> HIDE DEF l
    <3>2. j = n + l /\ u[n + l].kind = "label"
      BY <2>1, <3>1 DEF Behind
    <3> QED BY <1>1, <3>1, <3>2
  <2> QED BY <2>2, <2>3, <2>4
<1>5. Compacted(u, es) = C
  BY <1>2, <1>3, <1>4 DEF Compacted
<1>6. last \in C \cup {0} /\ C \subseteq Range(branch)
  <2>1. C \subseteq Range(branch)
    BY DEF Compacted
  <2>2. C \in SUBSET Ids
    BY <1>2, <2>1
  <2> HIDE DEF C
  <2> QED BY <2>1, <2>2, NewestIs
<1> HIDE DEF last, n
<1>7. S = T
  <2>1. CASE last = 0
    <3>1. S = {j \in Range(branch) \ C : t[j].kind # "label"}
      BY <1>2, <2>1 DEF ShownOf
    <3>2. \A j \in Range(es) : j > 0
      BY <1>1, <1>2, <1>4
    <3>3. T = {j \in Range(es) \ C : u[j].kind # "label"}
      BY <1>5, <2>1, <3>2 DEF ShownOf
    <3> QED BY <1>2, <1>3, <1>4, <3>1, <3>3
  <2>2. CASE last # 0
    <3>1. last \in Range(branch) /\ t[last].kind = "compaction" /\ u[last] = t[last] /\ last \in Nat /\ last <= n
      BY <1>2, <1>6, <2>2 DEF Compacted
    <3>2. t[first].kind # "label" /\ u[last].ref = first
      BY <3>1
    <3> HIDE DEF first
    <3>3. first < last => (first \in Range(branch) <=> first \in Range(es))
      <4>1. first \in Range(branch) => first \in Range(es)
        BY <1>3, <3>2
      <4>2. first < last /\ first \in Range(es) => first \in Range(branch)
        BY <1>1, <1>4, <3>1
      <4> QED BY <4>1, <4>2
    <3> DEFINE B(R, j) == (first \in R /\ first < last /\ j >= first)
    <3>4. \A j : B(Range(branch), j) <=> B(Range(es), j)
      BY <3>3
    <3>5. S = {j \in Range(branch) \ C : (j > last \/ B(Range(branch), j)) /\ t[j].kind # "label"}
      BY DEF ShownOf, first
    <3>6. T = {j \in Range(es) \ C : (j > last \/ B(Range(es), j)) /\ u[j].kind # "label"}
      BY <1>5, <3>2 DEF ShownOf
    <3> HIDE DEF B, S, T, C
    <3> QED BY <1>2, <1>3, <1>4, <3>4, <3>5, <3>6
  <2> QED BY <2>1, <2>2
<1>8. S \subseteq Range(branch) /\ T \subseteq Range(es)
  BY DEF ShownOf
<1> HIDE DEF S, T, C
<1>9. ASSUME NEW s \in Seq(Ids), Ascending(s), S \subseteq Range(s)
      PROVE  Kept(s, S) \in Seq(Int) /\ Ascending(Kept(s, S)) /\ Range(Kept(s, S)) = S
  <2>1. s \in Seq(Int) /\ AscendingIn(s, S)
    BY <1>9, IntSequence DEF Ascending, AscendingIn
  <2>2. Ascending(Kept(s, S))
    BY <2>1, KeptAscends
  <2>3. Kept(s, S) \in Seq(Int) /\ Range(Kept(s, S)) = Range(s) \cap S
    BY <2>1, KeptElements
  <2> QED BY <1>9, <2>2, <2>3
<1>10. Kept(branch, S) = Kept(es, S)
  <2> DEFINE b == Kept(branch, S)
             e == Kept(es, S)
  <2>1. b \in Seq(Int) /\ Ascending(b) /\ Range(b) = S
    BY <1>1, <1>8, <1>9
  <2>2. e \in Seq(Int) /\ Ascending(e) /\ Range(e) = S
    BY <1>1, <1>7, <1>8, <1>9
  <2> HIDE DEF b, e
  <2>3. b = e
    BY <2>1, <2>2, OneAscending
  <2> QED BY <2>3 DEF b, e
<1>11. ContextOf(t, branch) = (IF last = 0 THEN <<>> ELSE <<last>>) \o Kept(branch, S)
  BY DEF ContextOf, last, S, C
<1>12. ContextOf(u, es) = (IF last = 0 THEN <<>> ELSE <<last>>) \o Kept(es, S)
  <2>1. ContextOf(u, es) = (IF last = 0 THEN <<>> ELSE <<last>>) \o Kept(es, T)
    BY <1>5 DEF ContextOf, last, T
  <2> QED BY <1>7, <2>1
<1> QED BY <1>10, <1>11, <1>12

\* createBranchedSession: the session it leaves in memory shows what the path showed, and
\* has the labels of the path's entries.
LEMMA BranchedKeepsPath ==
    ASSUME LogInv, NEW i \in Range(entries), NEW p \in Path, CreateBranchedSession(i, p), up'
    PROVE  /\ BranchesWithoutLabel(i) => Shown' = Context(Range(entries), i)
           /\ Range(labels') = {t \in Range(labels) : t \in Range(Branch(Range(entries), i)) /\ ~IsLabel(t)}
<1> DEFINE n == Len(table)
           present == Range(entries)
           branch == Branch(present, i)
           path == BranchPath(i)
           targets == BranchLabels(i)
           m == Len(targets)
           es == BranchEntries(i)
           last == IF es = <<>> THEN 0 ELSE Last(es)
           u == table'
<1>1. /\ branch \in Seq(Ids) /\ Range(branch) \subseteq present /\ Ascending(branch)
      /\ \A k \in 2..Len(branch) : table[branch[k]].parent = branch[k - 1]
      /\ path \in Seq(Ids) /\ Range(path) = {j \in Range(branch) : ~IsLabel(j)} /\ Ascending(path)
      /\ targets \in Seq(Ids) /\ Range(targets) = Range(labels) \cap Range(path)
      /\ u \in Tables /\ Grown(table, u) /\ Len(u) = n + m
      /\ \A k \in 1..m :
            /\ u[n + k].kind = "label"
            /\ u[n + k].parent = IF k = 1 THEN (IF path = <<>> THEN 0 ELSE Last(path)) ELSE n + k - 1
      /\ es \in Seq(Ids) /\ Ascending(es) /\ Below(es, n + m) /\ Len(es) = Len(path) + m
      /\ (\A j \in 1..Len(path) : es[j] = path[j]) /\ (\A k \in 1..m : es[Len(path) + k] = n + k)
  <2> DEFINE S == {j \in present : ~IsLabel(j)}
  <2>1. /\ branch \in Seq(Ids) /\ Range(branch) \subseteq present /\ Ascending(branch)
        /\ \A k \in 2..Len(branch) : table[branch[k]].parent = branch[k - 1]
        /\ path \in Seq(Ids) /\ Range(path) = Range(branch) \cap S /\ Ascending(path)
        /\ targets \in Seq(Ids) /\ Range(targets) = Range(labels) \cap Range(path)
    BY BranchedIs
  <2>2. u \in Tables /\ Grown(table, u) /\ Len(u) = n + m
    BY BranchedIs
  <2>3. /\ es \in Seq(Ids) /\ Ascending(es) /\ Below(es, n + m) /\ Len(es) = Len(path) + m
        /\ (\A j \in 1..Len(path) : es[j] = path[j]) /\ (\A k \in 1..m : es[Len(path) + k] = n + k)
    BY BranchedIs
  <2>4. \A k \in 1..m :
            /\ u[n + k].kind = "label" /\ u[n + k].ref = targets[k] /\ u[n + k].set = TRUE
            /\ u[n + k].parent = IF k = 1 THEN (IF path = <<>> THEN 0 ELSE Last(path)) ELSE n + k - 1
    BY BranchedIs
  <2> HIDE DEF branch, path, targets, es, m, n, u, present
  <2>5. Range(path) = {j \in Range(branch) : ~IsLabel(j)}
    BY <2>1
  <2> HIDE DEF S
  <2> QED BY <2>1, <2>2, <2>3, <2>4, <2>5
<1>2. entries' = es /\ leaf' = last /\ labels' = targets
  BY DEF CreateBranchedSession, BranchPath, BranchLabels, BranchEntries, Hold, WriteSucceeds, WriteFails,
         KilledInWrite
<1>3. table \in Tables /\ n \in Nat /\ Below(branch, n)
  <2>1. table \in Tables /\ n \in Nat /\ \A j \in present : j <= n
    BY InvFacts
  <2> HIDE DEF branch, present, n
  <2> QED BY <1>1, <2>1, RangeBounds
<1> HIDE DEF path, targets, es, u
<1>4. Range(labels') = {t \in Range(labels) : t \in Range(branch) /\ ~IsLabel(t)}
  <2> HIDE DEF branch, present
  <2> QED BY <1>1, <1>2
<1>5. ASSUME BranchesWithoutLabel(i)
      PROVE  Shown' = Context(present, i)
  <2>1. \A k \in DOMAIN branch :
            /\ k > 1 => ~IsLabel(branch[k - 1])
            /\ table[branch[k]].kind = "compaction" => ~IsLabel(table[branch[k]].ref)
    BY <1>5 DEF BranchesWithoutLabel
  <2>2. branch = BranchOf(table, present, i)
    BY BranchOfTable
  <2> HIDE DEF branch, n, m, present
  <2>3. RowOf(table, branch)
    <3>1. \A k \in 2..Len(branch) : k \in DOMAIN branch /\ k > 1
      BY <1>1
    <3> QED BY <1>1, <1>3, <2>1, <3>1 DEF RowOf, IsLabel, n
  <2>4. Behind(table, u, branch, path, es)
    <3>1. m \in Nat /\ Len(path) \in Nat /\ Len(es) - Len(path) = m /\ Len(es) >= Len(path)
      BY <1>1 DEF m
    <3> QED BY <1>1, <3>1 DEF Behind, IsLabel, n
  <2>5. \A j \in Range(branch) : table[j].kind = "compaction" => table[table[j].ref].kind # "label"
    BY <2>1 DEF Range, IsLabel
  <2>6. ContextOf(table, branch) = ContextOf(u, es)
    BY <2>3, <2>4, <2>5, SameContext
  <2>7. BranchOf(u, Range(es), last) = es
    <3>1. \A k \in 2..Len(es) : u[es[k]].parent = es[k - 1]
      BY <2>3, <2>4, BehindInRow
    <3>2. u \in Tables /\ es \in Seq(Ids) /\ Ascending(es) /\ Below(es, Len(u))
      BY <2>4 DEF Behind
    <3>3. last = IF es = <<>> THEN 0 ELSE es[Len(es)]
      BY DEF Last
    <3> QED BY <3>1, <3>2, <3>3, RowIsBranch
  <2>8. Context(present, i) = ContextOf(table, branch)
    BY <2>2, ContextIs DEF present
  <2>9. Shown' = ContextOf(u, BranchOf(u, Range(entries'), leaf'))
    BY ContextIs DEF u
  <2> HIDE DEF last
  <2>10. Shown' = ContextOf(u, BranchOf(u, Range(es), last))
    BY <1>2, <2>9
  <2> QED BY <2>6, <2>7, <2>8, <2>10
<1> QED BY <1>4, <1>5

\* A branched session shows the model what its path showed, where no label lies within the
\* path or begins what a compaction kept, and it keeps the labels of the path's entries.
THEOREM LogBranchesKeepPath == Spec => BranchedSessionKeepsPath
<1>1. ASSUME LogInv
      PROVE  [\A i \in Range(entries), p \in Path :
                 CreateBranchedSession(i, p) /\ up' =>
                     /\ BranchesWithoutLabel(i) => Shown' = Context(Range(entries), i)
                     /\ Range(labels') = {t \in Range(labels) :
                                             t \in Range(Branch(Range(entries), i)) /\ ~IsLabel(t)}]_vars
  BY <1>1, BranchedKeepsPath
<1> QED BY <1>1, LogInvHolds, PTL DEF Spec, BranchedSessionKeepsPath

=============================================================================
