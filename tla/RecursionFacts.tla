--------------------------- MODULE RecursionFacts ---------------------------
(***************************************************************************)
(* Recursive functions: that there is one function which satisfies the     *)
(* equation of its definition, by induction over its arguments.            *)
(***************************************************************************)
EXTENDS Naturals, Sequences, Functions, Subsequences, WellFoundedInduction, TLAPS

\* A set of numbers that is not empty has a least one.
LEMMA Least ==
    ASSUME NEW T \in SUBSET Nat, T # {}
    PROVE  \E m \in T : \A k \in T : m <= k
<1>1. PICK m \in T : \A k \in T : ~ (<<k, m>> \in OpToRel(<, Nat))
  BY NatLessThanWellFounded, WFMin
<1>2. ASSUME NEW k \in T
      PROVE  m <= k
  <2>1. k \in Nat /\ m \in Nat
    OBVIOUS
  <2>2. <<k, m>> \in OpToRel(<, Nat) <=> k < m
    BY <2>1 DEF OpToRel
  <2>3. ~(k < m)
    BY <1>1, <2>2
  <2> QED BY <2>1, <2>3
<1> QED BY <1>2

\* Induction: a set that holds 0 and the successor of each of its members is all
\* numbers.
LEMMA Induct ==
    ASSUME NEW T \in SUBSET Nat, 0 \in T, \A n \in T : n + 1 \in T
    PROVE  T = Nat
<1>1. ASSUME NEW n \in Nat, n \notin T
      PROVE  FALSE
  <2>1. Nat \ T # {}
    BY <1>1
  <2>2. PICK m \in Nat \ T : \A k \in Nat \ T : m <= k
    BY <2>1, Least
  <2>3. m # 0 /\ m - 1 \in Nat
    BY <2>2
  <2>4. m - 1 \in T
    BY <2>2, <2>3
  <2> QED BY <2>2, <2>3, <2>4
<1> QED BY <1>1

\* f follows from one value at 0 and a step from an earlier argument.
Recursive(f, n, first, before, step) ==
    f = [j \in 0..n |-> IF j = 0 THEN first ELSE step[j][f[before[j]]]]

\* The function exists ...
LEMMA RecursionExists ==
    ASSUME NEW n \in Nat, NEW S, NEW first \in S,
           NEW before, \A j \in 1..n : before[j] \in 0..(j - 1),
           NEW step, \A j \in 1..n, s \in S : step[j][s] \in S
    PROVE  \E f \in [0..n -> S] : Recursive(f, n, first, before, step)
<1> DEFINE T == {k \in Nat : k <= n => \E f \in [0..k -> S] : Recursive(f, k, first, before, step)}
<1>1. 0 \in T
  <2>1. [j \in 0..0 |-> first] \in [0..0 -> S]
    OBVIOUS
  <2>2. Recursive([j \in 0..0 |-> first], 0, first, before, step)
    BY DEF Recursive
  <2> QED BY <2>1, <2>2
<1>2. ASSUME NEW k \in T
      PROVE  k + 1 \in T
  <2> SUFFICES ASSUME k + 1 <= n
               PROVE  \E f \in [0..(k + 1) -> S] : Recursive(f, k + 1, first, before, step)
    OBVIOUS
  <2>1. PICK f \in [0..k -> S] : Recursive(f, k, first, before, step)
    BY <1>2
  <2> DEFINE g == [j \in 0..(k + 1) |-> IF j = k + 1 THEN step[j][f[before[j]]] ELSE f[j]]
  <2>2. k + 1 \in 1..n /\ before[k + 1] \in 0..k /\ f[before[k + 1]] \in S
    OBVIOUS
  <2>3. g \in [0..(k + 1) -> S]
    BY <2>2
  <2>4. ASSUME NEW j \in 0..(k + 1)
        PROVE  g[j] = IF j = 0 THEN first ELSE step[j][g[before[j]]]
    <3>1. CASE j = k + 1
      <4>1. g[before[j]] = f[before[j]]
        BY <2>2, <3>1
      <4>2. j # 0 /\ g[j] = step[j][f[before[j]]]
        BY <3>1
      <4> QED BY <4>1, <4>2
    <3>2. CASE j # k + 1
      <4>1. j \in 0..k /\ g[j] = f[j]
        BY <3>2
      <4>2. f[j] = IF j = 0 THEN first ELSE step[j][f[before[j]]]
        BY <2>1, <4>1 DEF Recursive
      <4>3. j # 0 => before[j] \in 0..k
        BY <4>1
      <4>4. j # 0 => g[before[j]] = f[before[j]]
        BY <4>3
      <4> QED BY <4>1, <4>2, <4>4
    <3> QED BY <3>1, <3>2
  <2>5. Recursive(g, k + 1, first, before, step)
    BY <2>4 DEF Recursive
  <2> QED BY <2>3, <2>5
<1>3. T = Nat
  <2> HIDE DEF T
  <2> QED BY <1>1, <1>2, Induct DEF T
<1> QED BY <1>3

\* ... and a second one, for more arguments and with the same steps up to n, agrees
\* with it.
LEMMA RecursionAgrees ==
    ASSUME NEW n \in Nat, NEW m \in Nat, n <= m,
           NEW first, NEW before, NEW step, NEW f, Recursive(f, n, first, before, step),
           NEW later, NEW move, NEW g, Recursive(g, m, first, later, move),
           \A j \in 1..n : before[j] \in 0..(j - 1) /\ later[j] = before[j],
           \A j \in 1..n : move[j][f[before[j]]] = step[j][f[before[j]]]
    PROVE  \A j \in 0..n : g[j] = f[j]
<1> DEFINE T == {k \in 0..n : g[k] # f[k]}
<1> SUFFICES ASSUME T # {} PROVE FALSE
  OBVIOUS
<1>1. PICK k \in T : \A j \in T : k <= j
  <2>1. T \in SUBSET Nat /\ T # {}
    OBVIOUS
  <2> HIDE DEF T
  <2> QED BY <2>1, Least
<1>2. k \in 0..n /\ k \in 0..m /\ g[k] # f[k]
  OBVIOUS
<1>3. f[k] = IF k = 0 THEN first ELSE step[k][f[before[k]]]
  BY <1>2 DEF Recursive
<1>4. g[k] = IF k = 0 THEN first ELSE move[k][g[later[k]]]
  BY <1>2 DEF Recursive
<1>5. k # 0 => before[k] \in 0..(k - 1) /\ later[k] = before[k]
  BY <1>2
<1>6. k # 0 => before[k] \notin T
  BY <1>1, <1>2, <1>5
<1>7. k # 0 => g[before[k]] = f[before[k]]
  BY <1>2, <1>5, <1>6
<1>8. k # 0 => move[k][f[before[k]]] = step[k][f[before[k]]]
  BY <1>2
<1> QED BY <1>2, <1>3, <1>4, <1>5, <1>7, <1>8

\* Its values.
LEMMA RecursionValue ==
    ASSUME NEW n, NEW first, NEW before, NEW step, NEW f, Recursive(f, n, first, before, step),
           NEW j \in 0..n
    PROVE  f[j] = IF j = 0 THEN first ELSE step[j][f[before[j]]]
BY DEF Recursive

-----------------------------------------------------------------------------
(* What Kept keeps of a sequence.                                          *)

\* The elements kept of each beginning of s, as Kept defines them.
KeptOf(s, S) ==
    CHOOSE kept : kept =
        [k \in 0..Len(s) |-> IF k = 0 THEN <<>>
                             ELSE IF s[k] \in S THEN Append(kept[k - 1], s[k]) ELSE kept[k - 1]]

\* The recursion of Kept, each value from the one before.
Before(n) == [j \in 1..n |-> j - 1]
Keeping(s, S, T) == [j \in 1..Len(s) |-> [x \in Seq(T) |-> IF s[j] \in S THEN Append(x, s[j]) ELSE x]]

\* There are such elements, and Kept is the last of them.
LEMMA KeptExists ==
    ASSUME NEW T, NEW s \in Seq(T), NEW S
    PROVE  /\ KeptOf(s, S) \in [0..Len(s) -> Seq(T)]
           /\ KeptOf(s, S)[0] = <<>>
           /\ \A j \in 1..Len(s) :
                 KeptOf(s, S)[j] = IF s[j] \in S THEN Append(KeptOf(s, S)[j - 1], s[j]) ELSE KeptOf(s, S)[j - 1]
           /\ Kept(s, S) = KeptOf(s, S)[Len(s)]
<1> DEFINE body(kept) ==
               [k \in 0..Len(s) |-> IF k = 0 THEN <<>>
                                    ELSE IF s[k] \in S THEN Append(kept[k - 1], s[k]) ELSE kept[k - 1]]
           g == KeptOf(s, S)
<1>1. Len(s) \in Nat /\ \A j \in 1..Len(s) : s[j] \in T
  OBVIOUS
<1>2. \A j \in 1..Len(s) : Before(Len(s))[j] = j - 1 /\ j - 1 \in 0..Len(s)
  BY <1>1 DEF Before
<1>3. \A j \in 1..Len(s), x \in Seq(T) :
          /\ Keeping(s, S, T)[j][x] = IF s[j] \in S THEN Append(x, s[j]) ELSE x
          /\ Keeping(s, S, T)[j][x] \in Seq(T)
  BY <1>1 DEF Keeping
<1>4. PICK f \in [0..Len(s) -> Seq(T)] : Recursive(f, Len(s), <<>>, Before(Len(s)), Keeping(s, S, T))
  <2> DEFINE n == Len(s)
             R == Seq(T)
             first == <<>>
             before == Before(n)
             step == Keeping(s, S, T)
  <2>1. n \in Nat /\ first \in R
    BY <1>1
  <2>2. \A j \in 1..n : before[j] \in 0..(j - 1)
    BY <1>2
  <2>3. \A j \in 1..n, x \in R : step[j][x] \in R
    BY <1>3
  <2> HIDE DEF n, R, first, before, step
  <2>4. \E f \in [0..n -> R] : Recursive(f, n, first, before, step)
    BY <2>1, <2>2, <2>3, RecursionExists
  <2> QED BY <2>4 DEF n, R, first, before, step
<1>5. ASSUME NEW j \in 0..Len(s)
      PROVE  f[j] = IF j = 0 THEN <<>> ELSE IF s[j] \in S THEN Append(f[j - 1], s[j]) ELSE f[j - 1]
  <2>1. f[j] = IF j = 0 THEN <<>> ELSE Keeping(s, S, T)[j][f[Before(Len(s))[j]]]
    <3> DEFINE n == Len(s)
               first == <<>>
               before == Before(n)
               step == Keeping(s, S, T)
    <3>1. Recursive(f, n, first, before, step) /\ j \in 0..n
      BY <1>4
    <3> HIDE DEF n, first, before, step
    <3>2. f[j] = IF j = 0 THEN first ELSE step[j][f[before[j]]]
      BY <3>1, RecursionValue
    <3> QED BY <3>2 DEF n, first, before, step
  <2>2. CASE j = 0
    BY <2>1, <2>2
  <2>3. CASE j # 0
    <3>1. j \in 1..Len(s) /\ Before(Len(s))[j] = j - 1 /\ j - 1 \in 0..Len(s)
      BY <1>1, <1>2, <2>3
    <3>2. f[j - 1] \in Seq(T)
      BY <3>1
    <3> QED BY <1>3, <2>1, <2>3, <3>1, <3>2
  <2> QED BY <2>2, <2>3
<1>6. f = body(f)
  <2>1. f = [j \in 0..Len(s) |-> f[j]]
    OBVIOUS
  <2> QED BY <1>5, <2>1
<1>7. g = body(g)
  BY <1>6 DEF KeptOf
<1>8. \A j \in 0..Len(s) : g[j] = IF j = 0 THEN <<>> ELSE IF s[j] \in S THEN Append(g[j - 1], s[j]) ELSE g[j - 1]
  <2> HIDE DEF g
  <2> QED BY <1>7
<1>9. \A j \in 0..Len(s) : g[j] = f[j]
  <2> DEFINE U == {k \in 0..Len(s) : g[k] # f[k]}
  <2> SUFFICES ASSUME U # {} PROVE FALSE
    OBVIOUS
  <2>1. PICK k \in U : \A j \in U : k <= j
    <3>1. U \in SUBSET Nat /\ U # {}
      OBVIOUS
    <3> HIDE DEF U
    <3> QED BY <3>1, Least
  <2>2. k # 0
    BY <1>5, <1>8, <2>1
  <2>3. k - 1 \in 0..Len(s)
    BY <2>1, <2>2
  <2>4. g[k - 1] = f[k - 1]
    BY <2>1, <2>3
  <2> QED BY <1>5, <1>8, <2>1, <2>2, <2>4
<1>10. g = [j \in 0..Len(s) |-> g[j]]
  <2> HIDE DEF g
  <2> QED BY <1>7
<1>11. g = f
  <2> HIDE DEF g
  <2> QED BY <1>9, <1>10
<1>12. 0 \in 0..Len(s) /\ \A j \in 1..Len(s) : j \in 0..Len(s) /\ j # 0
  BY <1>1
<1>13. Kept(s, S) = g[Len(s)]
  BY DEF Kept, KeptOf
<1> QED BY <1>4, <1>5, <1>11, <1>12, <1>13

\* Appending adds one element.
LEMMA RangeAppended ==
    ASSUME NEW S, NEW a \in Seq(S), NEW e \in S
    PROVE  Range(Append(a, e)) = Range(a) \cup {e}
<1> DEFINE c == Append(a, e)
<1>1. /\ DOMAIN a = 1..Len(a) /\ DOMAIN c = 1..(Len(a) + 1) /\ Len(a) \in Nat
      /\ c[Len(a) + 1] = e /\ \A i \in 1..Len(a) : c[i] = a[i]
  OBVIOUS
<1> HIDE DEF c
<1>2. Range(c) = Range(a) \cup {e}
  BY <1>1 DEF Range
<1> QED BY <1>2 DEF c

\* One element more.
LEMMA KeptAppended ==
    ASSUME NEW T, NEW s \in Seq(T), NEW x \in T, NEW S
    PROVE  Kept(Append(s, x), S) = IF x \in S THEN Append(Kept(s, S), x) ELSE Kept(s, S)
<1> DEFINE u == Append(s, x)
           n == Len(s)
           f == KeptOf(s, S)
           g == KeptOf(u, S)
<1>1. u \in Seq(T) /\ n \in Nat /\ Len(u) = n + 1 /\ u[n + 1] = x /\ \A j \in 1..n : u[j] = s[j]
  OBVIOUS
<1>2. f[0] = <<>> /\ Kept(s, S) = f[n]
      /\ \A j \in 1..n : f[j] = IF s[j] \in S THEN Append(f[j - 1], s[j]) ELSE f[j - 1]
  BY KeptExists
<1>3. g[0] = <<>> /\ Kept(u, S) = g[n + 1]
      /\ \A j \in 1..(n + 1) : g[j] = IF u[j] \in S THEN Append(g[j - 1], u[j]) ELSE g[j - 1]
  <2> HIDE DEF u
  <2> QED BY <1>1, KeptExists
<1> HIDE DEF u, n, f, g
<1>4. ASSUME NEW k \in 0..n, g[k] # f[k]
      PROVE  FALSE
  <2> DEFINE U == {j \in 0..n : g[j] # f[j]}
  <2>1. PICK j \in U : \A i \in U : j <= i
    <3>1. U \in SUBSET Nat /\ U # {}
      BY <1>1, <1>4
    <3> HIDE DEF U
    <3> QED BY <3>1, Least
  <2>2. j # 0 /\ j \in 1..n /\ j \in 1..(n + 1) /\ j - 1 \in 0..n
    BY <1>1, <1>2, <1>3, <2>1
  <2>3. g[j - 1] = f[j - 1]
    BY <2>1, <2>2
  <2>4. u[j] = s[j]
    BY <1>1, <2>2
  <2>5. g[j] = IF u[j] \in S THEN Append(g[j - 1], u[j]) ELSE g[j - 1]
    BY <1>3, <2>2
  <2>6. f[j] = IF s[j] \in S THEN Append(f[j - 1], s[j]) ELSE f[j - 1]
    BY <1>2, <2>2
  <2> QED BY <2>1, <2>3, <2>4, <2>5, <2>6
<1>5. g[n] = f[n] /\ g[n + 1] = IF u[n + 1] \in S THEN Append(g[n], u[n + 1]) ELSE g[n]
  <2>1. n + 1 \in 1..(n + 1) /\ (n + 1) - 1 = n /\ n \in 0..n
    BY <1>1
  <2> QED BY <1>3, <1>4, <2>1
<1> QED BY <1>1, <1>2, <1>3, <1>5 DEF u

\* Kept keeps the elements that are in S, and no other, of each beginning ...
LEMMA KeptSoFar ==
    ASSUME NEW T, NEW s \in Seq(T), NEW S, NEW k \in 0..Len(s)
    PROVE  Range(KeptOf(s, S)[k]) = {s[j] : j \in 1..k} \cap S
<1> DEFINE n == Len(s)
           f == KeptOf(s, S)
           A == {i \in Nat : i <= n => Range(f[i]) = {s[j] : j \in 1..i} \cap S}
<1>1. n \in Nat /\ \A j \in 1..n : s[j] \in T
  OBVIOUS
<1>2. f \in [0..n -> Seq(T)] /\ f[0] = <<>> /\ Kept(s, S) = f[n]
      /\ \A j \in 1..n : f[j] = IF s[j] \in S THEN Append(f[j - 1], s[j]) ELSE f[j - 1]
  BY KeptExists
<1> HIDE DEF n, f
<1>3. 0 \in A
  <2>1. Range(f[0]) = {}
    BY <1>2 DEF Range
  <2> QED BY <2>1
<1>4. ASSUME NEW i \in A
      PROVE  i + 1 \in A
  <2> SUFFICES ASSUME i + 1 <= n
               PROVE  Range(f[i + 1]) = {s[j] : j \in 1..(i + 1)} \cap S
    OBVIOUS
  <2>1. i + 1 \in 1..n /\ (i + 1) - 1 = i /\ s[i + 1] \in T /\ i \in 0..n
    BY <1>1
  <2>2. f[i] \in Seq(T) /\ f[i + 1] = IF s[i + 1] \in S THEN Append(f[i], s[i + 1]) ELSE f[i]
    BY <1>2, <2>1
  <2>3. Range(f[i]) = {s[j] : j \in 1..i} \cap S
    BY <2>1
  <2>4. {s[j] : j \in 1..(i + 1)} = {s[j] : j \in 1..i} \cup {s[i + 1]}
    OBVIOUS
  <2>5. CASE s[i + 1] \in S
    <3>1. Range(f[i + 1]) = Range(f[i]) \cup {s[i + 1]}
      BY <2>1, <2>2, <2>5, RangeAppended
    <3> QED BY <2>3, <2>4, <2>5, <3>1
  <2>6. CASE s[i + 1] \notin S
    BY <2>2, <2>3, <2>4, <2>6
  <2> QED BY <2>5, <2>6
<1>5. A = Nat
  <2> HIDE DEF A
  <2> QED BY <1>3, <1>4, Induct DEF A
<1>6. k \in Nat /\ k <= n
  BY <1>1 DEF n
<1> QED BY <1>5, <1>6 DEF f

\* ... and of all of s.
LEMMA KeptElements ==
    ASSUME NEW T, NEW s \in Seq(T), NEW S
    PROVE  Kept(s, S) \in Seq(T) /\ Range(Kept(s, S)) = Range(s) \cap S
<1> DEFINE n == Len(s)
           f == KeptOf(s, S)
<1>1. n \in Nat /\ n \in 0..n /\ Range(s) = {s[j] : j \in 1..n}
  BY DEF Range
<1>2. f \in [0..n -> Seq(T)] /\ Kept(s, S) = f[n]
  BY KeptExists
<1>3. Range(f[n]) = {s[j] : j \in 1..n} \cap S
  BY <1>1, KeptSoFar
<1> HIDE DEF n, f
<1> QED BY <1>1, <1>2, <1>3

\* Induction over the sequences that are made by appending.
LEMMA SequencesInduct ==
    ASSUME NEW T, NEW P \in SUBSET Seq(T), <<>> \in P, \A s \in P, x \in T : Append(s, x) \in P
    PROVE  P = Seq(T)
<1> DEFINE A == {n \in Nat : \A s \in Seq(T) : Len(s) = n => s \in P}
<1>1. 0 \in A
  <2>1. ASSUME NEW s \in Seq(T), Len(s) = 0
        PROVE  s \in P
    <3>1. s = <<>>
      BY <2>1
    <3> QED BY <3>1
  <2> QED BY <2>1
<1>2. ASSUME NEW n \in A
      PROVE  n + 1 \in A
  <2>1. ASSUME NEW s \in Seq(T), Len(s) = n + 1
        PROVE  s \in P
    <3> DEFINE f == [i \in 1..n |-> s[i]]
    <3>1. n \in Nat /\ f \in Seq(T) /\ Len(f) = n /\ s[n + 1] \in T
      BY <2>1
    <3>2. s = Append(f, s[n + 1])
      BY <2>1, <3>1
    <3>3. f \in P
      BY <1>2, <3>1
    <3> QED BY <3>1, <3>2, <3>3
  <2> QED BY <2>1
<1> HIDE DEF A
<1>3. A = Nat
  BY <1>1, <1>2, Induct DEF A
<1>4. ASSUME NEW s \in Seq(T)
      PROVE  s \in P
  <2>1. Len(s) \in A
    BY <1>3
  <2> QED BY <2>1 DEF A
<1> QED BY <1>4

\* Of nothing, nothing.
LEMMA KeptOfNone ==
    ASSUME NEW S
    PROVE  Kept(<<>>, S) = <<>>
<1> DEFINE s == <<>>
<1>1. s \in Seq({}) /\ Len(s) = 0
  OBVIOUS
<1> HIDE DEF s
<1>2. Kept(s, S) = <<>>
  <2>1. KeptOf(s, S)[0] = <<>> /\ Kept(s, S) = KeptOf(s, S)[Len(s)]
    <3> DEFINE T == {}
    <3>1. s \in Seq(T)
      BY <1>1
    <3> HIDE DEF T
    <3> QED BY <3>1, KeptExists
  <2> QED BY <1>1, <2>1, Zenon
<1> QED BY <1>2 DEF s

\* An element joins the second of two sequences in a row.
LEMMA AppendConcat ==
    ASSUME NEW T, NEW a \in Seq(T), NEW b \in Seq(T), NEW x \in T
    PROVE  a \o b \in Seq(T) /\ a \o Append(b, x) = Append(a \o b, x)
OBVIOUS

\* Of two sequences in a row, what is kept of each.
LEMMA KeptConcat ==
    ASSUME NEW T, NEW s \in Seq(T), NEW t \in Seq(T), NEW S
    PROVE  Kept(s \o t, S) = Kept(s, S) \o Kept(t, S)
<1> DEFINE P == {u \in Seq(T) : Kept(s \o u, S) = Kept(s, S) \o Kept(u, S)}
<1>1. <<>> \in P
  <2>1. s \o <<>> = s /\ Kept(s, S) \in Seq(T) /\ Kept(s, S) \o <<>> = Kept(s, S)
    BY KeptElements
  <2> QED BY <2>1, KeptOfNone
<1>2. ASSUME NEW u \in P, NEW x \in T
      PROVE  Append(u, x) \in P
  <2>1. u \in Seq(T) /\ Append(u, x) \in Seq(T) /\ s \o u \in Seq(T)
    OBVIOUS
  <2>2. s \o Append(u, x) = Append(s \o u, x)
    BY <2>1, AppendConcat
  <2>3. Kept(s \o Append(u, x), S) = IF x \in S THEN Append(Kept(s \o u, S), x) ELSE Kept(s \o u, S)
    <3> DEFINE v == s \o u
    <3>1. v \in Seq(T)
      BY <2>1
    <3> HIDE DEF v
    <3>2. Kept(Append(v, x), S) = IF x \in S THEN Append(Kept(v, S), x) ELSE Kept(v, S)
      BY <3>1, KeptAppended
    <3> QED BY <2>2, <3>2 DEF v
  <2>4. Kept(Append(u, x), S) = IF x \in S THEN Append(Kept(u, S), x) ELSE Kept(u, S)
    BY <2>1, KeptAppended
  <2>5. Kept(s, S) \in Seq(T) /\ Kept(u, S) \in Seq(T)
    BY <2>1, KeptElements
  <2>6. Append(Kept(s, S) \o Kept(u, S), x) = Kept(s, S) \o Append(Kept(u, S), x)
    <3> DEFINE a == Kept(s, S)
               b == Kept(u, S)
    <3>1. a \in Seq(T) /\ b \in Seq(T)
      BY <2>5
    <3> HIDE DEF a, b
    <3>2. a \o Append(b, x) = Append(a \o b, x)
      BY <3>1, AppendConcat
    <3> QED BY <3>2 DEF a, b
  <2> QED BY <1>2, <2>1, <2>3, <2>4, <2>6
<1> HIDE DEF P
<1>3. P = Seq(T)
  <2>1. P \in SUBSET Seq(T)
    BY DEF P
  <2> QED BY <1>1, <1>2, <2>1, SequencesInduct
<1> QED BY <1>3 DEF P

\* All of a sequence with nothing to leave out.
LEMMA KeptOfAll ==
    ASSUME NEW T, NEW s \in Seq(T), NEW S, T \subseteq S
    PROVE  Kept(s, S) = s
<1> DEFINE P == {u \in Seq(T) : Kept(u, S) = u}
<1>1. <<>> \in P
  BY KeptOfNone
<1>2. ASSUME NEW u \in P, NEW x \in T
      PROVE  Append(u, x) \in P
  BY KeptAppended
<1> HIDE DEF P
<1>3. P = Seq(T)
  <2>1. P \in SUBSET Seq(T)
    BY DEF P
  <2> QED BY <1>1, <1>2, <2>1, SequencesInduct
<1> QED BY <1>3 DEF P

=============================================================================
