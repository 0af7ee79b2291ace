----------------------------- MODULE ListLemmas -----------------------------
(***************************************************************************)
(* What the three list functions of the scheduler (insertion by priority,   *)
(* removal, and the merge of the pending tasks) keep, for any number of     *)
(* tasks and priorities: no task is lost or listed twice and every list     *)
(* stays in order of priority.  The arguments about places are carried out  *)
(* on functions over 1 .. n and then applied to sequences.                  *)
(***************************************************************************)
EXTENDS SchedLists, TLAPS, SequenceTheorems, FiniteSetTheorems, WellFoundedInduction

(* A non-empty set of naturals has a least element. *)
LEMMA LeastNatural ==
  ASSUME NEW T, T \subseteq Nat, T # {}
  PROVE  \E x \in T : \A y \in T : x <= y
<1>1. PICK x \in T : \A y \in T : ~(<<y, x>> \in OpToRel(<, Nat))
  BY WFMin, NatLessThanWellFounded
<1>2. \A y \in T : ~(y < x)
  BY <1>1 DEF OpToRel
<1> QED BY <1>2

(* FirstBelow is a place of the list, or one past its end: every task before *)
(* it ranks at least p, and the task at it, if any, ranks below p.           *)
LEMMA FirstBelowPlace ==
  ASSUME NEW list \in Seq(Task), NEW prio \in [Task -> Int], NEW p \in Int
  PROVE  LET i == FirstBelow(list, prio, p)
         IN  /\ i \in 1 .. Len(list) + 1
             /\ \A j \in 1 .. i - 1 : p <= prio[list[j]]
             /\ i <= Len(list) => prio[list[i]] < p
<1> DEFINE T == {i \in 1 .. Len(list) + 1 : i <= Len(list) => prio[list[i]] < p}
<1>1. Len(list) + 1 \in T /\ T \subseteq Nat
  OBVIOUS
<1>2. PICK i \in T : \A y \in T : i <= y
  BY <1>1, LeastNatural
<1>3. \A j \in 1 .. i - 1 : p <= prio[list[j]]
  BY <1>2
<1>4. \E x \in 1 .. Len(list) + 1 :
         /\ \A j \in 1 .. x - 1 : p <= prio[list[j]]
         /\ x <= Len(list) => prio[list[x]] < p
  BY <1>2, <1>3
<1> QED BY <1>4 DEF FirstBelow

-----------------------------------------------------------------------------
(* Lists, as functions of the places 1 .. n *)

Holds(f, n, t) == \E j \in 1 .. n : f[j] = t

Distinct(f, n) == \A x, y \in 1 .. n : f[x] = f[y] => x = y

Descending(f, n, prio) == \A x, y \in 1 .. n : x < y => prio[f[x]] >= prio[f[y]]

\* g, of n + 1 places, is f, of n places, with tcb put in at place i.
Inserted(g, f, n, i, tcb) ==
  \A j \in 1 .. n + 1 : g[j] = IF j < i THEN f[j] ELSE IF j = i THEN tcb ELSE f[j - 1]

\* g, of n - 1 places, is f, of n places, without its place i.
Deleted(g, f, n, i) ==
  /\ \A j \in 1 .. i - 1 : g[j] = f[j]
  /\ \A j \in i .. n - 1 : g[j] = f[j + 1]

(* What a list holds after an insertion. *)
LEMMA InsertedHolds ==
  ASSUME NEW f, NEW g, NEW n \in Nat, NEW i \in 1 .. n + 1, NEW tcb, Inserted(g, f, n, i, tcb)
  PROVE  \A t : Holds(g, n + 1, t) <=> t = tcb \/ Holds(f, n, t)
<1>1. ASSUME NEW j \in 1 .. n PROVE \E x \in 1 .. n + 1 : g[x] = f[j]
  <2>1. CASE j < i
    BY <2>1 DEF Inserted
  <2>2. CASE j >= i
    <3>1. j + 1 \in 1 .. n + 1 /\ ~(j + 1 < i) /\ j + 1 # i /\ (j + 1) - 1 = j
      BY <2>2
    <3>2. g[j + 1] = f[j]
      BY <3>1 DEF Inserted
    <3> QED BY <3>1, <3>2
  <2> QED BY <2>1, <2>2
<1>2. g[i] = tcb
  BY DEF Inserted
<1>3. \A j \in 1 .. n + 1 : g[j] = tcb \/ \E x \in 1 .. n : g[j] = f[x]
  BY DEF Inserted
<1> QED BY <1>1, <1>2, <1>3 DEF Holds

(* An insertion of a new task in front of the first place that ranks below it keeps *)
(* a list free of duplicates and in order of priority.                              *)
LEMMA InsertedKeeps ==
  ASSUME NEW f, NEW g, NEW n \in Nat, NEW i \in 1 .. n + 1, NEW tcb, Inserted(g, f, n, i, tcb)
  PROVE  /\ Distinct(f, n) /\ (\A j \in 1 .. n : f[j] # tcb) => Distinct(g, n + 1)
         /\ \A prio :
              /\ prio[tcb] \in Int /\ \A j \in 1 .. n : prio[f[j]] \in Int
              /\ Descending(f, n, prio)
              /\ \A j \in 1 .. i - 1 : prio[tcb] <= prio[f[j]]
              /\ i <= n => prio[f[i]] < prio[tcb]
              => Descending(g, n + 1, prio)
<1>1. \A j \in 1 .. n + 1 : g[j] = IF j < i THEN f[j] ELSE IF j = i THEN tcb ELSE f[j - 1]
  BY DEF Inserted
<1>2. Distinct(f, n) /\ (\A j \in 1 .. n : f[j] # tcb) => Distinct(g, n + 1)
  BY <1>1 DEF Distinct
<1>3. ASSUME NEW prio,
             prio[tcb] \in Int, \A j \in 1 .. n : prio[f[j]] \in Int,
             Descending(f, n, prio),
             \A j \in 1 .. i - 1 : prio[tcb] <= prio[f[j]],
             i <= n => prio[f[i]] < prio[tcb]
      PROVE  Descending(g, n + 1, prio)
  <2>1. \A j \in i .. n : prio[f[j]] < prio[tcb]
    <3> TAKE j \in i .. n
    <3>1. j = i \/ prio[f[i]] >= prio[f[j]]
      BY <1>3 DEF Descending
    <3> QED BY <1>3, <3>1
  <2>2. ASSUME NEW x \in 1 .. n + 1, NEW y \in 1 .. n + 1, x < y
        PROVE  prio[g[x]] >= prio[g[y]]
    BY <1>1, <1>3, <2>1, <2>2 DEF Descending
  <2> QED BY <2>2 DEF Descending
<1> QED BY <1>2, <1>3

(* A removal takes one task out and keeps a list distinct and in order of priority. *)
LEMMA DeletedKeeps ==
  ASSUME NEW f, NEW g, NEW n \in Nat, NEW i \in 1 .. n, Deleted(g, f, n, i)
  PROVE  /\ Distinct(f, n) =>
              /\ Distinct(g, n - 1)
              /\ \A t : Holds(g, n - 1, t) <=> t # f[i] /\ Holds(f, n, t)
         /\ \A prio : Descending(f, n, prio) => Descending(g, n - 1, prio)
<1>1. \A j \in 1 .. n - 1 : g[j] = IF j < i THEN f[j] ELSE f[j + 1]
  BY DEF Deleted
<1>2. ASSUME NEW j \in 1 .. n, j # i PROVE \E x \in 1 .. n - 1 : g[x] = f[j]
  <2>1. CASE j < i
    BY <1>1, <2>1
  <2>2. CASE j > i
    <3>1. j - 1 \in 1 .. n - 1 /\ ~(j - 1 < i) /\ (j - 1) + 1 = j
      BY <2>2
    <3>2. g[j - 1] = f[j]
      BY <1>1, <3>1
    <3> QED BY <3>1, <3>2
  <2> QED BY <1>2, <2>1, <2>2
<1>3. Distinct(f, n) => Distinct(g, n - 1)
  BY <1>1 DEF Distinct
<1>4. ASSUME Distinct(f, n), NEW t
      PROVE  Holds(g, n - 1, t) <=> t # f[i] /\ Holds(f, n, t)
  <2>1. \A j \in 1 .. n - 1 : \E x \in 1 .. n : x # i /\ g[j] = f[x]
    BY <1>1
  <2>2. \A x \in 1 .. n : x # i => f[x] # f[i]
    BY <1>4 DEF Distinct
  <2> QED BY <1>2, <2>1, <2>2 DEF Holds
<1>5. ASSUME NEW prio, Descending(f, n, prio) PROVE Descending(g, n - 1, prio)
  BY <1>1, <1>5 DEF Descending
<1> QED BY <1>3, <1>4, <1>5

\* h is f, of m places, followed by g, of n places.
Joined(h, f, m, g, n) ==
  /\ \A j \in 1 .. m : h[j] = f[j]
  /\ \A j \in 1 .. n : h[m + j] = g[j]

\* g is the part of f that begins behind its first m places, and has n places.
Part(g, f, m, n) == \A j \in 1 .. n : g[j] = f[m + j]

(* The parts before and from place i, with one task between them, are an insertion. *)
LEMMA JoinedInserts ==
  ASSUME NEW f, NEW n \in Nat, NEW i \in 1 .. n + 1, NEW tcb, NEW front, NEW back,
         Part(front, f, 0, i - 1), Part(back, f, i - 1, n - i + 1),
         NEW one, NEW h, Joined(one, front, i - 1, <<tcb>>, 1), Joined(h, one, i, back, n - i + 1)
  PROVE  Inserted(h, f, n, i, tcb)
<1>1. \A j \in 1 .. i - 1 : h[j] = f[j]
  BY DEF Part, Joined
<1>2. h[i] = tcb
  <2>1. one[(i - 1) + 1] = <<tcb>>[1] /\ (i - 1) + 1 = i
    BY DEF Joined
  <2> QED BY <2>1 DEF Joined
<1>3. ASSUME NEW j \in i + 1 .. n + 1 PROVE h[j] = f[j - 1]
  <2>1. /\ j - i \in 1 .. n - i + 1
        /\ i + (j - i) = j /\ (i - 1) + (j - i) = j - 1
    OBVIOUS
  <2>2. h[i + (j - i)] = back[j - i]
    BY <2>1 DEF Joined
  <2>3. back[j - i] = f[(i - 1) + (j - i)]
    BY <2>1 DEF Part
  <2> QED BY <2>1, <2>2, <2>3
<1> QED BY <1>1, <1>2, <1>3 DEF Inserted

(* The parts before and behind place i, put together, are a removal. *)
LEMMA JoinedDeletes ==
  ASSUME NEW f, NEW n \in Nat, NEW i \in 1 .. n, NEW front, NEW back,
         Part(front, f, 0, i - 1), Part(back, f, i, n - i),
         NEW h, Joined(h, front, i - 1, back, n - i)
  PROVE  Deleted(h, f, n, i)
<1>1. \A j \in 1 .. i - 1 : h[j] = f[j]
  BY DEF Part, Joined
<1>2. ASSUME NEW j \in i .. n - 1 PROVE h[j] = f[j + 1]
  <2>1. /\ j - i + 1 \in 1 .. n - i
        /\ (i - 1) + (j - i + 1) = j /\ i + (j - i + 1) = j + 1
    OBVIOUS
  <2>2. h[(i - 1) + (j - i + 1)] = back[j - i + 1]
    BY <2>1 DEF Joined
  <2>3. back[j - i + 1] = f[i + (j - i + 1)]
    BY <2>1 DEF Part
  <2> QED BY <2>1, <2>2, <2>3
<1> QED BY <1>1, <1>2 DEF Deleted

-----------------------------------------------------------------------------
(* Merging: p, of m places, goes into f, of n places, p[j] in front of f[b[j]] *)

Ascending(b, m, n) ==
  /\ \A j \in 1 .. m : b[j] \in 1 .. n + 1
  /\ \A j, l \in 1 .. m : j <= l => b[j] <= b[l]

\* Exactly j places of p go in front of f[x].
Before(b, m, x, j) == (j > 0 => b[j] <= x) /\ (j < m => x < b[j + 1])

Merged(g, f, n, p, m, b) ==
  /\ \A j \in 1 .. m : g[j - 1 + b[j]] = p[j]
  /\ \A x \in 1 .. n, j \in 0 .. m : Before(b, m, x, j) => g[x + j] = f[x]

(* Every place of the merged list comes from p or from f, and from one only. *)
LEMMA MergePlaces ==
  ASSUME NEW n \in Nat, NEW m \in Nat, NEW b, Ascending(b, m, n), NEW i \in 1 .. n + m
  PROVE  \E j \in 0 .. m :
           /\ \A l \in 1 .. m : l - 1 + b[l] <= i <=> l <= j
           /\ \/ j > 0 /\ i = j - 1 + b[j]
              \/ /\ \A l \in 1 .. m : l - 1 + b[l] # i
                 /\ i - j \in 1 .. n /\ Before(b, m, i - j, j)
<1> DEFINE T == {l \in 1 .. m + 1 : l <= m => l - 1 + b[l] > i}
<1>1. m + 1 \in T /\ T \subseteq Nat
  OBVIOUS
<1>2. PICK a \in T : \A y \in T : a <= y
  BY <1>1, LeastNatural
<1> DEFINE j == a - 1
<1>3. j \in 0 .. m /\ (\A l \in 1 .. j : l - 1 + b[l] <= i) /\ (j < m => j + b[j + 1] > i)
  <2>1. ASSUME NEW l \in 1 .. a - 1 PROVE l - 1 + b[l] <= i
    <3>1. l \notin T /\ l \in 1 .. m
      BY <1>2
    <3> QED BY <3>1 DEF Ascending
  <2> QED BY <1>2, <2>1
<1> HIDE DEF T, j
<1>4. ASSUME NEW l \in 1 .. m PROVE l - 1 + b[l] <= i <=> l <= j
  <2>1. CASE l <= j
    BY <1>3, <2>1
  <2>2. CASE l > j
    <3>1. j + 1 \in 1 .. m /\ j + b[j + 1] > i /\ b[j + 1] <= b[l] /\ b[j + 1] \in Int /\ b[l] \in Int
      BY <1>3, <2>2 DEF Ascending
    <3> QED BY <1>3, <2>2, <3>1
  <2> QED BY <1>3, <2>1, <2>2
<1>5. CASE \E l \in 1 .. m : l - 1 + b[l] = i
  <2>1. PICK l \in 1 .. m : l - 1 + b[l] = i
    BY <1>5
  <2>2. l <= j
    BY <1>4, <2>1 DEF Ascending
  <2>3. l = j
    <3>1. SUFFICES ASSUME l < j PROVE FALSE
      BY <1>3, <2>2
    <3>2. j \in 1 .. m /\ b[l] <= b[j] /\ j - 1 + b[j] <= i /\ b[l] \in Int /\ b[j] \in Int
      BY <1>3, <3>1 DEF Ascending
    <3> QED BY <1>3, <2>1, <3>1, <3>2
  <2> QED BY <1>3, <1>4, <2>1, <2>3
<1>6. CASE \A l \in 1 .. m : l - 1 + b[l] # i
  <2>1. j > 0 => b[j] <= i - j /\ b[j] \in Int /\ b[j] >= 1
    BY <1>3, <1>6 DEF Ascending
  <2>2. j < m => i - j < b[j + 1] /\ b[j + 1] \in Int /\ b[j + 1] <= n + 1
    BY <1>3 DEF Ascending
  <2>3. i - j \in 1 .. n
    BY <1>3, <2>1, <2>2
  <2> QED BY <1>3, <1>4, <1>6, <2>1, <2>2, <2>3 DEF Before
<1> QED BY <1>5, <1>6

(* Every ready place has a number of pending tasks that are merged in before it. *)
LEMMA SomeBefore ==
  ASSUME NEW n \in Nat, NEW m \in Nat, NEW b, Ascending(b, m, n), NEW x \in 1 .. n
  PROVE  \E j \in 0 .. m : Before(b, m, x, j)
<1> DEFINE T == {l \in 1 .. m + 1 : l <= m => b[l] > x}
<1>1. m + 1 \in T /\ T \subseteq Nat
  OBVIOUS
<1>2. PICK a \in T : \A y \in T : a <= y
  BY <1>1, LeastNatural
<1>3. a - 1 > 0 => a - 1 \in 1 .. m /\ a - 1 \notin T
  BY <1>2
<1>4. a - 1 > 0 => b[a - 1] <= x
  BY <1>3 DEF Ascending
<1>5. a - 1 < m => x < b[(a - 1) + 1]
  BY <1>2
<1> QED BY <1>2, <1>4, <1>5 DEF Before

\* Place i of the merged list holds p[j], or it holds f[x] with j places of p before it.
FromP(g, p, b, i, j) == i = j - 1 + b[j] /\ g[i] = p[j]

FromF(g, f, b, m, i, x, j) == i = x + j /\ Before(b, m, x, j) /\ g[i] = f[x]

(* Every place of a merged list comes from one of the two lists. *)
LEMMA MergedFrom ==
  ASSUME NEW n \in Nat, NEW m \in Nat, NEW b, Ascending(b, m, n),
         NEW f, NEW p, NEW g, Merged(g, f, n, p, m, b), NEW i \in 1 .. n + m
  PROVE  \/ \E j \in 1 .. m : FromP(g, p, b, i, j)
         \/ \E x \in 1 .. n, j \in 0 .. m : FromF(g, f, b, m, i, x, j)
<1>1. PICK j \in 0 .. m :
        \/ j > 0 /\ i = j - 1 + b[j]
        \/ i - j \in 1 .. n /\ Before(b, m, i - j, j)
  BY MergePlaces
<1>2. CASE j > 0 /\ i = j - 1 + b[j]
  BY <1>2 DEF Merged, FromP
<1>3. CASE i - j \in 1 .. n /\ Before(b, m, i - j, j)
  <2>1. g[(i - j) + j] = f[i - j] /\ (i - j) + j = i
    BY <1>3 DEF Merged
  <2> QED BY <1>3, <2>1 DEF FromF
<1> QED BY <1>1, <1>2, <1>3

(* Of two places of the merged list the earlier one comes from the earlier place *)
(* of p or of f; p[j] is behind f[x] exactly when x < b[j].                       *)
LEMMA MergedOrder ==
  ASSUME NEW n \in Nat, NEW m \in Nat, NEW b, Ascending(b, m, n),
         NEW f, NEW p, NEW g, NEW i1 \in 1 .. n + m, NEW i2 \in 1 .. n + m, i1 < i2
  PROVE  /\ \A j1, j2 \in 1 .. m : FromP(g, p, b, i1, j1) /\ FromP(g, p, b, i2, j2) => j1 < j2
         /\ \A x1, x2 \in 1 .. n, j1, j2 \in 0 .. m :
              FromF(g, f, b, m, i1, x1, j1) /\ FromF(g, f, b, m, i2, x2, j2) => x1 < x2
         /\ \A j1 \in 1 .. m, x2 \in 1 .. n, j2 \in 0 .. m :
              FromP(g, p, b, i1, j1) /\ FromF(g, f, b, m, i2, x2, j2) => b[j1] <= x2
         /\ \A x1 \in 1 .. n, j1 \in 0 .. m, j2 \in 1 .. m :
              FromF(g, f, b, m, i1, x1, j1) /\ FromP(g, p, b, i2, j2) => x1 < b[j2]
<1>1. /\ \A j \in 1 .. m : b[j] \in Int
      /\ \A j, l \in 1 .. m : j <= l => b[j] <= b[l]
  BY DEF Ascending
<1>2. ASSUME NEW j1 \in 1 .. m, NEW j2 \in 1 .. m,
             FromP(g, p, b, i1, j1), FromP(g, p, b, i2, j2)
      PROVE  j1 < j2
  BY <1>1, <1>2 DEF FromP
<1>3. ASSUME NEW x1 \in 1 .. n, NEW x2 \in 1 .. n, NEW j1 \in 0 .. m, NEW j2 \in 0 .. m,
             FromF(g, f, b, m, i1, x1, j1), FromF(g, f, b, m, i2, x2, j2)
      PROVE  x1 < x2
  <2>1. j1 >= j2 => x1 < x2
    BY <1>3 DEF FromF
  <2>2. j1 < j2 => x1 < b[j1 + 1] /\ b[j2] <= x2 /\ j1 + 1 \in 1 .. m /\ j2 \in 1 .. m /\ j1 + 1 <= j2
    BY <1>3 DEF FromF, Before
  <2>3. j1 < j2 => b[j1 + 1] <= b[j2] /\ b[j1 + 1] \in Int /\ b[j2] \in Int
    BY <1>1, <2>2
  <2> QED BY <2>1, <2>2, <2>3
<1>4. ASSUME NEW j1 \in 1 .. m, NEW x2 \in 1 .. n, NEW j2 \in 0 .. m,
             FromP(g, p, b, i1, j1), FromF(g, f, b, m, i2, x2, j2)
      PROVE  b[j1] <= x2
  <2>1. j1 <= j2 => b[j1] <= b[j2] /\ b[j2] <= x2 /\ b[j1] \in Int /\ b[j2] \in Int
    BY <1>1, <1>4 DEF FromF, Before
  <2>2. j1 > j2 => b[j1] <= x2
    BY <1>1, <1>4 DEF FromF, FromP
  <2> QED BY <2>1, <2>2
<1>5. ASSUME NEW x1 \in 1 .. n, NEW j1 \in 0 .. m, NEW j2 \in 1 .. m,
             FromF(g, f, b, m, i1, x1, j1), FromP(g, p, b, i2, j2)
      PROVE  x1 < b[j2]
  <2>1. j1 < j2 => x1 < b[j1 + 1] /\ j1 + 1 \in 1 .. m /\ j1 + 1 <= j2
    BY <1>5 DEF FromF, Before
  <2>2. j1 < j2 => b[j1 + 1] <= b[j2] /\ b[j1 + 1] \in Int /\ b[j2] \in Int
    BY <1>1, <2>1
  <2>3. j1 >= j2 => x1 < b[j2]
    BY <1>1, <1>5 DEF FromF, FromP
  <2> QED BY <2>1, <2>2, <2>3
<1> QED BY <1>2, <1>3, <1>4, <1>5

(* A merge holds what the two lists hold, without duplicates if they have none in     *)
(* common, and in order of priority if each pending task stands in front of the first *)
(* ready task that ranks below it.                                                    *)
LEMMA MergedKeeps ==
  ASSUME NEW n \in Nat, NEW m \in Nat, NEW b, Ascending(b, m, n),
         NEW f, NEW p, NEW g, Merged(g, f, n, p, m, b)
  PROVE  /\ \A t : Holds(g, n + m, t) <=> Holds(f, n, t) \/ Holds(p, m, t)
         /\ Distinct(f, n) /\ Distinct(p, m) /\ (\A t : ~(Holds(f, n, t) /\ Holds(p, m, t)))
              => Distinct(g, n + m)
         /\ \A prio :
              /\ Descending(f, n, prio) /\ \A x \in 1 .. n : prio[f[x]] \in Int
              /\ Descending(p, m, prio) /\ \A j \in 1 .. m : prio[p[j]] \in Int
              /\ \A j \in 1 .. m : /\ \A x \in 1 .. b[j] - 1 : prio[p[j]] <= prio[f[x]]
                                   /\ b[j] <= n => prio[f[b[j]]] < prio[p[j]]
              => Descending(g, n + m, prio)
<1> DEFINE P(i, j)    == FromP(g, p, b, i, j)
           F(i, x, j) == FromF(g, f, b, m, i, x, j)
<1>0. \A j \in 1 .. m : b[j] \in 1 .. n + 1
  BY DEF Ascending
<1>1. \A i \in 1 .. n + m :
        \/ \E j \in 1 .. m : P(i, j)
        \/ \E x \in 1 .. n, j \in 0 .. m : F(i, x, j)
  BY MergedFrom
<1>2. ASSUME NEW t PROVE Holds(g, n + m, t) <=> Holds(f, n, t) \/ Holds(p, m, t)
  <2>1. \A j \in 1 .. m : j - 1 + b[j] \in 1 .. n + m /\ g[j - 1 + b[j]] = p[j]
    BY <1>0 DEF Merged
  <2>2. ASSUME NEW x \in 1 .. n PROVE \E i \in 1 .. n + m : g[i] = f[x]
    <3>1. PICK j \in 0 .. m : Before(b, m, x, j)
      BY SomeBefore
    <3>2. g[x + j] = f[x] /\ x + j \in 1 .. n + m
      BY <3>1 DEF Merged
    <3> QED BY <3>2
  <2>3. \A i \in 1 .. n + m : (\E j \in 1 .. m : g[i] = p[j]) \/ (\E x \in 1 .. n : g[i] = f[x])
    BY <1>1 DEF FromP, FromF
  <2> QED BY <2>1, <2>2, <2>3 DEF Holds
<1>3. ASSUME Distinct(f, n), Distinct(p, m), \A t : ~(Holds(f, n, t) /\ Holds(p, m, t))
      PROVE  Distinct(g, n + m)
  <2> SUFFICES ASSUME NEW i1 \in 1 .. n + m, NEW i2 \in 1 .. n + m, i1 < i2
               PROVE  g[i1] # g[i2]
    BY DEF Distinct
  <2>1. ASSUME NEW j1 \in 1 .. m, NEW j2 \in 1 .. m, P(i1, j1), P(i2, j2)
        PROVE  g[i1] # g[i2]
    <3>1. j1 < j2
      BY <2>1, MergedOrder
    <3> QED BY <1>3, <2>1, <3>1 DEF Distinct, FromP
  <2>2. ASSUME NEW x1 \in 1 .. n, NEW j1 \in 0 .. m, NEW x2 \in 1 .. n, NEW j2 \in 0 .. m,
               F(i1, x1, j1), F(i2, x2, j2)
        PROVE  g[i1] # g[i2]
    <3>1. x1 < x2
      BY <2>2, MergedOrder
    <3> QED BY <1>3, <2>2, <3>1 DEF Distinct, FromF
  <2>3. \A i, l \in 1 .. n + m : (\E j \in 1 .. m : P(i, j)) /\ (\E x \in 1 .. n, j \in 0 .. m : F(l, x, j))
          => g[i] # g[l]
    BY <1>3 DEF Holds, FromP, FromF
  <2> HIDE DEF P, F
  <2> QED BY <1>1, <2>1, <2>2, <2>3
<1>4. ASSUME NEW prio,
             Descending(f, n, prio), \A x \in 1 .. n : prio[f[x]] \in Int,
             Descending(p, m, prio), \A j \in 1 .. m : prio[p[j]] \in Int,
             \A j \in 1 .. m : /\ \A x \in 1 .. b[j] - 1 : prio[p[j]] <= prio[f[x]]
                               /\ b[j] <= n => prio[f[b[j]]] < prio[p[j]]
      PROVE  Descending(g, n + m, prio)
  <2> SUFFICES ASSUME NEW i1 \in 1 .. n + m, NEW i2 \in 1 .. n + m, i1 < i2
               PROVE  prio[g[i1]] >= prio[g[i2]]
    BY DEF Descending
  <2>1. ASSUME NEW j1 \in 1 .. m, NEW j2 \in 1 .. m, P(i1, j1), P(i2, j2)
        PROVE  prio[g[i1]] >= prio[g[i2]]
    <3>1. j1 < j2
      BY <2>1, MergedOrder
    <3> QED BY <1>4, <2>1, <3>1 DEF Descending, FromP
  <2>2. ASSUME NEW x1 \in 1 .. n, NEW j1 \in 0 .. m, NEW x2 \in 1 .. n, NEW j2 \in 0 .. m,
               F(i1, x1, j1), F(i2, x2, j2)
        PROVE  prio[g[i1]] >= prio[g[i2]]
    <3>1. x1 < x2
      BY <2>2, MergedOrder
    <3> QED BY <1>4, <2>2, <3>1 DEF Descending, FromF
  <2>3. ASSUME NEW j1 \in 1 .. m, NEW x2 \in 1 .. n, NEW j2 \in 0 .. m, P(i1, j1), F(i2, x2, j2)
        PROVE  prio[g[i1]] >= prio[g[i2]]
    <3>0. b[j1] <= x2
      BY <2>3, MergedOrder
    <3>1. b[j1] <= x2 /\ b[j1] \in 1 .. n
      BY <1>0, <3>0
    <3>2. prio[f[b[j1]]] < prio[p[j1]] /\ prio[f[b[j1]]] >= prio[f[x2]]
      BY <1>4, <3>1 DEF Descending
    <3> QED BY <1>4, <2>3, <3>1, <3>2 DEF FromP, FromF
  <2>4. ASSUME NEW x1 \in 1 .. n, NEW j1 \in 0 .. m, NEW j2 \in 1 .. m, F(i1, x1, j1), P(i2, j2)
        PROVE  prio[g[i1]] >= prio[g[i2]]
    <3>1. x1 < b[j2]
      BY <2>4, MergedOrder
    <3>2. x1 \in 1 .. b[j2] - 1
      BY <1>0, <3>1
    <3> QED BY <1>4, <2>4, <3>2 DEF FromP, FromF
  <2> HIDE DEF P, F
  <2> QED BY <1>1, <2>1, <2>2, <2>3, <2>4
<1> QED BY <1>2, <1>3, <1>4

-----------------------------------------------------------------------------
(* Lists, as sequences of tasks *)

(* The length and the elements of a list of tasks. *)
LEMMA ListElements ==
  ASSUME NEW list \in Seq(Task)
  PROVE  Len(list) \in Nat /\ \A j \in 1 .. Len(list) : list[j] \in Task
  OBVIOUS

(* A function on 1 .. n with tasks as values is a list of length n. *)
LEMMA PlacesMakeList ==
  ASSUME NEW g, NEW n \in Nat, g = [i \in 1 .. n |-> g[i]], \A i \in 1 .. n : g[i] \in Task
  PROVE  g \in Seq(Task) /\ Len(g) = n
<1>1. g \in [1 .. n -> Task]
  OBVIOUS
<1>2. g \in Seq(Task)
  BY <1>1, SeqDef
<1>3. DOMAIN g = 1 .. n /\ DOMAIN g = 1 .. Len(g) /\ Len(g) \in Nat
  BY <1>1, <1>2, LenProperties
<1> QED BY <1>2, <1>3

(* Concatenation as a statement about places. *)
LEMMA ConcatJoins ==
  ASSUME NEW s \in Seq(Task), NEW t \in Seq(Task)
  PROVE  /\ s \o t \in Seq(Task)
         /\ Len(s \o t) = Len(s) + Len(t)
         /\ Joined(s \o t, s, Len(s), t, Len(t))
  BY DEF Joined

(* SubSeq as a statement about places. *)
LEMMA SubSeqPart ==
  ASSUME NEW list \in Seq(Task), NEW m \in 1 .. Len(list) + 1, NEW n \in m - 1 .. Len(list)
  PROVE  /\ SubSeq(list, m, n) \in Seq(Task)
         /\ Len(SubSeq(list, m, n)) = n - m + 1
         /\ Part(SubSeq(list, m, n), list, m - 1, n - m + 1)
<1>1. \A j \in m .. n : list[j] \in Task
  OBVIOUS
<1>2. \A j \in 1 .. n - m + 1 : SubSeq(list, m, n)[j] = list[m + j - 1]
  BY <1>1, SubSeqProperties
<1>3. SubSeq(list, m, n) \in Seq(Task) /\ Len(SubSeq(list, m, n)) = n - m + 1
  BY <1>1, SubSeqProperties
<1>4. \A j \in 1 .. n - m + 1 : m + j - 1 = (m - 1) + j
  OBVIOUS
<1> QED BY <1>2, <1>3, <1>4 DEF Part

(* InsertAt, as sched_addprioritized() uses it, is an insertion at its place. *)
LEMMA InsertAtInserts ==
  ASSUME NEW list \in Seq(Task), NEW tcb \in Task, NEW i \in 1 .. Len(list) + 1
  PROVE  /\ InsertAt(list, i, tcb) \in Seq(Task)
         /\ Len(InsertAt(list, i, tcb)) = Len(list) + 1
         /\ Inserted(InsertAt(list, i, tcb), list, Len(list), i, tcb)
<1> DEFINE n     == Len(list)
           front == SubSeq(list, 1, i - 1)
           back  == SubSeq(list, i, n)
           one   == front \o <<tcb>>
<1>1. front \in Seq(Task) /\ Len(front) = i - 1 /\ Part(front, list, 0, i - 1)
  BY SubSeqPart, ListElements
<1>2. back \in Seq(Task) /\ Len(back) = n - i + 1 /\ Part(back, list, i - 1, n - i + 1)
  BY SubSeqPart, ListElements
<1>3. <<tcb>> \in Seq(Task) /\ Len(<<tcb>>) = 1
  OBVIOUS
<1>4. InsertAt(list, i, tcb) = one \o back
  BY DEF InsertAt
<1> HIDE DEF front, back
<1>5. one \in Seq(Task) /\ Len(one) = i /\ Joined(one, front, i - 1, <<tcb>>, 1)
  <2>1. /\ one \in Seq(Task)
        /\ Len(one) = Len(front) + Len(<<tcb>>)
        /\ Joined(one, front, Len(front), <<tcb>>, Len(<<tcb>>))
    BY <1>1, <1>3, ConcatJoins, Zenon
  <2> QED BY <1>1, <1>3, <2>1
<1> HIDE DEF one
<1>6. /\ one \o back \in Seq(Task)
      /\ Len(one \o back) = n + 1
      /\ Joined(one \o back, one, i, back, n - i + 1)
  <2>1. /\ one \o back \in Seq(Task)
        /\ Len(one \o back) = Len(one) + Len(back)
        /\ Joined(one \o back, one, Len(one), back, Len(back))
    BY <1>2, <1>5, ConcatJoins, Zenon
  <2>2. Len(one) + Len(back) = n + 1
    BY <1>2, <1>5, ListElements
  <2> QED BY <1>2, <1>5, <2>1, <2>2, Zenon
<1>7. Inserted(one \o back, list, n, i, tcb)
  BY <1>1, <1>2, <1>5, <1>6, JoinedInserts, ListElements
<1> QED BY <1>4, <1>6, <1>7

(* RemoveAt, as dq_rem() uses it, is a removal of its place. *)
LEMMA RemoveAtDeletes ==
  ASSUME NEW list \in Seq(Task), NEW i \in 1 .. Len(list)
  PROVE  /\ RemoveAt(list, i) \in Seq(Task)
         /\ Len(RemoveAt(list, i)) = Len(list) - 1
         /\ Deleted(RemoveAt(list, i), list, Len(list), i)
<1> DEFINE n     == Len(list)
           front == SubSeq(list, 1, i - 1)
           back  == SubSeq(list, i + 1, n)
<1>1. front \in Seq(Task) /\ Len(front) = i - 1 /\ Part(front, list, 0, i - 1)
  BY SubSeqPart, ListElements
<1>2. back \in Seq(Task) /\ Len(back) = n - i /\ Part(back, list, i, n - i)
  <2>1. /\ i + 1 \in 1 .. n + 1 /\ n \in (i + 1) - 1 .. n
        /\ (i + 1) - 1 = i /\ n - (i + 1) + 1 = n - i
    BY ListElements
  <2>2. /\ back \in Seq(Task)
        /\ Len(back) = n - (i + 1) + 1
        /\ Part(back, list, (i + 1) - 1, n - (i + 1) + 1)
    BY <2>1, SubSeqPart, Zenon
  <2> QED BY <2>1, <2>2, Zenon
<1>3. RemoveAt(list, i) = front \o back
  BY DEF RemoveAt
<1> HIDE DEF front, back
<1>4. /\ front \o back \in Seq(Task)
      /\ Len(front \o back) = n - 1
      /\ Joined(front \o back, front, i - 1, back, n - i)
  <2>1. /\ front \o back \in Seq(Task)
        /\ Len(front \o back) = Len(front) + Len(back)
        /\ Joined(front \o back, front, Len(front), back, Len(back))
    BY <1>1, <1>2, ConcatJoins, Zenon
  <2>2. Len(front) + Len(back) = n - 1
    BY <1>1, <1>2, ListElements
  <2> QED BY <1>1, <1>2, <2>1, <2>2, Zenon
<1>5. Deleted(front \o back, list, n, i)
  BY <1>1, <1>2, <1>4, JoinedDeletes, ListElements
<1> QED BY <1>3, <1>4, <1>5

\* new is list with tcb put in by its priority.
Added(new, list, prio, tcb) ==
  /\ new \in Seq(Task)
  /\ Len(new) = Len(list) + 1
  /\ NoDuplicates(new)
  /\ Prioritized(new, prio)
  /\ \A t \in Task : InList(new, t) <=> InList(list, t) \/ t = tcb
  /\ Len(list) = 0 \/ prio[list[1]] < prio[tcb] => new[1] = tcb
  /\ Len(list) > 0 /\ ~(prio[list[1]] < prio[tcb]) => new[1] = list[1]
  /\ Len(list) > 0 /\ prio[list[Len(list)]] < prio[tcb] => new[Len(new)] = list[Len(list)]

(* sched_addprioritized() keeps a list in order of priority, adds the task and  *)
(* nothing else, makes it the head exactly when it outranks the old head, and   *)
(* leaves a last task of lower priority, IDLE, the last.                        *)
LEMMA AddPrioritized ==
  ASSUME NEW list \in Seq(Task), NEW prio \in [Task -> Int], NEW tcb \in Task,
         NoDuplicates(list), Prioritized(list, prio), ~InList(list, tcb)
  PROVE  Added(sched_addprioritized(list, prio, tcb), list, prio, tcb)
<1> DEFINE n   == Len(list)
           i   == FirstBelow(list, prio, prio[tcb])
           new == sched_addprioritized(list, prio, tcb)
<1>1. n \in Nat /\ \A j \in 1 .. n : list[j] \in Task
  BY ListElements
<1>2. /\ i \in 1 .. n + 1
      /\ \A j \in 1 .. i - 1 : prio[tcb] <= prio[list[j]]
      /\ i <= n => prio[list[i]] < prio[tcb]
  BY FirstBelowPlace
<1>3. new = InsertAt(list, i, tcb)
  BY DEF sched_addprioritized
<1> HIDE DEF i, new
<1>4. new \in Seq(Task) /\ Len(new) = n + 1 /\ Inserted(new, list, n, i, tcb)
  BY <1>2, <1>3, InsertAtInserts
<1>5. Distinct(list, n) /\ Descending(list, n, prio) /\ \A j \in 1 .. n : list[j] # tcb
  BY DEF NoDuplicates, Distinct, Prioritized, Descending, InList
<1>6. prio[tcb] \in Int /\ \A j \in 1 .. n : prio[list[j]] \in Int
  BY <1>1
<1>7. Distinct(new, n + 1)
  BY <1>1, <1>2, <1>4, <1>5, InsertedKeeps
<1>8. Descending(new, n + 1, prio)
  BY <1>1, <1>2, <1>4, <1>5, <1>6, InsertedKeeps, Zenon
<1>9. \A t : Holds(new, n + 1, t) <=> t = tcb \/ Holds(list, n, t)
  BY <1>1, <1>2, <1>4, InsertedHolds
<1>10. \A j \in 1 .. n + 1 : new[j] = IF j < i THEN list[j] ELSE IF j = i THEN tcb ELSE list[j - 1]
  BY <1>4 DEF Inserted
<1>11. /\ n = 0 \/ prio[list[1]] < prio[tcb] => new[1] = tcb
       /\ n > 0 /\ ~(prio[list[1]] < prio[tcb]) => new[1] = list[1]
  <2> HIDE DEF n
  <2> QED BY <1>1, <1>2, <1>6, <1>10
<1>12. n > 0 /\ prio[list[n]] < prio[tcb] => new[n + 1] = list[n]
  <2> HIDE DEF n
  <2> QED BY <1>1, <1>2, <1>6, <1>10
<1>13. NoDuplicates(new) /\ Prioritized(new, prio)
  BY <1>4, <1>7, <1>8, Zenon DEF NoDuplicates, Distinct, Prioritized, Descending
<1>14. \A t \in Task : InList(new, t) <=> InList(list, t) \/ t = tcb
  BY <1>4, <1>9, Zenon DEF InList, Holds
<1> QED BY <1>4, <1>11, <1>12, <1>13, <1>14, Zenon DEF new, Added

\* new is list without tcb.
Removed(new, list, tcb) ==
  /\ new \in Seq(Task)
  /\ Len(new) = Len(list) - 1
  /\ NoDuplicates(new)
  /\ \A prio : Prioritized(list, prio) => Prioritized(new, prio)
  /\ \A t \in Task : InList(new, t) <=> InList(list, t) /\ t # tcb
  /\ list[1] # tcb => new[1] = list[1]
  /\ list[Len(list)] # tcb => Len(new) > 0 /\ new[Len(new)] = list[Len(list)]

(* dq_rem() takes the task out of a list that holds it and keeps the rest in order. *)
LEMMA DqRem ==
  ASSUME NEW list \in Seq(Task), NEW tcb \in Task, NoDuplicates(list), InList(list, tcb)
  PROVE  Removed(dq_rem(list, tcb), list, tcb)
<1> DEFINE n   == Len(list)
           i   == CHOOSE i \in 1 .. n : list[i] = tcb
           new == dq_rem(list, tcb)
<1>1. n \in Nat /\ \A j \in 1 .. n : list[j] \in Task
  BY ListElements
<1>2. i \in 1 .. n /\ list[i] = tcb
  BY DEF InList
<1>3. new = RemoveAt(list, i)
  BY DEF dq_rem
<1> HIDE DEF i, new
<1>4. new \in Seq(Task) /\ Len(new) = n - 1 /\ Deleted(new, list, n, i)
  BY <1>2, <1>3, RemoveAtDeletes
<1>5. Distinct(list, n)
  BY DEF NoDuplicates, Distinct
<1>6. /\ Distinct(new, n - 1)
      /\ \A t : Holds(new, n - 1, t) <=> t # list[i] /\ Holds(list, n, t)
      /\ \A prio : Descending(list, n, prio) => Descending(new, n - 1, prio)
  BY <1>1, <1>2, <1>4, <1>5, DeletedKeeps
<1>7. list[1] # tcb => new[1] = list[1]
  <2> HIDE DEF n
  <2> QED BY <1>1, <1>2, <1>4 DEF Deleted
<1>8. list[n] # tcb => n - 1 > 0 /\ new[n - 1] = list[n]
  <2> HIDE DEF n
  <2> QED BY <1>1, <1>2, <1>4 DEF Deleted
<1>9. NoDuplicates(new) /\ \A prio : Prioritized(list, prio) => Prioritized(new, prio)
  BY <1>4, <1>6, Zenon DEF NoDuplicates, Distinct, Prioritized, Descending
<1>10. \A t \in Task : InList(new, t) <=> InList(list, t) /\ t # tcb
  BY <1>2, <1>4, <1>6, Zenon DEF InList, Holds
<1> QED BY <1>4, <1>7, <1>8, <1>9, <1>10, Zenon DEF new, Removed

\* The place of g_readytorun in front of which each pending task goes.
FrontOf(ready, prio, pending) ==
  [j \in 1 .. Len(pending) |-> FirstBelow(ready, prio, prio[pending[j]])]

(* The places sched_mergepending() finds for the pending tasks never go back and rank *)
(* each pending task correctly among the ready ones.                                  *)
LEMMA FrontOfAscends ==
  ASSUME NEW ready \in Seq(Task), NEW pending \in Seq(Task), NEW prio \in [Task -> Int],
         Prioritized(pending, prio)
  PROVE  LET b == FrontOf(ready, prio, pending)
         IN  /\ Ascending(b, Len(pending), Len(ready))
             /\ \A j \in 1 .. Len(pending) :
                  /\ \A x \in 1 .. b[j] - 1 : prio[pending[j]] <= prio[ready[x]]
                  /\ b[j] <= Len(ready) => prio[ready[b[j]]] < prio[pending[j]]
<1> DEFINE n == Len(ready)
           m == Len(pending)
           b == FrontOf(ready, prio, pending)
<1>1. /\ n \in Nat /\ \A x \in 1 .. n : ready[x] \in Task
      /\ m \in Nat /\ \A j \in 1 .. m : pending[j] \in Task
  BY ListElements
<1>2. /\ \A x \in 1 .. n : prio[ready[x]] \in Int
      /\ \A j \in 1 .. m : prio[pending[j]] \in Int
  BY <1>1
<1>3. ASSUME NEW j \in 1 .. m
      PROVE  /\ b[j] \in 1 .. n + 1
             /\ \A x \in 1 .. b[j] - 1 : prio[pending[j]] <= prio[ready[x]]
             /\ b[j] <= n => prio[ready[b[j]]] < prio[pending[j]]
  <2>1. b[j] = FirstBelow(ready, prio, prio[pending[j]])
    BY DEF FrontOf
  <2> HIDE DEF b
  <2> QED BY <1>2, <2>1, FirstBelowPlace
<1>4. \A j, l \in 1 .. m : j < l => prio[pending[j]] >= prio[pending[l]]
  BY DEF Prioritized
<1> HIDE DEF n, m, b
<1>5. ASSUME NEW j \in 1 .. m, NEW l \in 1 .. m, j <= l PROVE b[j] <= b[l]
  <2> SUFFICES ASSUME b[l] < b[j] PROVE FALSE
    BY <1>3
  <2>1. b[l] \in 1 .. b[j] - 1 /\ b[l] \in 1 .. n
    BY <1>1, <1>3
  <2>2. prio[pending[j]] <= prio[ready[b[l]]] /\ prio[ready[b[l]]] < prio[pending[l]]
    BY <1>3, <2>1
  <2>3. prio[pending[j]] >= prio[pending[l]]
    BY <1>2, <1>4, <1>5
  <2> QED BY <1>2, <2>1, <2>2, <2>3
<1>6. Ascending(b, m, n)
  BY <1>3, <1>5 DEF Ascending
<1> QED BY <1>3, <1>6 DEF n, m, b

(* MergedBy counts an initial part of the pending tasks. *)
LEMMA CountBelow ==
  ASSUME NEW m \in Nat, NEW j \in 0 .. m, NEW S, S = 1 .. j
  PROVE  Cardinality(S) = j
<1>1. Cardinality(1 .. j) = IF 1 > j THEN 0 ELSE j - 1 + 1
  BY FS_Interval
<1> QED BY <1>1

(* What sched_mergepending() computes is a merge of the two lists at those places. *)
LEMMA MergedListMerges ==
  ASSUME NEW k, k.readytorun \in Seq(Task), k.pendingtasks \in Seq(Task),
         k.sched_priority \in [Task -> Int], Prioritized(k.pendingtasks, k.sched_priority)
  PROVE  Merged(MergedList(k), k.readytorun, Len(k.readytorun), k.pendingtasks,
                Len(k.pendingtasks), FrontOf(k.readytorun, k.sched_priority, k.pendingtasks))
<1> DEFINE n == Len(k.readytorun)
           m == Len(k.pendingtasks)
           b == FrontOf(k.readytorun, k.sched_priority, k.pendingtasks)
           g == MergedList(k)
<1>1. n \in Nat /\ m \in Nat
  BY ListElements
<1>2. Ascending(b, m, n)
  BY FrontOfAscends
<1>3. \A j \in 1 .. m : MergePlace(k, j) = j - 1 + b[j]
  BY DEF MergePlace, FrontOf
<1>4. \A i : MergedBy(k, i) = Cardinality({j \in 1 .. m : MergePlace(k, j) <= i})
  BY DEF MergedBy
<1>5. \A i \in 1 .. n + m :
        g[i] = IF \E j \in 1 .. m : MergePlace(k, j) = i
               THEN k.pendingtasks[MergedBy(k, i)]
               ELSE k.readytorun[i - MergedBy(k, i)]
  BY DEF MergedList
<1> HIDE DEF n, m, b, g
<1>6. /\ \A j \in 1 .. m : b[j] \in 1 .. n + 1
      /\ \A j, l \in 1 .. m : j <= l => b[j] <= b[l]
  BY <1>2 DEF Ascending
<1>7. ASSUME NEW i \in Int, NEW j \in 0 .. m, \A l \in 1 .. m : l - 1 + b[l] <= i <=> l <= j
      PROVE  MergedBy(k, i) = j
  <2>1. {l \in 1 .. m : MergePlace(k, l) <= i} = 1 .. j
    BY <1>1, <1>3, <1>7
  <2> QED BY <1>1, <1>4, <2>1, CountBelow
<1>8. ASSUME NEW j \in 1 .. m PROVE g[j - 1 + b[j]] = k.pendingtasks[j]
  <2> DEFINE i == j - 1 + b[j]
  <2>1. i \in 1 .. n + m /\ i \in Int
    BY <1>1, <1>6
  <2>2. \A l \in 1 .. m : l - 1 + b[l] <= i <=> l <= j
    BY <1>1, <1>6
  <2>3. MergedBy(k, i) = j
    BY <1>1, <1>7, <2>1, <2>2
  <2>4. \E l \in 1 .. m : MergePlace(k, l) = i
    BY <1>3
  <2> HIDE DEF i
  <2>5. g[i] = k.pendingtasks[j]
    BY <1>5, <2>1, <2>3, <2>4
  <2> QED BY <2>5 DEF i
<1>9. ASSUME NEW x \in 1 .. n, NEW j \in 0 .. m, Before(b, m, x, j)
      PROVE  g[x + j] = k.readytorun[x]
  <2>1. x + j \in 1 .. n + m /\ x + j \in Int /\ (x + j) - j = x
    BY <1>1
  <2>2. ASSUME NEW l \in 1 .. m PROVE (l - 1 + b[l] <= x + j <=> l <= j) /\ l - 1 + b[l] # x + j
    <3>1. CASE l <= j
      <4>1. j \in 1 .. m /\ b[l] <= b[j] /\ b[j] <= x /\ b[l] \in Int /\ b[j] \in Int
        BY <1>1, <1>6, <1>9, <3>1 DEF Before
      <4> QED BY <1>1, <3>1, <4>1
    <3>2. CASE l > j
      <4>1. j + 1 \in 1 .. m /\ x < b[j + 1] /\ b[j + 1] <= b[l] /\ b[l] \in Int /\ b[j + 1] \in Int
        BY <1>1, <1>6, <1>9, <3>2 DEF Before
      <4> QED BY <1>1, <3>2, <4>1
    <3> QED BY <1>1, <3>1, <3>2
  <2>3. MergedBy(k, x + j) = j
    BY <1>1, <1>7, <2>1, <2>2
  <2>4. ~\E l \in 1 .. m : MergePlace(k, l) = x + j
    BY <1>3, <2>2
  <2> QED BY <1>5, <2>1, <2>3, <2>4
<1>10. Merged(g, k.readytorun, n, k.pendingtasks, m, b)
  BY <1>8, <1>9 DEF Merged
<1> QED BY <1>10 DEF n, m, b, g

\* new holds the ready and the pending tasks.
MergeOf(new, ready, pending, prio) ==
  /\ new \in Seq(Task)
  /\ Len(new) = Len(ready) + Len(pending)
  /\ NoDuplicates(new)
  /\ Prioritized(new, prio)
  /\ \A t \in Task : InList(new, t) <=> InList(ready, t) \/ InList(pending, t)
  /\ new[1] = IF Len(pending) > 0 /\ prio[ready[1]] < prio[pending[1]]
              THEN pending[1] ELSE ready[1]
  /\ (\A j \in 1 .. Len(pending) : prio[ready[Len(ready)]] < prio[pending[j]])
       => new[Len(new)] = ready[Len(ready)]

(* The merged list holds exactly the ready and the pending tasks, each once, in  *)
(* order of priority.  Its head is the first pending task when that outranks the *)
(* old head, and a last ready task that all pending tasks outrank stays last.    *)
LEMMA MergedListKeeps ==
  ASSUME NEW k, k.readytorun \in Seq(Task), k.pendingtasks \in Seq(Task),
         k.sched_priority \in [Task -> Int],
         Prioritized(k.readytorun, k.sched_priority), NoDuplicates(k.readytorun),
         Prioritized(k.pendingtasks, k.sched_priority), NoDuplicates(k.pendingtasks),
         \A t \in Task : ~(InList(k.readytorun, t) /\ InList(k.pendingtasks, t)),
         Len(k.readytorun) > 0
  PROVE  MergeOf(MergedList(k), k.readytorun, k.pendingtasks, k.sched_priority)
<1> DEFINE f == k.readytorun
           p == k.pendingtasks
           prio == k.sched_priority
           n == Len(f)
           m == Len(p)
           b == FrontOf(f, prio, p)
           g == MergedList(k)
<1>1. /\ n \in Nat /\ \A x \in 1 .. n : f[x] \in Task
      /\ m \in Nat /\ \A j \in 1 .. m : p[j] \in Task
  BY ListElements
<1>2. /\ \A x \in 1 .. n : prio[f[x]] \in Int
      /\ \A j \in 1 .. m : prio[p[j]] \in Int
  BY <1>1
<1>3. /\ Ascending(b, m, n)
      /\ \A j \in 1 .. m : /\ \A x \in 1 .. b[j] - 1 : prio[p[j]] <= prio[f[x]]
                           /\ b[j] <= n => prio[f[b[j]]] < prio[p[j]]
  BY FrontOfAscends
<1>4. Merged(g, f, n, p, m, b)
  BY MergedListMerges
<1>5. g = [i \in 1 .. n + m |-> g[i]]
  BY DEF MergedList
<1>6. /\ Distinct(f, n) /\ Descending(f, n, prio)
      /\ Distinct(p, m) /\ Descending(p, m, prio)
  BY DEF NoDuplicates, Distinct, Prioritized, Descending
<1>7. \A t : ~(Holds(f, n, t) /\ Holds(p, m, t))
  BY <1>1 DEF Holds, InList
<1>8. n > 0
  OBVIOUS
<1>9. \A t \in Task : (InList(f, t) <=> Holds(f, n, t)) /\ (InList(p, t) <=> Holds(p, m, t))
  BY DEF InList, Holds
<1> HIDE DEF f, p, prio, n, m, b, g
<1>10. /\ \A t : Holds(g, n + m, t) <=> Holds(f, n, t) \/ Holds(p, m, t)
       /\ Distinct(g, n + m)
  BY <1>1, <1>3, <1>4, <1>6, <1>7, MergedKeeps
<1>11. Descending(g, n + m, prio)
  BY <1>1, <1>2, <1>3, <1>4, <1>6, MergedKeeps
<1>12. g \in Seq(Task) /\ Len(g) = n + m
  <2>1. \A i \in 1 .. n + m : g[i] \in Task
    <3> TAKE i \in 1 .. n + m
    <3>1. Holds(f, n, g[i]) \/ Holds(p, m, g[i])
      BY <1>10 DEF Holds
    <3> QED BY <1>1, <3>1 DEF Holds
  <2> QED BY <1>1, <1>5, <2>1, PlacesMakeList
<1>13. g[1] = IF m > 0 /\ prio[f[1]] < prio[p[1]] THEN p[1] ELSE f[1]
  <2>1. CASE m > 0 /\ prio[f[1]] < prio[p[1]]
    <3>1. 1 \in 1 .. m /\ b[1] \in 1 .. n + 1
      BY <1>1, <1>3, <2>1 DEF Ascending
    <3>2. b[1] = 1
      <4> SUFFICES ASSUME b[1] # 1 PROVE FALSE
        OBVIOUS
      <4>1. 1 \in 1 .. b[1] - 1
        BY <1>1, <3>1
      <4>2. prio[p[1]] <= prio[f[1]]
        BY <1>3, <3>1, <4>1
      <4> QED BY <1>1, <1>2, <1>8, <2>1, <3>1, <4>2
    <3>3. g[1 - 1 + b[1]] = p[1]
      BY <1>4, <3>1 DEF Merged
    <3> QED BY <2>1, <3>2, <3>3
  <2>2. CASE m > 0 /\ ~(prio[f[1]] < prio[p[1]])
    <3>1. 1 \in 1 .. m /\ b[1] \in 1 .. n + 1
      BY <1>1, <1>3, <2>2 DEF Ascending
    <3>2. b[1] > 1
      <4> SUFFICES ASSUME b[1] = 1 PROVE FALSE
        BY <1>1, <3>1
      <4>1. b[1] <= n => prio[f[b[1]]] < prio[p[1]]
        BY <1>3, <3>1
      <4> QED BY <1>1, <1>8, <2>2, <4>1
    <3>3. Before(b, m, 1, 0)
      BY <3>2 DEF Before
    <3>4. g[1 + 0] = f[1]
      BY <1>1, <1>4, <1>8, <3>3 DEF Merged
    <3> QED BY <2>2, <3>4
  <2>3. CASE ~(m > 0)
    <3>1. Before(b, m, 1, 0)
      BY <2>3 DEF Before
    <3>2. g[1 + 0] = f[1]
      BY <1>1, <1>4, <1>8, <3>1 DEF Merged
    <3> QED BY <2>3, <3>2
  <2> QED BY <2>1, <2>2, <2>3
<1>14. ASSUME \A j \in 1 .. m : prio[f[n]] < prio[p[j]]
       PROVE  g[n + m] = f[n]
  <2>1. m > 0 => b[m] <= n
    <3> SUFFICES ASSUME m > 0, b[m] > n PROVE FALSE
      BY <1>1, <1>3 DEF Ascending
    <3>1. m \in 1 .. m /\ n \in 1 .. b[m] - 1
      BY <1>1, <1>3, <1>8 DEF Ascending
    <3>2. prio[p[m]] <= prio[f[n]] /\ prio[f[n]] < prio[p[m]]
      BY <1>3, <1>14, <3>1
    <3> QED BY <1>1, <1>2, <1>8, <3>1, <3>2
  <2>2. Before(b, m, n, m)
    BY <1>1, <2>1 DEF Before
  <2> QED BY <1>1, <1>4, <1>8, <2>2 DEF Merged
<1>15. NoDuplicates(g) /\ Prioritized(g, prio)
  BY <1>10, <1>11, <1>12, Zenon DEF NoDuplicates, Distinct, Prioritized, Descending
<1>16. \A t \in Task : InList(g, t) <=> InList(f, t) \/ InList(p, t)
  BY <1>9, <1>10, <1>12, Zenon DEF InList, Holds
<1> QED BY <1>12, <1>13, <1>14, <1>15, <1>16, Zenon DEF f, p, prio, n, m, g, MergeOf

=============================================================================
