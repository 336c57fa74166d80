-------------------------- MODULE ServiceNodeProofs --------------------------
(***************************************************************************)
(* Proofs about the state of a service node.                               *)
(*                                                                         *)
(* Monitor, which the node tells of its new messages: subscriptions of a   *)
(* connection add up, and new messages are told to those who asked, for    *)
(* any accounts, connections, namespaces and subscriptions.                *)
(*                                                                         *)
(* ServiceNode: the swarm, peers and nodes of a node that serves are of    *)
(* one block, and syncing ends for good, for every chain, every set of     *)
(* seed nodes and any number of faults.                                    *)
(***************************************************************************)
EXTENDS ServiceNode, Monitor, WellFoundedInduction, TLAPS

\* The prover of every leaf that does not name another.
USE Zenon

-----------------------------------------------------------------------------
(***************************************************************************)
(* Loops.                                                                  *)
(***************************************************************************)

\* A set of numbers that is not empty has a least one.
LEMMA LeastNumber ==
    ASSUME NEW S \in SUBSET Nat, S # {}
    PROVE  \E x \in S : \A y \in S : x <= y
<1>1. PICK x \in S : \A y \in S : ~(<<y, x>> \in OpToRel(<, Nat))
  BY NatLessThanWellFounded, WFMin
<1>2. \A y \in S : ~(y < x)
  BY <1>1 DEF OpToRel
<1>3. QED
  BY <1>2, SMT

\* The function of a loop exists for every number of rounds.
LEMMA LoopExists ==
    ASSUME NEW round, NEW start, NEW n \in Nat
    PROVE  \E g : g = [k \in 0 .. n |-> IF k = 0 THEN start ELSE round[g[k - 1]]]
<1> DEFINE Runs(m) == \E g : g = [k \in 0 .. m |-> IF k = 0 THEN start ELSE round[g[k - 1]]]
           stuck == {m \in Nat : ~Runs(m)}
<1>1. stuck \in SUBSET Nat /\ \A m \in Nat : m \notin stuck => Runs(m)
  BY Zenon
<1>2. \A m \in stuck : ~Runs(m)
  BY Zenon
<1> HIDE DEF stuck
<1>3. SUFFICES ASSUME stuck # {} PROVE FALSE
  BY <1>1, Zenon
<1>4. PICK m \in stuck : \A y \in stuck : m <= y
  BY <1>1, <1>3, LeastNumber, Zenon
<1>5. m \in Nat
  BY <1>1, Zenon
<1>6. CASE m = 0
  <2> DEFINE g == [k \in 0 .. 0 |-> start]
  <2>1. g = [k \in 0 .. 0 |-> IF k = 0 THEN start ELSE round[g[k - 1]]]
    BY SMT
  <2> HIDE DEF g
  <2>2. QED
    BY <1>2, <1>6, <2>1, Zenon
<1>7. CASE m # 0
  <2>1. m - 1 \in Nat /\ m - 1 \notin stuck
    <3> HIDE DEF Runs
    <3> QED
      BY <1>4, <1>5, <1>7, SMT
  <2>2. PICK g : g = [k \in 0 .. m - 1 |-> IF k = 0 THEN start ELSE round[g[k - 1]]]
    BY <1>1, <2>1, Zenon
  <2> DEFINE h == [k \in 0 .. m |-> IF k = 0 THEN start ELSE round[g[k - 1]]]
  <2>3. \A k \in 0 .. m - 1 : h[k] = g[k]
    <3>1. SUFFICES ASSUME NEW k \in 0 .. m - 1 PROVE h[k] = g[k]
      OBVIOUS
    <3>2. k \in 0 .. m
      BY <1>5, SMT
    <3>3. g[k] = IF k = 0 THEN start ELSE round[g[k - 1]]
      BY <2>2, Zenon
    <3>4. QED
      BY <3>2, <3>3, Zenon
  <2>4. \A k \in 0 .. m : k # 0 => h[k - 1] = g[k - 1]
    <3>1. \A k \in 0 .. m : k # 0 => k - 1 \in 0 .. m - 1
      BY <1>5, SMT
    <3> HIDE DEF h
    <3>2. QED
      BY <2>3, <3>1, Zenon
  <2>5. h = [k \in 0 .. m |-> IF k = 0 THEN start ELSE round[h[k - 1]]]
    BY <2>4, Zenon
  <2> HIDE DEF h
  <2>6. QED
    BY <1>2, <2>5, Zenon
<1>8. QED
  BY <1>6, <1>7, Zenon

\* What holds of a loop's variables at the start, and what every round leads from one number of
\* rounds to the next, holds at the end.
LEMMA LoopInduction ==
    ASSUME NEW n \in Nat, NEW round, NEW start, NEW I,
           start \in I[0],
           \A k \in 0 .. n - 1 : \A s \in I[k] : round[s] \in I[k + 1]
    PROVE  Loop(round, start, n) \in I[n]
<1> DEFINE f[k \in 0 .. n] == IF k = 0 THEN start ELSE round[f[k - 1]]
<1>1. f = CHOOSE g : g = [k \in 0 .. n |-> IF k = 0 THEN start ELSE round[g[k - 1]]]
  BY DEF f
<1>2. f = [k \in 0 .. n |-> IF k = 0 THEN start ELSE round[f[k - 1]]]
  <2> HIDE DEF f
  <2> QED
    BY <1>1, LoopExists, SMTT(30)
<1>3. Loop(round, start, n) = f[n]
  BY DEF Loop
<1> HIDE DEF f
<1> DEFINE wrong == {k \in 0 .. n : f[k] \notin I[k]}
<1>4. wrong = {}
  <2>1. SUFFICES ASSUME wrong # {} PROVE FALSE
    OBVIOUS
  <2>2. PICK k \in wrong : \A y \in wrong : k <= y
    <3>1. wrong \in SUBSET Nat
      BY SMT
    <3>2. QED
      BY <2>1, <3>1, LeastNumber, Zenon
  <2>3. k # 0
    <3>1. f[0] = start
      BY <1>2, SMT
    <3>2. QED
      BY <3>1
  <2>4. k - 1 \in 0 .. n - 1 /\ k - 1 \in 0 .. n /\ k - 1 \notin wrong /\ (k - 1) + 1 = k
    BY <2>2, <2>3, SMT
  <2>5. f[k - 1] \in I[k - 1]
    BY <2>4
  <2>6. round[f[k - 1]] \in I[k]
    BY <2>4, <2>5
  <2>7. f[k] = round[f[k - 1]]
    BY <1>2, <2>3
  <2>8. QED
    BY <2>6, <2>7
<1>5. QED
  BY <1>3, <1>4, SMT

\* What holds at the start of a loop and is kept by every round holds at the end.
LEMMA LoopInvariant ==
    ASSUME NEW n \in Nat, NEW round, NEW start, NEW J,
           start \in J,
           \A s \in J : round[s] \in J
    PROVE  Loop(round, start, n) \in J
<1> DEFINE I == [k \in 0 .. n |-> J]
<1>1. start \in I[0]
  BY SMT
<1>2. \A k \in 0 .. n - 1 : \A s \in I[k] : round[s] \in I[k + 1]
  <2>1. TAKE k \in 0 .. n - 1
  <2>2. I[k] = J /\ I[k + 1] = J
    BY SMT
  <2>3. QED
    BY <2>2, Zenon
<1>3. I[n] = J
  BY SMT
<1> HIDE DEF I
<1>4. Loop(round, start, n) \in I[n]
  BY <1>1, <1>2, LoopInduction, Zenon
<1>5. QED
  BY <1>3, <1>4, Zenon

-----------------------------------------------------------------------------
(***************************************************************************)
(* merge_namespaces and binary_search.                                     *)
(***************************************************************************)

\* When the first loop of merge_namespaces says that a holds all of b, it does.
LEMMA SupersetFound ==
    ASSUME NEW a \in Seq(Namespaces), NEW b \in Seq(Namespaces), IsSuperset(a, b)
    PROVE  Elements(b) \subseteq Elements(a)
<1> DEFINE Found == {it \in Iterators(a, b) : \A j \in 1 .. it.itb - 1 : b[j] \in Elements(a)}
           start == [ita |-> 1, itb |-> 1]
           last == Loop(SupersetRound(a, b), start, Len(a) + Len(b))
<1>1. Len(a) \in Nat /\ Len(b) \in Nat /\ Len(a) + Len(b) \in Nat
  BY MonitorAssumption, SMT
<1>2. start \in Found
  BY <1>1, SMT DEF Iterators
<1>3. \A it \in Found : SupersetRound(a, b)[it] \in Found
  <2> TAKE it \in Found
  <2>1. /\ it.ita \in 1 .. Len(a) + 1 /\ it.itb \in 1 .. Len(b) + 1
        /\ \A j \in 1 .. it.itb - 1 : b[j] \in Elements(a)
    BY DEF Iterators
  <2>2. SupersetRound(a, b)[it] =
           IF it.ita > Len(a) \/ it.itb > Len(b) THEN it
           ELSE IF b[it.itb] > a[it.ita] THEN [it EXCEPT !.ita = @ + 1]
           ELSE IF b[it.itb] = a[it.ita] THEN [ita |-> it.ita + 1, itb |-> it.itb + 1]
           ELSE it
    BY DEF SupersetRound
  <2>3. CASE SupersetRound(a, b)[it] = it
    BY <2>3
  <2>4. CASE it.ita <= Len(a) /\ SupersetRound(a, b)[it] = [it EXCEPT !.ita = @ + 1]
    <3>1. it.ita + 1 \in 1 .. Len(a) + 1
      BY <1>1, <2>1, <2>4, SMT
    <3>2. /\ [it EXCEPT !.ita = @ + 1] \in Iterators(a, b)
          /\ [it EXCEPT !.ita = @ + 1].itb = it.itb
      BY <3>1 DEF Iterators
    <3>3. QED
      BY <2>1, <2>4, <3>2
  <2>5. CASE /\ it.ita <= Len(a) /\ it.itb <= Len(b) /\ b[it.itb] = a[it.ita]
             /\ SupersetRound(a, b)[it] = [ita |-> it.ita + 1, itb |-> it.itb + 1]
    <3>1. [ita |-> it.ita + 1, itb |-> it.itb + 1] \in Iterators(a, b)
      BY <1>1, <2>1, <2>5, SMT DEF Iterators
    <3>2. b[it.itb] \in Elements(a)
      BY <1>1, <2>1, <2>5, SMT DEF Elements
    <3>3. \A j \in 1 .. (it.itb + 1) - 1 : j \in 1 .. it.itb - 1 \/ j = it.itb
      BY <1>1, <2>1, SMT
    <3>4. \A j \in 1 .. (it.itb + 1) - 1 : b[j] \in Elements(a)
      BY <2>1, <3>2, <3>3
    <3>5. QED
      BY <2>5, <3>1, <3>4, SMT
  <2>6. \/ it.ita > Len(a) \/ it.itb > Len(b)
        \/ it.ita <= Len(a) /\ it.itb <= Len(b)
    BY <1>1, <2>1, SMT
  <2>7. QED
    BY <2>2, <2>3, <2>4, <2>5, <2>6, Zenon
<1>4. last \in Found
  <2> HIDE DEF Found, start
  <2> QED
    BY <1>1, <1>2, <1>3, LoopInvariant, Zenon
<1>5. last.itb > Len(b)
  BY DEF IsSuperset
<1> HIDE DEF last
<1>6. \A j \in 1 .. Len(b) : b[j] \in Elements(a)
  BY <1>1, <1>4, <1>5, SMT DEF Iterators
<1>7. QED
  BY <1>6, SMT DEF Elements

\* The elements of a list of namespaces.
LEMMA ListOfNamespaces ==
    ASSUME NEW s \in Seq(Namespaces)
    PROVE  /\ Len(s) \in Nat /\ DOMAIN s = 1 .. Len(s)
           /\ \A i \in 1 .. Len(s) : s[i] \in Namespaces /\ s[i] \in Int
<1>1. Len(s) \in Nat /\ DOMAIN s = 1 .. Len(s) /\ \A i \in 1 .. Len(s) : s[i] \in Namespaces
  BY SMT
<1>2. QED
  BY <1>1, MonitorAssumption

\* lower_bound ends where all before it is less than n and nothing from it on is.
LEMMA LowerBoundFound ==
    ASSUME NEW s \in Seq(Namespaces), IsAscending(s), NEW n \in Namespaces
    PROVE  /\ LowerBound(s, n) \in 1 .. Len(s) + 1
           /\ \A i \in 1 .. LowerBound(s, n) - 1 : s[i] < n
           /\ \A i \in LowerBound(s, n) .. Len(s) : s[i] >= n
<1> DEFINE Narrowed(first, count, k) ==
              /\ first \in 1 .. Len(s) + 1 /\ count \in 0 .. Len(s) /\ first + count <= Len(s) + 1
              /\ count + k <= Len(s) \/ count = 0
              /\ \A i \in 1 .. first - 1 : s[i] < n
              /\ \A i \in first + count .. Len(s) : s[i] >= n
           I == [k \in 0 .. Len(s) |-> {it \in Searches(s) : Narrowed(it.first, it.count, k)}]
           start == [first |-> 1, count |-> Len(s)]
           last == Loop(LowerBoundRound(s, n), start, Len(s))
<1>1. Len(s) \in Nat /\ n \in Int /\ \A i \in 1 .. Len(s) : s[i] \in Int
  BY MonitorAssumption, ListOfNamespaces
<1>2. \A i, j \in 1 .. Len(s) : i < j => s[i] < s[j]
  BY SMT DEF IsAscending
<1>3. start \in Searches(s) /\ Narrowed(start.first, start.count, 0)
  BY <1>1, SMT DEF Searches
<1>4. ASSUME NEW k \in 0 .. Len(s) - 1, NEW it \in Searches(s), Narrowed(it.first, it.count, k)
      PROVE  /\ LowerBoundRound(s, n)[it] \in Searches(s)
             /\ Narrowed(LowerBoundRound(s, n)[it].first, LowerBoundRound(s, n)[it].count, k + 1)
  <2>1. PICK first, count : /\ it.first = first /\ it.count = count
                            /\ it = [first |-> first, count |-> count]
    BY DEF Searches
  <2>2. PICK half : half = count \div 2
    OBVIOUS
  <2>3. /\ first \in 1 .. Len(s) + 1 /\ count \in 0 .. Len(s) /\ first + count <= Len(s) + 1
        /\ count + k <= Len(s) \/ count = 0
        /\ \A i \in 1 .. first - 1 : s[i] < n
        /\ \A i \in first + count .. Len(s) : s[i] >= n
    BY <1>4, <2>1
  <2>4. LowerBoundRound(s, n)[it] =
           IF count = 0 THEN it
           ELSE IF s[first + half] < n
           THEN [first |-> first + half + 1, count |-> count - half - 1]
           ELSE [it EXCEPT !.count = half]
    BY <2>1, <2>2 DEF LowerBoundRound
  <2>5. half \in Nat /\ (count # 0 => half < count /\ first + half \in 1 .. Len(s))
    BY <1>1, <2>2, <2>3, SMT
  <2>6. CASE count = 0
    BY <1>4, <2>1, <2>4, <2>6
  <2>7. CASE count # 0 /\ s[first + half] < n
    <3>1. PICK f, c : f = first + half + 1 /\ c = count - half - 1
      OBVIOUS
    <3>2. /\ f \in 1 .. Len(s) + 1 /\ c \in 0 .. Len(s) /\ f + c = first + count
          /\ c + (k + 1) <= Len(s) /\ f - 1 = first + half
      BY <1>1, <2>3, <2>5, <2>7, <3>1, SMT
    <3>3. \A i \in 1 .. first + half : s[i] < n
      <4>1. TAKE i \in 1 .. first + half
      <4>2. i \in 1 .. Len(s) /\ (i = first + half \/ i < first + half)
        BY <1>1, <2>3, <2>5, <2>7, SMT
      <4>3. s[i] \in Int /\ s[first + half] \in Int /\ (i < first + half => s[i] < s[first + half])
        BY <1>1, <1>2, <2>5, <2>7, <4>2
      <4>4. QED
        BY <1>1, <2>7, <4>2, <4>3, SMT
    <3>4. Narrowed(f, c, k + 1)
      BY <2>3, <3>2, <3>3
    <3>5. LowerBoundRound(s, n)[it] = [first |-> f, count |-> c]
      BY <2>4, <2>7, <3>1
    <3>6. [first |-> f, count |-> c] \in Searches(s)
      BY <2>3, <3>2 DEF Searches
    <3> HIDE DEF Narrowed
    <3>7. QED
      BY <3>4, <3>5, <3>6, SMT
  <2>8. CASE count # 0 /\ ~(s[first + half] < n)
    <3>1. LowerBoundRound(s, n)[it] = [first |-> first, count |-> half]
      BY <2>1, <2>4, <2>8
    <3>2. half \in 0 .. Len(s) /\ first + half <= Len(s) + 1 /\ half + (k + 1) <= Len(s)
      BY <1>1, <2>3, <2>5, <2>8, SMT
    <3>3. \A i \in first + half .. Len(s) : s[i] >= n
      <4>1. TAKE i \in first + half .. Len(s)
      <4>2. i \in 1 .. Len(s) /\ (i = first + half \/ i > first + half)
        BY <1>1, <2>3, <2>5, <2>8, SMT
      <4>3. s[i] \in Int /\ s[first + half] \in Int /\ (i > first + half => s[i] > s[first + half])
        BY <1>1, <1>2, <2>5, <2>8, <4>2
      <4>4. QED
        BY <1>1, <2>8, <4>2, <4>3, SMT
    <3>4. Narrowed(first, half, k + 1)
      BY <2>3, <3>2, <3>3
    <3>5. [first |-> first, count |-> half] \in Searches(s)
      BY <2>3, <3>2 DEF Searches
    <3> HIDE DEF Narrowed
    <3>6. QED
      BY <3>1, <3>4, <3>5, SMT
  <2>9. QED
    BY <2>6, <2>7, <2>8
<1>5. last \in Searches(s) /\ Narrowed(last.first, last.count, Len(s))
  <2>1. start \in I[0]
    BY <1>1, <1>3, SMT
  <2>2. \A k \in 0 .. Len(s) - 1 : \A it \in I[k] : LowerBoundRound(s, n)[it] \in I[k + 1]
    <3> HIDE DEF Narrowed
    <3>1. TAKE k \in 0 .. Len(s) - 1
    <3>2. k \in 0 .. Len(s) /\ k + 1 \in 0 .. Len(s)
      BY <1>1, SMT
    <3>3. /\ I[k] = {it \in Searches(s) : Narrowed(it.first, it.count, k)}
          /\ I[k + 1] = {it \in Searches(s) : Narrowed(it.first, it.count, k + 1)}
      BY <3>2, Zenon
    <3>4. QED
      BY <1>4, <3>3
  <2>3. I[Len(s)] = {it \in Searches(s) : Narrowed(it.first, it.count, Len(s))}
    BY <1>1, SMT
  <2> HIDE DEF I, start, Narrowed
  <2>4. last \in I[Len(s)]
    BY <1>1, <2>1, <2>2, LoopInduction, Zenon
  <2>5. QED
    BY <2>3, <2>4, Zenon
<1>6. LowerBound(s, n) = last.first
  BY DEF LowerBound
<1> HIDE DEF last
<1>7. last.count = 0 /\ last.first \in 1 .. Len(s) + 1
  BY <1>1, <1>5, SMT DEF Searches
<1>8. QED
  BY <1>1, <1>5, <1>6, <1>7, SMT

\* binary_search finds the elements of an ascending sequence, and nothing else.
LEMMA BinarySearchFinds ==
    ASSUME NEW s \in Seq(Namespaces), IsAscending(s), NEW n \in Namespaces
    PROVE  BinarySearch(s, n) <=> n \in Elements(s)
<1> DEFINE i == LowerBound(s, n)
<1>1. Len(s) \in Nat /\ n \in Int /\ \A k \in 1 .. Len(s) : s[k] \in Int
  BY MonitorAssumption, ListOfNamespaces
<1>2. /\ i \in 1 .. Len(s) + 1
      /\ \A k \in 1 .. i - 1 : s[k] < n
      /\ \A k \in i .. Len(s) : s[k] >= n
  BY LowerBoundFound
<1>3. BinarySearch(s, n) <=> i <= Len(s) /\ ~(n < s[i])
  BY DEF BinarySearch
<1> HIDE DEF i
<1>4. ASSUME i <= Len(s), ~(n < s[i]) PROVE n \in Elements(s)
  <2>1. i \in 1 .. Len(s) /\ s[i] = n
    BY <1>1, <1>2, <1>4, SMT
  <2>2. QED
    BY <2>1, SMT DEF Elements
<1>5. ASSUME n \in Elements(s) PROVE i <= Len(s) /\ ~(n < s[i])
  <2>1. PICK k \in 1 .. Len(s) : s[k] = n
    BY <1>5, SMT DEF Elements
  <2>2. i <= k
    BY <1>1, <1>2, <2>1, SMT
  <2>3. i \in 1 .. Len(s) /\ (i < k => s[i] < s[k])
    BY <1>1, <1>2, <2>1, <2>2, SMT DEF IsAscending
  <2>4. QED
    BY <1>1, <1>2, <2>1, <2>2, <2>3, SMT
<1>6. QED
  BY <1>3, <1>4, <1>5

\* What a loop over s has passed when its iterator is at i.
Before(s, i) == {s[p] : p \in 1 .. i - 1}

\* What has been passed grows by one element in a round, from nothing to all of s.
LEMMA BeforeGrows ==
    ASSUME NEW s \in Seq(Namespaces)
    PROVE  /\ Before(s, 1) = {} /\ Before(s, Len(s) + 1) = Elements(s)
           /\ \A i \in 1 .. Len(s) : Before(s, i + 1) = Before(s, i) \cup {s[i]}
<1>1. Len(s) \in Nat /\ DOMAIN s = 1 .. Len(s)
  BY ListOfNamespaces
<1>2. Before(s, 1) = {}
  BY SMT DEF Before
<1>3. Before(s, Len(s) + 1) = Elements(s)
  <2>1. (Len(s) + 1) - 1 = Len(s)
    BY <1>1, SMT
  <2>2. QED
    BY <1>1, <2>1, Zenon DEF Before, Elements
<1>4. ASSUME NEW i \in 1 .. Len(s) PROVE Before(s, i + 1) = Before(s, i) \cup {s[i]}
  <2>1. \A p : p \in 1 .. (i + 1) - 1 <=> p \in 1 .. i - 1 \/ p = i
    BY <1>1, SMT
  <2>2. QED
    BY <2>1, Zenon DEF Before
<1>5. QED
  BY <1>2, <1>3, <1>4

\* The next element of s, and the one after it.
LEMMA NextElement ==
    ASSUME NEW s \in Seq(Namespaces), IsAscending(s), NEW i \in 1 .. Len(s) + 1, i <= Len(s)
    PROVE  /\ i \in 1 .. Len(s) /\ s[i] \in Namespaces /\ s[i] \in Int
           /\ Before(s, i + 1) = Before(s, i) \cup {s[i]}
           /\ i + 1 <= Len(s) => s[i + 1] \in Int /\ s[i] < s[i + 1]
<1>1. /\ Len(s) \in Nat /\ DOMAIN s = 1 .. Len(s)
      /\ \A j \in 1 .. Len(s) : s[j] \in Namespaces /\ s[j] \in Int
  BY ListOfNamespaces
<1>2. i \in 1 .. Len(s) /\ (i + 1 <= Len(s) => i + 1 \in 1 .. Len(s)) /\ i < i + 1
  BY <1>1, SMT
<1>3. Before(s, i + 1) = Before(s, i) \cup {s[i]}
  BY <1>2, BeforeGrows
<1>4. i + 1 <= Len(s) => s[i + 1] \in Int /\ s[i] < s[i + 1]
  BY <1>1, <1>2 DEF IsAscending
<1>5. QED
  BY <1>1, <1>2, <1>3, <1>4

\* push_back of what is greater than all elements.
LEMMA PushBack ==
    ASSUME NEW c \in Seq(Namespaces), IsAscending(c), NEW x \in Namespaces,
           \A y \in Elements(c) : y < x
    PROVE  /\ Append(c, x) \in Seq(Namespaces) /\ IsAscending(Append(c, x))
           /\ Elements(Append(c, x)) = Elements(c) \cup {x}
<1>1. Len(c) \in Nat /\ DOMAIN c = 1 .. Len(c) /\ \A i \in 1 .. Len(c) : c[i] \in Elements(c)
  BY ListOfNamespaces DEF Elements
<1>2. PICK d : d = Append(c, x)
  OBVIOUS
<1>3. /\ d \in Seq(Namespaces) /\ Len(d) = Len(c) + 1 /\ DOMAIN d = 1 .. Len(c) + 1
      /\ d[Len(c) + 1] = x /\ \A i \in 1 .. Len(c) : d[i] = c[i]
  BY <1>2, SMT
<1>4. \A i : i \in 1 .. Len(c) + 1 <=> i \in 1 .. Len(c) \/ i = Len(c) + 1
  BY <1>1, SMT
<1>5. IsAscending(d)
  <2>1. SUFFICES ASSUME NEW i \in DOMAIN d, NEW j \in DOMAIN d, i < j PROVE d[i] < d[j]
    BY DEF IsAscending
  <2>2. i \in 1 .. Len(c)
    BY <1>1, <1>3, <2>1, SMT
  <2>3. CASE j \in 1 .. Len(c)
    BY <1>1, <1>3, <2>1, <2>2, <2>3, Zenon DEF IsAscending
  <2>4. CASE j = Len(c) + 1
    BY <1>1, <1>3, <2>2, <2>4, Zenon
  <2>5. QED
    BY <1>3, <1>4, <2>3, <2>4, Zenon
<1>6. Elements(d) = Elements(c) \cup {x}
  BY <1>1, <1>3, <1>4, Zenon DEF Elements
<1>7. QED
  BY <1>2, <1>3, <1>5, <1>6, Zenon

\* The second loop of merge_namespaces makes one ascending list of two.
LEMMA Merged ==
    ASSUME NEW a \in Seq(Namespaces), NEW b \in Seq(Namespaces), IsAscending(a), IsAscending(b)
    PROVE  /\ Merge(a, b) \in Seq(Namespaces) /\ IsAscending(Merge(a, b))
           /\ Elements(Merge(a, b)) = Elements(a) \cup Elements(b)
<1> DEFINE Passed(i, j, c, k) ==
              /\ i \in 1 .. Len(a) + 1 /\ j \in 1 .. Len(b) + 1 /\ c \in Seq(Namespaces)
              /\ i + j >= k + 2 \/ (i = Len(a) + 1 /\ j = Len(b) + 1)
              /\ IsAscending(c) /\ Elements(c) = Before(a, i) \cup Before(b, j)
              /\ i <= Len(a) => \A y \in Elements(c) : y < a[i]
              /\ j <= Len(b) => \A y \in Elements(c) : y < b[j]
           I == [k \in 0 .. Len(a) + Len(b) |->
                    {s \in Merging(a, b) : Passed(s.it.ita, s.it.itb, s.c, k)}]
           start == [it |-> [ita |-> 1, itb |-> 1], c |-> <<>>]
           last == Loop(MergeRound(a, b), start, Len(a) + Len(b))
<1>1. /\ Len(a) \in Nat /\ DOMAIN a = 1 .. Len(a)
      /\ \A i \in 1 .. Len(a) : a[i] \in Namespaces /\ a[i] \in Int
      /\ Len(b) \in Nat /\ DOMAIN b = 1 .. Len(b)
      /\ \A i \in 1 .. Len(b) : b[i] \in Namespaces /\ b[i] \in Int
      /\ Len(a) + Len(b) \in Nat
  BY ListOfNamespaces, SMT
<1>2. start \in Merging(a, b) /\ Passed(start.it.ita, start.it.itb, start.c, 0)
  <2>1. Elements(<<>>) = {} /\ IsAscending(<<>>)
    BY SMT DEF Elements, IsAscending
  <2>2. start \in Merging(a, b)
    BY <1>1, SMT DEF Merging, Iterators
  <2>3. Before(a, 1) = {} /\ Before(b, 1) = {}
    BY BeforeGrows
  <2>4. Passed(1, 1, <<>>, 0)
    BY <1>1, <2>1, <2>3, SMT
  <2>5. QED
    BY <2>2, <2>4
<1> DEFINE FromA(i, j) == i <= Len(a) /\ (j <= Len(b) => a[i] <= b[j])
           FromB(i, j) == j <= Len(b) /\ (i <= Len(a) => b[j] <= a[i])
<1>3. ASSUME NEW i, NEW j, NEW c, NEW k \in Nat, Passed(i, j, c, k)
      PROVE  /\ FromA(i, j) /\ FromB(i, j) => Passed(i + 1, j + 1, Append(c, a[i]), k + 1)
             /\ FromA(i, j) /\ ~FromB(i, j) => Passed(i + 1, j, Append(c, a[i]), k + 1)
             /\ ~FromA(i, j) /\ FromB(i, j) => Passed(i, j + 1, Append(c, b[j]), k + 1)
             /\ ~FromA(i, j) /\ ~FromB(i, j) => Passed(i, j, c, k + 1)
  <2>1. /\ i \in 1 .. Len(a) + 1 /\ j \in 1 .. Len(b) + 1 /\ c \in Seq(Namespaces)
        /\ i + j >= k + 2 \/ (i = Len(a) + 1 /\ j = Len(b) + 1)
        /\ IsAscending(c) /\ Elements(c) = Before(a, i) \cup Before(b, j)
        /\ i <= Len(a) => \A y \in Elements(c) : y < a[i]
        /\ j <= Len(b) => \A y \in Elements(c) : y < b[j]
    BY <1>3
  <2>2. \A y \in Elements(c) : y \in Int
    BY <2>1, ListOfNamespaces DEF Elements
  <2>3. i <= Len(a) => /\ i \in 1 .. Len(a) /\ a[i] \in Namespaces /\ a[i] \in Int
                       /\ Before(a, i + 1) = Before(a, i) \cup {a[i]}
                       /\ i + 1 <= Len(a) => a[i + 1] \in Int /\ a[i] < a[i + 1]
    BY <2>1, NextElement
  <2>4. j <= Len(b) => /\ j \in 1 .. Len(b) /\ b[j] \in Namespaces /\ b[j] \in Int
                       /\ Before(b, j + 1) = Before(b, j) \cup {b[j]}
                       /\ j + 1 <= Len(b) => b[j + 1] \in Int /\ b[j] < b[j + 1]
    BY <2>1, NextElement
  <2>5. ASSUME FromA(i, j) PROVE
           /\ Append(c, a[i]) \in Seq(Namespaces) /\ IsAscending(Append(c, a[i]))
           /\ Elements(Append(c, a[i])) = Elements(c) \cup {a[i]}
           /\ i + 1 <= Len(a) => \A y \in Elements(c) \cup {a[i]} : y < a[i + 1]
    <3>1. \A y \in Elements(c) : y < a[i]
      BY <2>1, <2>5, Zenon
    <3>2. i + 1 <= Len(a) => \A y \in Elements(c) \cup {a[i]} : y < a[i + 1]
      BY <2>2, <2>3, <2>5, <3>1, SMT
    <3>3. QED
      BY <2>1, <2>3, <2>5, <3>1, <3>2, PushBack, Zenon
  <2>6. ASSUME FromB(i, j) PROVE
           /\ Append(c, b[j]) \in Seq(Namespaces) /\ IsAscending(Append(c, b[j]))
           /\ Elements(Append(c, b[j])) = Elements(c) \cup {b[j]}
           /\ j + 1 <= Len(b) => \A y \in Elements(c) \cup {b[j]} : y < b[j + 1]
    <3>1. \A y \in Elements(c) : y < b[j]
      BY <2>1, <2>6, Zenon
    <3>2. j + 1 <= Len(b) => \A y \in Elements(c) \cup {b[j]} : y < b[j + 1]
      BY <2>2, <2>4, <2>6, <3>1, SMT
    <3>3. QED
      BY <2>1, <2>4, <2>6, <3>1, <3>2, PushBack, Zenon
  <2>7. ASSUME FromA(i, j), FromB(i, j) PROVE Passed(i + 1, j + 1, Append(c, a[i]), k + 1)
    <3>1. /\ i + 1 \in 1 .. Len(a) + 1 /\ j + 1 \in 1 .. Len(b) + 1
          /\ (i + 1) + (j + 1) >= (k + 1) + 2 /\ a[i] = b[j]
      BY <1>1, <2>1, <2>3, <2>4, <2>7, SMT
    <3>2. Elements(c) \cup {a[i]} = Before(a, i + 1) \cup Before(b, j + 1)
      BY <2>1, <2>3, <2>4, <2>7, <3>1, Zenon
    <3>3. QED
      BY <2>5, <2>6, <2>7, <3>1, <3>2, Zenon
  <2>8. ASSUME FromA(i, j), ~FromB(i, j) PROVE Passed(i + 1, j, Append(c, a[i]), k + 1)
    <3>1. /\ i + 1 \in 1 .. Len(a) + 1 /\ (i + 1) + j >= (k + 1) + 2
          /\ j <= Len(b) => a[i] < b[j]
      BY <1>1, <2>1, <2>3, <2>4, <2>8, SMT
    <3>2. Elements(c) \cup {a[i]} = Before(a, i + 1) \cup Before(b, j)
      BY <2>1, <2>3, <2>8, Zenon
    <3>3. QED
      BY <2>1, <2>5, <2>8, <3>1, <3>2, Zenon
  <2>9. ASSUME ~FromA(i, j), FromB(i, j) PROVE Passed(i, j + 1, Append(c, b[j]), k + 1)
    <3>1. /\ j + 1 \in 1 .. Len(b) + 1 /\ i + (j + 1) >= (k + 1) + 2
          /\ i <= Len(a) => b[j] < a[i]
      BY <1>1, <2>1, <2>3, <2>4, <2>9, SMT
    <3>2. Elements(c) \cup {b[j]} = Before(a, i) \cup Before(b, j + 1)
      BY <2>1, <2>4, <2>9, Zenon
    <3>3. QED
      BY <2>1, <2>6, <2>9, <3>1, <3>2, Zenon
  <2>10. ASSUME ~FromA(i, j), ~FromB(i, j) PROVE Passed(i, j, c, k + 1)
    <3>1. i = Len(a) + 1 /\ j = Len(b) + 1
      BY <1>1, <2>1, <2>3, <2>4, <2>10, SMT
    <3>2. QED
      BY <2>1, <3>1, Zenon
  <2>11. QED
    BY <2>7, <2>8, <2>9, <2>10, Zenon
<1>4. ASSUME NEW k \in Nat, NEW s \in Merging(a, b), Passed(s.it.ita, s.it.itb, s.c, k)
      PROVE  LET t == MergeRound(a, b)[s]
             IN t \in Merging(a, b) /\ Passed(t.it.ita, t.it.itb, t.c, k + 1)
  <2>1. PICK i, j, c : i = s.it.ita /\ j = s.it.itb /\ c = s.c
    OBVIOUS
  <2>2. PICK t : t = MergeRound(a, b)[s]
    OBVIOUS
  <2>3. t = IF ~FromA(i, j) /\ ~FromB(i, j) THEN s
            ELSE [it |-> [ita |-> IF FromA(i, j) THEN i + 1 ELSE i,
                          itb |-> IF FromB(i, j) THEN j + 1 ELSE j],
                  c |-> Append(c, IF FromA(i, j) THEN a[i] ELSE b[j])]
    BY <2>1, <2>2, Zenon DEF MergeRound
  <2>4. Passed(i, j, c, k)
    BY <1>4, <2>1, Zenon
  <2>5. ASSUME NEW x, NEW y, NEW z, t = [it |-> [ita |-> x, itb |-> y], c |-> z],
               Passed(x, y, z, k + 1)
        PROVE  t \in Merging(a, b) /\ Passed(t.it.ita, t.it.itb, t.c, k + 1)
    <3>1. t.it.ita = x /\ t.it.itb = y /\ t.c = z
      BY <2>5
    <3>2. x \in 1 .. Len(a) + 1 /\ y \in 1 .. Len(b) + 1 /\ z \in Seq(Namespaces)
      BY <2>5, Zenon
    <3>3. t \in Merging(a, b)
      BY <2>5, <3>2 DEF Merging, Iterators
    <3>4. QED
      BY <2>5, <3>1, <3>3, Zenon
  <2> HIDE DEF Passed, FromA, FromB
  <2>6. CASE FromA(i, j) /\ FromB(i, j)
    <3>1. t = [it |-> [ita |-> i + 1, itb |-> j + 1], c |-> Append(c, a[i])]
      BY <2>3, <2>6
    <3>2. Passed(i + 1, j + 1, Append(c, a[i]), k + 1)
      BY <1>3, <2>4, <2>6, Zenon
    <3>3. QED
      BY <2>2, <2>5, <3>1, <3>2, Zenon
  <2>7. CASE FromA(i, j) /\ ~FromB(i, j)
    <3>1. t = [it |-> [ita |-> i + 1, itb |-> j], c |-> Append(c, a[i])]
      BY <2>3, <2>7
    <3>2. Passed(i + 1, j, Append(c, a[i]), k + 1)
      BY <1>3, <2>4, <2>7, Zenon
    <3>3. QED
      BY <2>2, <2>5, <3>1, <3>2, Zenon
  <2>8. CASE ~FromA(i, j) /\ FromB(i, j)
    <3>1. t = [it |-> [ita |-> i, itb |-> j + 1], c |-> Append(c, b[j])]
      BY <2>3, <2>8
    <3>2. Passed(i, j + 1, Append(c, b[j]), k + 1)
      BY <1>3, <2>4, <2>8, Zenon
    <3>3. QED
      BY <2>2, <2>5, <3>1, <3>2, Zenon
  <2>9. CASE ~FromA(i, j) /\ ~FromB(i, j)
    BY <1>3, <2>1, <2>2, <2>3, <2>4, <2>9, Zenon
  <2>10. QED
    BY <2>6, <2>7, <2>8, <2>9, Zenon
<1>5. last \in Merging(a, b) /\ Passed(last.it.ita, last.it.itb, last.c, Len(a) + Len(b))
  <2> HIDE DEF Passed
  <2>1. start \in I[0]
    <3>1. 0 \in 0 .. Len(a) + Len(b)
      BY <1>1, SMT
    <3> HIDE DEF start
    <3>2. QED
      BY <1>2, <3>1, Zenon
  <2>2. \A k \in 0 .. (Len(a) + Len(b)) - 1 : \A s \in I[k] : MergeRound(a, b)[s] \in I[k + 1]
    <3>1. TAKE k \in 0 .. (Len(a) + Len(b)) - 1
    <3>2. k \in Nat /\ k \in 0 .. Len(a) + Len(b) /\ k + 1 \in 0 .. Len(a) + Len(b)
      BY <1>1, SMT
    <3>3. /\ I[k] = {s \in Merging(a, b) : Passed(s.it.ita, s.it.itb, s.c, k)}
          /\ I[k + 1] = {s \in Merging(a, b) : Passed(s.it.ita, s.it.itb, s.c, k + 1)}
      BY <3>2, Zenon
    <3>4. QED
      BY <1>4, <3>2, <3>3, Zenon
  <2>3. I[Len(a) + Len(b)] =
           {s \in Merging(a, b) : Passed(s.it.ita, s.it.itb, s.c, Len(a) + Len(b))}
    <3>1. Len(a) + Len(b) \in 0 .. Len(a) + Len(b)
      BY <1>1, SMT
    <3>2. QED
      BY <3>1, Zenon
  <2> HIDE DEF I, start
  <2>4. last \in I[Len(a) + Len(b)]
    BY <1>1, <2>1, <2>2, LoopInduction, Zenon
  <2>5. QED
    BY <2>3, <2>4, Zenon
<1>6. Merge(a, b) = last.c
  BY DEF Merge
<1> HIDE DEF last
<1>7. last.it.ita = Len(a) + 1 /\ last.it.itb = Len(b) + 1
  <2>1. PICK i, j : i = last.it.ita /\ j = last.it.itb
    OBVIOUS
  <2>2. /\ i \in 1 .. Len(a) + 1 /\ j \in 1 .. Len(b) + 1
        /\ i + j >= (Len(a) + Len(b)) + 2 \/ (i = Len(a) + 1 /\ j = Len(b) + 1)
    BY <1>5, <2>1, Zenon
  <2>3. QED
    BY <1>1, <2>1, <2>2, SMT
<1>8. QED
  BY <1>5, <1>6, <1>7, BeforeGrows, Zenon

\* merge_namespaces returns the elements of both lists, in ascending order.
LEMMA MergeNamespacesIsUnion ==
    ASSUME NEW a \in Seq(Namespaces), NEW b \in Seq(Namespaces), IsAscending(a), IsAscending(b)
    PROVE  /\ MergeNamespaces(a, b) \in Seq(Namespaces) /\ IsAscending(MergeNamespaces(a, b))
           /\ Elements(MergeNamespaces(a, b)) = Elements(a) \cup Elements(b)
<1>1. ASSUME NEW x \in {a, b}, NEW y \in {a, b}, {x, y} = {a, b}
      PROVE  LET c == IF IsSuperset(x, y) THEN x ELSE Merge(x, y)
             IN /\ c \in Seq(Namespaces) /\ IsAscending(c)
                /\ Elements(c) = Elements(a) \cup Elements(b)
  <2>1. /\ x \in Seq(Namespaces) /\ y \in Seq(Namespaces) /\ IsAscending(x) /\ IsAscending(y)
        /\ Elements(x) \cup Elements(y) = Elements(a) \cup Elements(b)
    BY <1>1, Zenon
  <2>2. CASE IsSuperset(x, y)
    BY <2>1, <2>2, SupersetFound, Zenon
  <2>3. CASE ~IsSuperset(x, y)
    BY <2>1, <2>3, Merged, Zenon
  <2>4. QED
    BY <2>2, <2>3, Zenon
<1>2. CASE b # <<>> /\ (a = <<>> \/ Head(b) < Head(a))
  <2>1. MergeNamespaces(a, b) = IF IsSuperset(b, a) THEN b ELSE Merge(b, a)
    BY <1>2, Zenon DEF MergeNamespaces
  <2>2. {b, a} = {a, b}
    BY Zenon
  <2>3. QED
    BY <1>1, <2>1, <2>2, Zenon
<1>3. CASE ~(b # <<>> /\ (a = <<>> \/ Head(b) < Head(a)))
  <2>1. MergeNamespaces(a, b) = IF IsSuperset(a, b) THEN a ELSE Merge(a, b)
    BY <1>3, Zenon DEF MergeNamespaces
  <2>2. QED
    BY <1>1, <2>1, Zenon
<1>4. QED
  BY <1>2, <1>3, Zenon

\* A list that handle_monitor_message_single accepts is ascending as a whole, not only from one
\* element to the next, and it is not empty.
LEMMA AcceptedAscends ==
    ASSUME NEW sub \in Subs, Accepted(sub)
    PROVE  sub.n \in Seq(Namespaces) /\ IsAscending(sub.n) /\ Elements(sub.n) # {}
<1>1. PICK s : s = sub.n
  OBVIOUS
<1>2. /\ s \in Seq(Namespaces) /\ s # <<>>
      /\ \A i \in 2 .. Len(s) : s[i] > s[i - 1]
  BY <1>1, MonitorAssumption, Zenon DEF Accepted
<1>3. /\ Len(s) \in Nat /\ DOMAIN s = 1 .. Len(s)
      /\ \A i \in 1 .. Len(s) : s[i] \in Int
  BY <1>2, ListOfNamespaces
<1>4. Elements(s) # {}
  <2>1. 1 \in DOMAIN s
    BY <1>2, <1>3, SMT
  <2>2. QED
    BY <2>1 DEF Elements
<1>5. ASSUME NEW i \in DOMAIN s, NEW j \in DOMAIN s, i < j PROVE s[i] < s[j]
  <2> DEFINE wrong == {k \in 1 .. Len(s) : i < k /\ ~(s[i] < s[k])}
  <2>1. SUFFICES ASSUME wrong # {} PROVE FALSE
    BY <1>3, <1>5
  <2>2. PICK k \in wrong : \A y \in wrong : k <= y
    <3>1. wrong \in SUBSET Nat
      BY <1>3, SMT
    <3>2. QED
      BY <2>1, <3>1, LeastNumber, Zenon
  <2>3. /\ k \in 2 .. Len(s) /\ k - 1 \in 1 .. Len(s) /\ i <= k - 1
        /\ k - 1 \notin wrong
    BY <1>3, <2>2, SMT
  <2>4. s[k] > s[k - 1] /\ (i = k - 1 \/ s[i] < s[k - 1])
    BY <1>2, <1>3, <2>3, SMT
  <2>5. s[i] < s[k]
    BY <1>3, <2>3, <2>4, SMT
  <2>6. QED
    BY <2>5
<1>6. QED
  BY <1>1, <1>2, <1>4, <1>5, Zenon DEF IsAscending

-----------------------------------------------------------------------------
(***************************************************************************)
(* handle_monitor_messages.                                                *)
(***************************************************************************)

\* What the entries of an account hold for a connection that has asked for names, and for data or
\* not, and last asked ago before: nothing, or one entry with all that it asked for and with the
\* time that is left.
Holds(entries, c, names, data, ago) ==
    LET own == EntriesOf(entries, c)
    IN IF names = {} THEN own = {} /\ data = FALSE /\ ago = NEVER
       ELSE \E i \in own :
               /\ own = {i}
               /\ IsAscending(entries[i].namespaces) /\ Elements(entries[i].namespaces) = names
               /\ entries[i].want_data = data /\ entries[i].left = MONITOR_EXPIRY_TIME - ago

\* The fields of an entry.
LEMMA EntryFields ==
    ASSUME NEW entries \in Seq(Entry)
    PROVE  /\ Len(entries) \in Nat /\ DOMAIN entries = 1 .. Len(entries)
           /\ \A i \in DOMAIN entries :
                 /\ entries[i] \in Entry
                 /\ entries[i].namespaces \in Seq(Namespaces)
                 /\ entries[i].left \in -1 .. MONITOR_EXPIRY_TIME /\ entries[i].left \in Int
                 /\ entries[i].push_conn \in Conns /\ entries[i].want_data \in BOOLEAN
<1>1. Len(entries) \in Nat /\ DOMAIN entries = 1 .. Len(entries)
  BY SMT
<1>2. \A i \in DOMAIN entries : entries[i] \in Entry
  BY SMT
<1>3. \A e \in Entry : /\ e.namespaces \in Seq(Namespaces)
                       /\ e.left \in -1 .. MONITOR_EXPIRY_TIME /\ e.left \in Int
                       /\ e.push_conn \in Conns /\ e.want_data \in BOOLEAN
  BY SMT DEF Entry
<1>4. QED
  BY <1>1, <1>2, <1>3, Zenon

\* The two have the same entries of a connection.
SameFor(c, entries, changed) ==
    /\ EntriesOf(changed, c) = EntriesOf(entries, c)
    /\ \A i \in EntriesOf(entries, c) : changed[i] = entries[i]

\* A new entry goes to the end and is the only one of its connection.
LEMMA NewEntry ==
    \A entries \in Seq(Entry), e \in Entry : \A added :
        EntriesOf(entries, e.push_conn) = {} /\ added = Append(entries, e) =>
           /\ added \in Seq(Entry)
           /\ EntriesOf(added, e.push_conn) = {Len(entries) + 1} /\ added[Len(entries) + 1] = e
           /\ \A d : d # e.push_conn => SameFor(d, entries, added)
<1> SUFFICES ASSUME NEW entries \in Seq(Entry), NEW e \in Entry, NEW added,
                    EntriesOf(entries, e.push_conn) = {}, added = Append(entries, e)
             PROVE  /\ added \in Seq(Entry)
                    /\ EntriesOf(added, e.push_conn) = {Len(entries) + 1}
                    /\ added[Len(entries) + 1] = e
                    /\ \A d : d # e.push_conn => SameFor(d, entries, added)
  OBVIOUS
<1>1. /\ added \in Seq(Entry) /\ Len(entries) \in Nat /\ DOMAIN entries = 1 .. Len(entries)
      /\ DOMAIN added = 1 .. Len(entries) + 1
      /\ added[Len(entries) + 1] = e /\ \A i \in 1 .. Len(entries) : added[i] = entries[i]
  BY SMT
<1>2. \A i : i \in DOMAIN added <=> i \in DOMAIN entries \/ i = Len(entries) + 1
  BY <1>1, SMT
<1>3. Len(entries) + 1 \notin DOMAIN entries
  BY <1>1, SMT
<1>4. EntriesOf(added, e.push_conn) = {Len(entries) + 1}
  BY <1>1, <1>2, Zenon DEF EntriesOf
<1>5. ASSUME NEW d, d # e.push_conn
      PROVE  SameFor(d, entries, added)
  BY <1>1, <1>2, <1>5, Zenon DEF EntriesOf, SameFor
<1>6. QED
  BY <1>1, <1>4, <1>5, Zenon

\* Merging a subscription into an entry.
LEMMA RenewedEntry ==
    ASSUME NEW e \in Entry, IsAscending(e.namespaces), NEW sub \in Subs, Accepted(sub)
    PROVE  LET r == Renewed(e, sub)
           IN /\ r \in Entry /\ r.push_conn = e.push_conn /\ r.left = MONITOR_EXPIRY_TIME
              /\ IsAscending(r.namespaces)
              /\ Elements(r.namespaces) = Elements(e.namespaces) \cup Elements(sub.n)
              /\ r.want_data = (e.want_data \/ sub.d)
<1>1. PICK merged : merged = MergeNamespaces(e.namespaces, sub.n)
  OBVIOUS
<1>2. e.namespaces \in Seq(Namespaces)
  BY DEF Entry
<1>3. /\ merged \in Seq(Namespaces) /\ IsAscending(merged)
      /\ Elements(merged) = Elements(e.namespaces) \cup Elements(sub.n)
  BY <1>1, <1>2, AcceptedAscends, MergeNamespacesIsUnion, Zenon
<1>4. PICK data : data = (e.want_data \/ sub.d)
  OBVIOUS
<1>5. PICK r : r = [e EXCEPT !.namespaces = merged, !.left = MONITOR_EXPIRY_TIME,
                             !.want_data = data]
  OBVIOUS
<1>6. r = Renewed(e, sub)
  BY <1>1, <1>4, <1>5, Zenon DEF Renewed
<1>7. data \in BOOLEAN /\ MONITOR_EXPIRY_TIME \in -1 .. MONITOR_EXPIRY_TIME
  BY <1>4, MonitorAssumption, SMT
<1>8. /\ r \in Entry /\ r.push_conn = e.push_conn /\ r.left = MONITOR_EXPIRY_TIME
      /\ r.namespaces = merged /\ r.want_data = data
  BY <1>3, <1>5, <1>7 DEF Entry
<1>9. QED
  BY <1>3, <1>4, <1>6, <1>8, Zenon

\* What is held for a connection depends only on its own entries.
LEMMA HoldsOwn ==
    ASSUME NEW entries, NEW changed, NEW c, NEW names, NEW data, NEW ago,
           Holds(entries, c, names, data, ago),
           SameFor(c, entries, changed)
    PROVE  Holds(changed, c, names, data, ago)
<1>1. CASE names = {}
  BY <1>1, Zenon DEF Holds, SameFor
<1>2. CASE names # {}
  <2>1. PICK i \in EntriesOf(entries, c) :
            /\ EntriesOf(entries, c) = {i}
            /\ IsAscending(entries[i].namespaces) /\ Elements(entries[i].namespaces) = names
            /\ entries[i].want_data = data /\ entries[i].left = MONITOR_EXPIRY_TIME - ago
    BY <1>2, Zenon DEF Holds
  <2>2. changed[i] = entries[i] /\ EntriesOf(changed, c) = EntriesOf(entries, c)
    BY Zenon DEF SameFor
  <2>3. QED
    BY <1>2, <2>1, <2>2, Zenon DEF Holds
<1>3. QED
  BY <1>1, <1>2, Zenon

\* The body of the loop adds the subscription of connection c to what is held for c in its
\* account, and leaves what other connections and other accounts have.
LEMMA SubAdded ==
    ASSUME NEW mon \in [Accounts -> Seq(Entry)], NEW sub \in Subs, Accepted(sub),
           NEW c \in Conns, NEW names, NEW data \in BOOLEAN, NEW ago,
           Holds(mon[sub.account], c, names, data, ago)
    PROVE  /\ AddSub(mon, sub, c) \in [Accounts -> Seq(Entry)]
           /\ \A a \in Accounts : a # sub.account => AddSub(mon, sub, c)[a] = mon[a]
           /\ Holds(AddSub(mon, sub, c)[sub.account], c, names \cup Elements(sub.n),
                    data \/ sub.d, 0)
           /\ \A d : d # c => SameFor(d, mon[sub.account], AddSub(mon, sub, c)[sub.account])
<1>x. PICK x : x = sub.account
  OBVIOUS
<1>after. PICK after : after = AddSub(mon, sub, c)
  OBVIOUS
<1>1. PICK entries : entries = mon[x]
  OBVIOUS
<1>2. x \in Accounts /\ entries \in Seq(Entry) /\ sub.d \in BOOLEAN
  BY <1>x, <1>1, MonitorAssumption
<1>3. sub.n \in Seq(Namespaces) /\ IsAscending(sub.n) /\ Elements(sub.n) # {}
  BY AcceptedAscends, Zenon
<1>4. PICK all : all = names \cup Elements(sub.n)
  OBVIOUS
<1>5. PICK want : want = (data \/ sub.d)
  OBVIOUS
<1>6. all # {}
  BY <1>3, <1>4, Zenon
<1>7. PICK found : found = EntriesOf(entries, c)
  OBVIOUS
<1>8. PICK e : e = [namespaces |-> sub.n, left |-> MONITOR_EXPIRY_TIME,
                    push_conn |-> c, want_data |-> sub.d]
  OBVIOUS
<1>9. PICK new : new = IF found = {} THEN Append(entries, e)
                        ELSE [entries EXCEPT ![First(found)] = Renewed(@, sub)]
  OBVIOUS
<1>10. after = [mon EXCEPT ![x] = new]
  BY <1>x, <1>after, <1>1, <1>7, <1>8, <1>9, Zenon DEF AddSub
<1>11. MONITOR_EXPIRY_TIME - 0 = MONITOR_EXPIRY_TIME
  BY MonitorAssumption, SMT
<1>12. /\ new \in Seq(Entry)
       /\ Holds(new, c, all, want, 0)
       /\ \A d : d # c => SameFor(d, entries, new)
  <2>1. CASE found = {}
    <3>1. e \in Entry /\ e.push_conn = c
      BY <1>2, <1>3, <1>8, MonitorAssumption, SMT DEF Entry
    <3>2. e.namespaces = sub.n /\ e.left = MONITOR_EXPIRY_TIME /\ e.want_data = sub.d
      BY <1>8
    <3>3. names = {} /\ data = FALSE
      BY <1>x, <1>1, <1>7, <2>1, Zenon DEF Holds
    <3>4. want = sub.d
      BY <1>2, <1>5, <3>3
    <3>5. all = Elements(sub.n)
      BY <1>4, <3>3
    <3>6. new = Append(entries, e) /\ EntriesOf(entries, e.push_conn) = {}
      BY <1>7, <1>9, <2>1, <3>1, Zenon
    <3>7. /\ new \in Seq(Entry)
          /\ EntriesOf(new, c) = {Len(entries) + 1} /\ new[Len(entries) + 1] = e
          /\ \A d : d # c => SameFor(d, entries, new)
      <4>1. /\ new \in Seq(Entry)
            /\ EntriesOf(new, e.push_conn) = {Len(entries) + 1} /\ new[Len(entries) + 1] = e
            /\ \A d : d # e.push_conn => SameFor(d, entries, new)
        BY <1>2, <3>1, <3>6, NewEntry, Zenon
      <4>2. QED
        BY <3>1, <4>1, Zenon
    <3>8. Holds(new, c, all, want, 0)
      BY <1>3, <1>6, <1>11, <3>2, <3>4, <3>5, <3>7, Zenon DEF Holds
    <3>9. QED
      BY <3>7, <3>8, Zenon
  <2>2. CASE found # {}
    <3>1. PICK i \in found :
              /\ found = {i}
              /\ IsAscending(entries[i].namespaces) /\ Elements(entries[i].namespaces) = names
              /\ entries[i].want_data = data
      BY <1>x, <1>1, <1>7, <2>2, Zenon DEF Holds
    <3>2. i \in DOMAIN entries /\ entries[i].push_conn = c
      BY <1>7, Zenon DEF EntriesOf
    <3>3. entries[i] \in Entry /\ i \in Nat
      BY <1>2, <3>2, EntryFields, SMT
    <3>4. First(found) = i
      BY <3>1, <3>3, SMT DEF First
    <3>5. PICK r : r = Renewed(entries[i], sub)
      OBVIOUS
    <3>6. /\ r \in Entry /\ r.push_conn = c /\ r.left = MONITOR_EXPIRY_TIME
          /\ IsAscending(r.namespaces) /\ Elements(r.namespaces) = all /\ r.want_data = want
      BY <1>4, <1>5, <3>1, <3>2, <3>3, <3>5, RenewedEntry, Zenon
    <3>7. new = [entries EXCEPT ![i] = r]
      BY <1>9, <2>2, <3>4, <3>5, Zenon
    <3>8. /\ new \in Seq(Entry) /\ new[i] = r /\ EntriesOf(new, c) = EntriesOf(entries, c)
          /\ \A d : d # c => SameFor(d, entries, new)
      <4>1. /\ new \in Seq(Entry) /\ DOMAIN new = DOMAIN entries /\ new[i] = r
            /\ \A j \in DOMAIN entries : j # i => new[j] = entries[j]
        BY <1>2, <3>2, <3>6, <3>7, SMT
      <4>2. \A d : EntriesOf(new, d) = EntriesOf(entries, d)
        BY <3>2, <3>6, <4>1, Zenon DEF EntriesOf
      <4>3. ASSUME NEW d, d # c
            PROVE  SameFor(d, entries, new)
        BY <3>2, <4>1, <4>2, <4>3, Zenon DEF EntriesOf, SameFor
      <4>4. QED
        BY <4>1, <4>2, <4>3, Zenon
    <3>9. Holds(new, c, all, want, 0)
      BY <1>6, <1>7, <1>11, <3>1, <3>6, <3>8, Zenon DEF Holds
    <3>10. QED
      BY <3>8, <3>9, Zenon
  <2>3. QED
    BY <2>1, <2>2, Zenon
<1>13. /\ after \in [Accounts -> Seq(Entry)] /\ after[x] = new
       /\ \A a \in Accounts : a # x => after[a] = mon[a]
  BY <1>2, <1>12, <1>10
<1>14. /\ Holds(after[x], c, names \cup Elements(sub.n), data \/ sub.d, 0)
       /\ \A d : d # c => SameFor(d, mon[x], after[x])
  BY <1>1, <1>4, <1>5, <1>12, <1>13, Zenon
<1>15. QED
  BY <1>x, <1>after, <1>13, <1>14, Zenon

\* What a connection has asked for in an account with the first k subscriptions of a request, in
\* addition to what it had asked for before.
AsksTo(subs, a, k) == {i \in Asks(subs, a) : i <= k}
NamesTo(subs, a, k, names) == names \cup UNION {Elements(subs[i].n) : i \in AsksTo(subs, a, k)}
DataTo(subs, a, k, data) == data \/ \E i \in AsksTo(subs, a, k) : subs[i].d
AgoTo(subs, a, k, ago) == IF AsksTo(subs, a, k) = {} THEN ago ELSE 0

\* At the start nothing has been asked for, at the end all of the request.
LEMMA AsksEnds ==
    ASSUME NEW size \in Nat, NEW subs \in [1 .. size -> Subs], NEW a
    PROVE  AsksTo(subs, a, 0) = {} /\ AsksTo(subs, a, size) = Asks(subs, a)
<1>1. \A i \in DOMAIN subs : ~(i <= 0) /\ i <= size
  BY SMT
<1>2. \A i \in Asks(subs, a) : ~(i <= 0) /\ i <= size
  BY <1>1, Zenon DEF Asks
<1>3. QED
  BY <1>2 DEF AsksTo

\* A subscription that is accepted for the account counts.
LEMMA AsksGrow ==
    ASSUME NEW size \in Nat, NEW subs \in [1 .. size -> Subs], NEW a, NEW k \in 0 .. size - 1,
           subs[k + 1].account = a /\ Accepted(subs[k + 1])
    PROVE  \A i : i \in AsksTo(subs, a, k + 1) <=> i \in AsksTo(subs, a, k) \/ i = k + 1
<1>1. k + 1 \in DOMAIN subs /\ \A i \in DOMAIN subs : i <= k + 1 <=> i <= k \/ i = k + 1
  BY SMT
<1>2. k + 1 \in Asks(subs, a) /\ \A i \in Asks(subs, a) : i \in DOMAIN subs
  BY <1>1, Zenon DEF Asks
<1>3. QED
  BY <1>1, <1>2, Zenon DEF AsksTo

\* One that is refused, or is for another account, does not.
LEMMA AsksStay ==
    ASSUME NEW size \in Nat, NEW subs \in [1 .. size -> Subs], NEW a, NEW k \in 0 .. size - 1,
           ~(subs[k + 1].account = a /\ Accepted(subs[k + 1]))
    PROVE  AsksTo(subs, a, k + 1) = AsksTo(subs, a, k)
<1>1. k + 1 \in DOMAIN subs /\ \A i \in DOMAIN subs : i <= k + 1 <=> i <= k \/ i = k + 1
  BY SMT
<1>2. k + 1 \notin Asks(subs, a) /\ \A i \in Asks(subs, a) : i \in DOMAIN subs
  BY <1>1, Zenon DEF Asks
<1>3. QED
  BY <1>1, <1>2, Zenon DEF AsksTo

\* The entries after the first k subscriptions of a request of connection c, where names, data
\* and ago are what had been asked for before it.
AddedTo(mon, subs, c, k, names, data, ago) ==
    \A a \in Accounts, d \in Conns :
        IF d = c THEN Holds(mon[a], c, NamesTo(subs, a, k, names[a][c]),
                            DataTo(subs, a, k, data[a][c]), AgoTo(subs, a, k, ago[a][c]))
        ELSE Holds(mon[a], d, names[a][d], data[a][d], ago[a][d])

\* A round of the loop over the subscriptions.
LEMMA NextSubAdded ==
    ASSUME NEW size \in Nat, NEW subs \in [1 .. size -> Subs], NEW k \in 0 .. size - 1,
           NEW mon \in [Accounts -> Seq(Entry)], NEW c \in Conns,
           NEW names, NEW data \in [Accounts -> [Conns -> BOOLEAN]], NEW ago,
           AddedTo(mon, subs, c, k, names, data, ago), Accepted(subs[k + 1])
    PROVE  /\ AddSub(mon, subs[k + 1], c) \in [Accounts -> Seq(Entry)]
           /\ AddedTo(AddSub(mon, subs[k + 1], c), subs, c, k + 1, names, data, ago)
<1>1. PICK sub : sub = subs[k + 1]
  OBVIOUS
<1>2. PICK x : x = sub.account
  OBVIOUS
<1>3. PICK after : after = AddSub(mon, sub, c)
  OBVIOUS
<1>4. sub \in Subs /\ x \in Accounts /\ Accepted(sub)
  BY <1>1, <1>2, MonitorAssumption, SMT
<1>5. PICK n, b, t : /\ n = NamesTo(subs, x, k, names[x][c]) /\ b = DataTo(subs, x, k, data[x][c])
                     /\ t = AgoTo(subs, x, k, ago[x][c])
  OBVIOUS
<1>6. Holds(mon[x], c, n, b, t)
  BY <1>4, <1>5, Zenon DEF AddedTo
<1>7. b \in BOOLEAN /\ data[x][c] \in BOOLEAN
  BY <1>4, <1>5 DEF DataTo
<1>8. /\ after \in [Accounts -> Seq(Entry)]
      /\ \A a \in Accounts : a # x => after[a] = mon[a]
      /\ Holds(after[x], c, n \cup Elements(sub.n), b \/ sub.d, 0)
      /\ \A d : d # c => SameFor(d, mon[x], after[x])
  <2>1. Holds(mon[sub.account], c, n, b, t)
    BY <1>2, <1>6, Zenon
  <2>2. AddSub(mon, sub, c) \in [Accounts -> Seq(Entry)]
    BY <1>4, <1>7, <2>1, SubAdded, Zenon
  <2>a. ASSUME NEW a \in Accounts, a # sub.account
        PROVE  AddSub(mon, sub, c)[a] = mon[a]
    BY <2>a, Zenon DEF AddSub
  <2>3. Holds(AddSub(mon, sub, c)[sub.account], c, n \cup Elements(sub.n), b \/ sub.d, 0)
    BY <1>4, <1>7, <2>1, SubAdded, Zenon
  <2>4. \A d : d # c => SameFor(d, mon[sub.account], AddSub(mon, sub, c)[sub.account])
    BY <1>4, <1>7, <2>1, SubAdded, Zenon
  <2>5. QED
    BY <1>2, <1>3, <2>2, <2>a, <2>3, <2>4, Zenon
<1>9. Holds(after[x], c, NamesTo(subs, x, k + 1, names[x][c]), DataTo(subs, x, k + 1, data[x][c]),
            AgoTo(subs, x, k + 1, ago[x][c]))
  <2>1. subs[k + 1].account = x /\ Accepted(subs[k + 1])
    BY <1>1, <1>2, <1>4, Zenon
  <2>a. \A i : i \in AsksTo(subs, x, k + 1) <=> i \in AsksTo(subs, x, k) \/ i = k + 1
    BY <2>1, AsksGrow, Zenon
  <2>2. NamesTo(subs, x, k + 1, names[x][c]) = n \cup Elements(sub.n)
    BY <1>1, <1>5, <2>a, Zenon DEF NamesTo
  <2>3. DataTo(subs, x, k + 1, data[x][c]) = (b \/ sub.d)
    <3>1. DataTo(subs, x, k + 1, data[x][c]) <=> b \/ sub.d
      BY <1>1, <1>5, <2>a, Zenon DEF DataTo
    <3>2. DataTo(subs, x, k + 1, data[x][c]) \in BOOLEAN
      BY Zenon DEF DataTo
    <3>3. QED
      BY <3>1, <3>2, Zenon
  <2>4. AgoTo(subs, x, k + 1, ago[x][c]) = 0
    BY <2>a, Zenon DEF AgoTo
  <2>5. QED
    BY <1>8, <2>2, <2>3, <2>4, Zenon
<1>10. ASSUME NEW a \in Accounts, NEW d \in Conns
       PROVE  IF d = c THEN Holds(after[a], c, NamesTo(subs, a, k + 1, names[a][c]),
                      DataTo(subs, a, k + 1, data[a][c]), AgoTo(subs, a, k + 1, ago[a][c]))
              ELSE Holds(after[a], d, names[a][d], data[a][d], ago[a][d])
  <2>1. CASE a = x /\ d = c
    BY <1>9, <2>1, Zenon
  <2>2. CASE a = x /\ d # c
    <3>1. Holds(mon[x], d, names[x][d], data[x][d], ago[x][d])
      BY <2>2 DEF AddedTo
    <3>2. SameFor(d, mon[x], after[x])
      BY <1>8, <2>2
    <3>3. Holds(after[x], d, names[x][d], data[x][d], ago[x][d])
      BY <3>1, <3>2, HoldsOwn
    <3>4. QED
      BY <2>2, <3>3
  <2>3. CASE a # x
    <3>1. AsksTo(subs, a, k + 1) = AsksTo(subs, a, k)
      BY <1>1, <1>2, <2>3, AsksStay, Zenon
    <3>2. /\ NamesTo(subs, a, k + 1, names[a][c]) = NamesTo(subs, a, k, names[a][c])
          /\ DataTo(subs, a, k + 1, data[a][c]) = DataTo(subs, a, k, data[a][c])
          /\ AgoTo(subs, a, k + 1, ago[a][c]) = AgoTo(subs, a, k, ago[a][c])
      BY <3>1, Zenon DEF NamesTo, DataTo, AgoTo
    <3>3. after[a] = mon[a]
      BY <1>8, <2>3, Zenon
    <3>4. QED
      BY <3>2, <3>3, Zenon DEF AddedTo
  <2>4. QED
    BY <2>1, <2>2, <2>3, Zenon
<1>11. AddedTo(after, subs, c, k + 1, names, data, ago)
  BY <1>10, Zenon DEF AddedTo
<1>12. QED
  BY <1>1, <1>3, <1>8, <1>11, Zenon

\* handle_monitor_messages has added all the accepted subscriptions at the end of its loop.
LEMMA AllSubsAdded ==
    ASSUME NEW size \in Nat, NEW subs \in [1 .. size -> Subs],
           NEW mon \in [Accounts -> Seq(Entry)], NEW c \in Conns,
           NEW names, NEW data \in [Accounts -> [Conns -> BOOLEAN]], NEW ago,
           \A a \in Accounts, d \in Conns : Holds(mon[a], d, names[a][d], data[a][d], ago[a][d]),
           NEW after, after = Loop(SubsRound(subs, c), [it |-> 1, mon |-> mon], Len(subs)).mon
    PROVE  /\ after \in [Accounts -> Seq(Entry)]
           /\ AddedTo(after, subs, c, size, names, data, ago)
<1> DEFINE I == [k \in 0 .. size |->
                    {s \in Adding(subs) :
                        s.it = k + 1 /\ AddedTo(s.mon, subs, c, k, names, data, ago)}]
           start == [it |-> 1, mon |-> mon]
           round == SubsRound(subs, c)
<1> HIDE DEF I, start, round
<1>1. subs \in Seq(Subs) /\ Len(subs) = size
  BY SMT
<1>2. AddedTo(mon, subs, c, 0, names, data, ago)
  <2>1. \A a : AsksTo(subs, a, 0) = {}
    BY AsksEnds, Zenon
  <2>2. SUFFICES ASSUME NEW a \in Accounts
                 PROVE  /\ NamesTo(subs, a, 0, names[a][c]) = names[a][c]
                        /\ DataTo(subs, a, 0, data[a][c]) = data[a][c]
                        /\ AgoTo(subs, a, 0, ago[a][c]) = ago[a][c]
    BY Zenon DEF AddedTo
  <2>3. NamesTo(subs, a, 0, names[a][c]) = names[a][c]
    BY <2>1, Zenon DEF NamesTo
  <2>4. data[a][c] \in BOOLEAN
    OBVIOUS
  <2>5. DataTo(subs, a, 0, data[a][c]) = data[a][c]
    BY <2>1, <2>4 DEF DataTo
  <2>6. QED
    BY <2>1, <2>3, <2>5, Zenon DEF AgoTo
<1>3. start \in Adding(subs) /\ start.it = 0 + 1 /\ start.mon = mon
  BY <1>1, SMT DEF Adding, start
<1>4. ASSUME NEW k \in 0 .. size - 1, NEW s \in Adding(subs), s.it = k + 1,
             AddedTo(s.mon, subs, c, k, names, data, ago)
      PROVE  /\ round[s] \in Adding(subs) /\ round[s].it = k + 1 + 1
             /\ AddedTo(round[s].mon, subs, c, k + 1, names, data, ago)
  <2>1. s.mon \in [Accounts -> Seq(Entry)]
    BY DEF Adding
  <2>2. PICK next : next = IF Accepted(subs[k + 1]) THEN AddSub(s.mon, subs[k + 1], c) ELSE s.mon
    OBVIOUS
  <2>3. next \in [Accounts -> Seq(Entry)] /\ AddedTo(next, subs, c, k + 1, names, data, ago)
    <3>1. CASE Accepted(subs[k + 1])
      BY <1>4, <2>1, <2>2, <3>1, NextSubAdded, Zenon
    <3>2. CASE ~Accepted(subs[k + 1])
      <4>1. \A a : AsksTo(subs, a, k + 1) = AsksTo(subs, a, k)
        BY <3>2, AsksStay, Zenon
      <4>2. QED
        BY <1>4, <2>1, <2>2, <3>2, <4>1, Zenon DEF AddedTo, NamesTo, DataTo, AgoTo
    <3>3. QED
      BY <3>1, <3>2, Zenon
  <2>4. ~(s.it > Len(subs)) /\ k + 1 + 1 \in 1 .. Len(subs) + 1
    BY <1>1, <1>4, SMT
  <2>5. round[s] = [it |-> k + 1 + 1, mon |-> next]
    BY <1>4, <2>2, <2>4, Zenon DEF SubsRound, round
  <2>6. round[s] \in Adding(subs) /\ round[s].it = k + 1 + 1 /\ round[s].mon = next
    <3>1. PICK r : r = [it |-> k + 1 + 1, mon |-> next]
      OBVIOUS
    <3>2. r \in Adding(subs) /\ r.it = k + 1 + 1 /\ r.mon = next
      BY <2>3, <2>4, <3>1 DEF Adding
    <3>3. QED
      BY <2>5, <3>1, <3>2, Zenon
  <2>7. QED
    BY <2>3, <2>6, Zenon
<1>5. /\ 0 \in 0 .. size /\ size \in 0 .. size
      /\ \A k \in 0 .. size - 1 : k \in 0 .. size /\ k + 1 \in 0 .. size
  BY SMT
<1>6. start \in I[0]
  BY <1>2, <1>3, <1>5, Zenon DEF I
<1>7. \A k \in 0 .. size - 1 : \A s \in I[k] : round[s] \in I[k + 1]
  BY <1>4, <1>5, Zenon DEF I
<1>8. Loop(round, start, size) \in I[size]
  BY <1>6, <1>7, LoopInduction, Zenon
<1>9. PICK s \in Adding(subs) : /\ s.mon = after
                                /\ AddedTo(s.mon, subs, c, size, names, data, ago)
  BY <1>1, <1>5, <1>8, Zenon DEF I, start, round
<1>10. QED
  BY <1>9 DEF Adding

-----------------------------------------------------------------------------
(***************************************************************************)
(* The subscriptions.                                                      *)
(***************************************************************************)

\* What a connection is subscribed to is part of what it has asked for, until the time is over.
Current(a, c) ==
    /\ subscribed_to[a][c] \subseteq asked[a][c] /\ (with_data[a][c] => asked_data[a][c])
    /\ subscribed_to[a][c] # {} <=> asked_ago[a][c] <= MONITOR_EXPIRY_TIME

\* What is held is all that was ever asked for, with the time that is left.
MonitorInv ==
    /\ MonitorTypeOK
    /\ \A a \in Accounts, c \in Conns :
          Holds(monitoring[a], c, asked[a][c], asked_data[a][c], asked_ago[a][c])
    /\ \A a \in Accounts, c \in Conns : Current(a, c)

\* The passing of time changes the time that is left, which follows the time since a connection
\* last asked, and nothing else.
LEMMA TimeLeft ==
    ASSUME NEW entries \in Seq(Entry), NEW after,
           after = [i \in DOMAIN entries |->
                       [entries[i] EXCEPT !.left = IF @ < 0 THEN @ ELSE @ - 1]]
    PROVE  /\ after \in Seq(Entry)
           /\ \A c, names, data : \A ago \in 0 .. NEVER :
                 Holds(entries, c, names, data, ago) =>
                 Holds(after, c, names, data, IF ago = NEVER THEN NEVER ELSE ago + 1)
<1>1. ASSUME NEW e \in Entry, NEW r, r = [e EXCEPT !.left = IF @ < 0 THEN @ ELSE @ - 1]
      PROVE  /\ r \in Entry /\ r.push_conn = e.push_conn /\ r.namespaces = e.namespaces
             /\ r.want_data = e.want_data /\ r.left = IF e.left < 0 THEN e.left ELSE e.left - 1
  <2>1. PICK left : left = IF e.left < 0 THEN e.left ELSE e.left - 1
    OBVIOUS
  <2>2. r = [e EXCEPT !.left = left]
    BY <1>1, <2>1, Zenon
  <2>3. e.left \in -1 .. MONITOR_EXPIRY_TIME
    BY DEF Entry
  <2>4. left \in -1 .. MONITOR_EXPIRY_TIME
    BY <2>1, <2>3, MonitorAssumption, SMT
  <2>5. /\ r \in Entry /\ r.push_conn = e.push_conn /\ r.namespaces = e.namespaces
        /\ r.want_data = e.want_data /\ r.left = left
    BY <2>2, <2>4 DEF Entry
  <2>6. QED
    BY <2>1, <2>5, Zenon
<1>2. Len(entries) \in Nat /\ DOMAIN entries = 1 .. Len(entries)
  BY EntryFields, Zenon
<1>3. DOMAIN after = DOMAIN entries
  BY Zenon
<1>4. ASSUME NEW i \in DOMAIN entries
      PROVE  /\ after[i] \in Entry
             /\ after[i].push_conn = entries[i].push_conn
             /\ after[i].namespaces = entries[i].namespaces
             /\ after[i].want_data = entries[i].want_data
             /\ after[i].left = IF entries[i].left < 0 THEN entries[i].left ELSE entries[i].left - 1
  <2>1. entries[i] \in Entry
    BY EntryFields, Zenon
  <2>2. after[i] = [entries[i] EXCEPT !.left = IF @ < 0 THEN @ ELSE @ - 1]
    BY Zenon
  <2>3. QED
    BY <1>1, <2>1, <2>2, Zenon
<1>5. after \in [1 .. Len(entries) -> Entry]
  BY <1>2, <1>4, Zenon
<1>6. after \in Seq(Entry)
  BY <1>2, <1>5, SMT
<1>7. ASSUME NEW c, NEW names, NEW data, NEW ago \in 0 .. NEVER,
             Holds(entries, c, names, data, ago)
      PROVE  Holds(after, c, names, data, IF ago = NEVER THEN NEVER ELSE ago + 1)
  <2>1. PICK later : later = IF ago = NEVER THEN NEVER ELSE ago + 1
    OBVIOUS
  <2>2. EntriesOf(after, c) = EntriesOf(entries, c)
    BY <1>3, <1>4, Zenon DEF EntriesOf
  <2>3. CASE names = {}
    <3>1. ago = NEVER /\ data = FALSE /\ EntriesOf(entries, c) = {}
      BY <1>7, <2>3, Zenon DEF Holds
    <3>2. QED
      BY <2>2, <2>3, <3>1, Zenon DEF Holds
  <2>4. CASE names # {}
    <3>1. PICK i \in EntriesOf(entries, c) :
              /\ EntriesOf(entries, c) = {i}
              /\ IsAscending(entries[i].namespaces) /\ Elements(entries[i].namespaces) = names
              /\ entries[i].want_data = data /\ entries[i].left = MONITOR_EXPIRY_TIME - ago
      BY <1>7, <2>4, Zenon DEF Holds
    <3>2. i \in DOMAIN entries
      BY Zenon DEF EntriesOf
    <3>3. after[i].left = MONITOR_EXPIRY_TIME - later
      <4>1. PICK left : left = entries[i].left
        OBVIOUS
      <4>2. after[i].left = IF left < 0 THEN left ELSE left - 1
        BY <1>4, <3>2, <4>1, Zenon
      <4>3. left = MONITOR_EXPIRY_TIME - ago
        BY <3>1, <4>1, Zenon
      <4>4. QED
        BY <2>1, <4>2, <4>3, MonitorAssumption, SMT DEF NEVER
    <3>4. Holds(after, c, names, data, later)
      BY <1>4, <2>2, <2>4, <3>1, <3>2, <3>3, Zenon DEF Holds
    <3>5. QED
      BY <2>1, <3>4, Zenon
  <2>5. QED
    BY <2>3, <2>4, Zenon
<1>8. QED
  BY <1>6, <1>7, Zenon

\* No connection has subscribed at the start.
LEMMA MonitorInvInit ==
    ASSUME MonitorInit
    PROVE  MonitorInv
<1>1. MonitorTypeOK
  BY MonitorAssumption, SMT DEF MonitorInit, MonitorTypeOK, NEVER
<1>2. ASSUME NEW a \in Accounts, NEW c \in Conns
      PROVE  Holds(monitoring[a], c, asked[a][c], asked_data[a][c], asked_ago[a][c])
  <2>1. /\ monitoring[a] = <<>> /\ asked[a][c] = {} /\ asked_data[a][c] = FALSE
        /\ asked_ago[a][c] = NEVER
    BY DEF MonitorInit
  <2>2. EntriesOf(<<>>, c) = {}
    BY SMT DEF EntriesOf
  <2>3. QED
    BY <2>1, <2>2, Zenon DEF Holds
<1>3. ASSUME NEW a \in Accounts, NEW c \in Conns
      PROVE  Current(a, c)
  <2>1. ~(NEVER <= MONITOR_EXPIRY_TIME)
    BY MonitorAssumption, SMT DEF NEVER
  <2>2. /\ subscribed_to[a][c] = {} /\ ~with_data[a][c] /\ asked_ago[a][c] = NEVER
    BY DEF MonitorInit
  <2>3. QED
    BY <2>1, <2>2 DEF Current
<1>4. QED
  BY <1>1, <1>2, <1>3, Zenon DEF MonitorInv

\* The namespaces and the data flags with those of a request.
LEMMA WithRequest ==
    ASSUME NEW names \in [Accounts -> [Conns -> SUBSET Namespaces]],
           NEW data \in [Accounts -> [Conns -> BOOLEAN]],
           NEW c \in Conns, NEW size \in Nat, NEW subs \in [1 .. size -> Subs]
    PROVE  /\ WithNames(names, subs, c) \in [Accounts -> [Conns -> SUBSET Namespaces]]
           /\ WithData(data, subs, c) \in [Accounts -> [Conns -> BOOLEAN]]
<1>1. ASSUME NEW i \in DOMAIN subs
      PROVE  Elements(subs[i].n) \subseteq Namespaces
  <2>1. subs[i].n \in Seq(Namespaces)
    BY MonitorAssumption
  <2>2. QED
    BY <2>1, SMT DEF Elements
<1>2. \A a \in Accounts : UNION {Elements(subs[i].n) : i \in Asks(subs, a)} \subseteq Namespaces
  BY <1>1, Zenon DEF Asks
<1>3. \A a \in Accounts :
          [names[a] EXCEPT ![c] = @ \cup UNION {Elements(subs[i].n) : i \in Asks(subs, a)}]
          \in [Conns -> SUBSET Namespaces]
  <2>1. ASSUME NEW a \in Accounts, NEW more \in SUBSET Namespaces
        PROVE  [names[a] EXCEPT ![c] = @ \cup more] \in [Conns -> SUBSET Namespaces]
    BY SMT
  <2>2. QED
    BY <1>2, <2>1, Zenon
<1>4. WithNames(names, subs, c) \in [Accounts -> [Conns -> SUBSET Namespaces]]
  BY <1>3, Zenon DEF WithNames
<1>5. WithData(data, subs, c) \in [Accounts -> [Conns -> BOOLEAN]]
  BY Zenon DEF WithData
<1>6. QED
  BY <1>4, <1>5, Zenon

\* A request.
LEMMA MonitorInvHandle ==
    ASSUME MonitorInv, NEW c \in Conns, NEW size \in 0 .. MaxSubs,
           NEW subs \in [1 .. size -> Subs], HandleMonitorMessages(c, subs)
    PROVE  MonitorInv'
<1>1. size \in Nat
  BY MonitorAssumption, SMT
<1>2. /\ monitoring \in [Accounts -> Seq(Entry)]
      /\ asked \in [Accounts -> [Conns -> SUBSET Namespaces]]
      /\ asked_data \in [Accounts -> [Conns -> BOOLEAN]]
      /\ asked_ago \in [Accounts -> [Conns -> 0 .. NEVER]]
      /\ subscribed_to \in [Accounts -> [Conns -> SUBSET Namespaces]]
      /\ with_data \in [Accounts -> [Conns -> BOOLEAN]]
  BY Zenon DEF MonitorInv, MonitorTypeOK
<1>3. \A a \in Accounts, d \in Conns :
          Holds(monitoring[a], d, asked[a][d], asked_data[a][d], asked_ago[a][d])
  BY Zenon DEF MonitorInv
<1>4. monitoring' = Loop(SubsRound(subs, c), [it |-> 1, mon |-> monitoring], Len(subs)).mon
  BY Zenon DEF HandleMonitorMessages
<1>5. /\ monitoring' \in [Accounts -> Seq(Entry)]
      /\ AddedTo(monitoring', subs, c, size, asked, asked_data, asked_ago)
  BY <1>1, <1>2, <1>3, <1>4, AllSubsAdded, Zenon
<1>6. \A a : AsksTo(subs, a, size) = Asks(subs, a)
  BY <1>1, AsksEnds, Zenon
<1>7. /\ asked' = WithNames(asked, subs, c) /\ asked_data' = WithData(asked_data, subs, c)
      /\ subscribed_to' = WithNames(subscribed_to, subs, c)
      /\ with_data' = WithData(with_data, subs, c)
  BY Zenon DEF HandleMonitorMessages
<1>8. \A a \in Accounts, d \in Conns :
         asked'[a][d] = IF d = c THEN NamesTo(subs, a, size, asked[a][c]) ELSE asked[a][d]
  <2>1. ASSUME NEW a \in Accounts, NEW d \in Conns
        PROVE  asked'[a][d] =
                   IF d = c THEN asked[a][c] \cup UNION {Elements(subs[i].n) : i \in Asks(subs, a)}
                   ELSE asked[a][d]
    BY <1>2, <1>7 DEF WithNames
  <2>2. QED
    BY <1>6, <2>1 DEF NamesTo
<1>9. \A a \in Accounts, d \in Conns :
         asked_data'[a][d] = IF d = c THEN DataTo(subs, a, size, asked_data[a][c])
                             ELSE asked_data[a][d]
  <2>1. ASSUME NEW a \in Accounts, NEW d \in Conns
        PROVE  asked_data'[a][d] =
                   IF d = c THEN asked_data[a][c] \/ \E i \in Asks(subs, a) : subs[i].d
                   ELSE asked_data[a][d]
    BY <1>2, <1>7 DEF WithData
  <2>2. ASSUME NEW a \in Accounts
        PROVE  DataTo(subs, a, size, asked_data[a][c]) =
                   (asked_data[a][c] \/ \E i \in Asks(subs, a) : subs[i].d)
    BY <1>6, SMT DEF DataTo
  <2>3. QED
    BY <2>1, <2>2, Zenon
<1>10. \A a \in Accounts, d \in Conns :
          asked_ago'[a][d] = IF d = c THEN AgoTo(subs, a, size, asked_ago[a][c])
                             ELSE asked_ago[a][d]
  <2>1. ASSUME NEW a \in Accounts, NEW d \in Conns
        PROVE  asked_ago'[a][d] =
                   IF d = c THEN IF Asks(subs, a) = {} THEN asked_ago[a][c] ELSE 0
                   ELSE asked_ago[a][d]
    BY <1>2 DEF HandleMonitorMessages
  <2>2. ASSUME NEW a \in Accounts
        PROVE  AgoTo(subs, a, size, asked_ago[a][c]) =
                   IF Asks(subs, a) = {} THEN asked_ago[a][c] ELSE 0
    BY <1>6, SMT DEF AgoTo
  <2>3. QED
    BY <2>1, <2>2
<1>11. \A a \in Accounts, d \in Conns :
           Holds(monitoring'[a], d, asked'[a][d], asked_data'[a][d], asked_ago'[a][d])
  <2>1. ASSUME NEW a \in Accounts, NEW d \in Conns, d = c
        PROVE  Holds(monitoring'[a], d, asked'[a][d], asked_data'[a][d], asked_ago'[a][d])
    BY <1>5, <1>8, <1>9, <1>10, <2>1 DEF AddedTo
  <2>2. ASSUME NEW a \in Accounts, NEW d \in Conns, d # c
        PROVE  Holds(monitoring'[a], d, asked'[a][d], asked_data'[a][d], asked_ago'[a][d])
    BY <1>5, <1>8, <1>9, <1>10, <2>2 DEF AddedTo
  <2>3. QED
    BY <2>1, <2>2
<1>12. /\ asked' \in [Accounts -> [Conns -> SUBSET Namespaces]]
       /\ subscribed_to' \in [Accounts -> [Conns -> SUBSET Namespaces]]
  BY <1>1, <1>2, <1>7, WithRequest
<1>13. /\ asked_data' \in [Accounts -> [Conns -> BOOLEAN]]
       /\ with_data' \in [Accounts -> [Conns -> BOOLEAN]]
  BY <1>1, <1>2, <1>7, WithRequest
<1>14. asked_ago' \in [Accounts -> [Conns -> 0 .. NEVER]]
  <2>1. 0 \in 0 .. NEVER
    BY MonitorAssumption, SMT DEF NEVER
  <2>2. asked_ago \in [Accounts -> [Conns -> 0 .. NEVER]]
    BY <1>2
  <2>3. \A a \in Accounts : [asked_ago[a] EXCEPT ![c] = IF Asks(subs, a) = {} THEN @ ELSE 0]
                            \in [Conns -> 0 .. NEVER]
    BY <2>1, <2>2, Zenon
  <2>4. QED
    BY <2>3, Zenon DEF HandleMonitorMessages
<1>15. MonitorTypeOK'
  BY <1>5, <1>12, <1>13, <1>14, Zenon
  DEF MonitorInv, MonitorTypeOK, HandleMonitorMessages
<1>16. ASSUME NEW a \in Accounts, NEW d \in Conns
       PROVE  Current(a, d)'
  <2>1. Current(a, d) /\ Current(a, c)
    BY Zenon DEF MonitorInv
  <2>2. CASE d # c
    <3>1. /\ asked'[a][d] = asked[a][d] /\ asked_data'[a][d] = asked_data[a][d]
          /\ subscribed_to'[a][d] = subscribed_to[a][d] /\ with_data'[a][d] = with_data[a][d]
      BY <1>2, <1>7, <2>2, SMT DEF WithNames, WithData
    <3>2. asked_ago'[a][d] = asked_ago[a][d]
      BY <1>10, <2>2
    <3>3. QED
      BY <2>1, <3>1, <3>2 DEF Current
  <2>3. CASE d = c
    <3>1. PICK more : more = UNION {Elements(subs[i].n) : i \in Asks(subs, a)}
      OBVIOUS
    <3>2. PICK d_asked \in BOOLEAN : d_asked <=> \E i \in Asks(subs, a) : subs[i].d
      OBVIOUS
    <3>3. /\ asked'[a][c] = asked[a][c] \cup more
          /\ subscribed_to'[a][c] = subscribed_to[a][c] \cup more
      BY <1>2, <1>7, <3>1 DEF WithNames
    <3>4. /\ asked_data'[a][c] <=> (asked_data[a][c] \/ d_asked)
          /\ with_data'[a][c] <=> (with_data[a][c] \/ d_asked)
      BY <1>2, <1>7, <3>2 DEF WithData
    <3>5. Asks(subs, a) # {} => more # {}
      <4> SUFFICES ASSUME NEW i \in Asks(subs, a)
                   PROVE  more # {}
        OBVIOUS
      <4>1. subs[i].n # <<>> /\ subs[i].n \in Seq(Namespaces)
        BY MonitorAssumption DEF Asks, Accepted
      <4>2. PICK n \in Seq(Namespaces) : n = subs[i].n
        BY <4>1
      <4>3. 1 \in DOMAIN n
        BY <4>1, <4>2, SMT
      <4>4. n[1] \in Elements(subs[i].n)
        BY <4>2, <4>3 DEF Elements
      <4>5. n[1] \in more
        BY <3>1, <4>4
      <4>6. QED
        BY <4>5
    <3>6. Asks(subs, a) = {} => more = {}
      BY <3>1
    <3>7. asked_ago'[a][c] = IF Asks(subs, a) = {} THEN asked_ago[a][c] ELSE 0
      BY <1>2 DEF HandleMonitorMessages
    <3>8. 0 <= MONITOR_EXPIRY_TIME
      BY MonitorAssumption, SMT
    <3>9. subscribed_to'[a][c] # {} <=> asked_ago'[a][c] <= MONITOR_EXPIRY_TIME
      <4>1. CASE Asks(subs, a) = {}
        <5>1. subscribed_to'[a][c] = subscribed_to[a][c] /\ asked_ago'[a][c] = asked_ago[a][c]
          BY <3>3, <3>6, <3>7, <4>1
        <5>2. QED
          BY <2>1, <5>1 DEF Current
      <4>2. CASE Asks(subs, a) # {}
        BY <3>3, <3>5, <3>7, <3>8, <4>2
      <4>3. QED
        BY <4>1, <4>2
    <3>10. subscribed_to'[a][c] \subseteq asked'[a][c] /\ (with_data'[a][c] => asked_data'[a][c])
      BY <2>1, <3>3, <3>4 DEF Current
    <3>11. QED
      BY <2>3, <3>9, <3>10 DEF Current
  <2>4. QED
    BY <2>2, <2>3
<1>17. QED
  BY <1>11, <1>15, <1>16, Zenon DEF MonitorInv

\* A new message leaves the entries as they are.
LEMMA MonitorInvSend ==
    ASSUME MonitorInv, NEW account \in Accounts, NEW n \in Namespaces, SendNotifies(account, n)
    PROVE  MonitorInv'
<1>1. /\ monitoring' = monitoring /\ asked' = asked /\ asked_data' = asked_data
      /\ asked_ago' = asked_ago /\ subscribed_to' = subscribed_to /\ with_data' = with_data
  BY Zenon DEF SendNotifies, subscriptionVars
<1>2. monitoring[account] \in Seq(Entry)
  BY Zenon DEF MonitorInv, MonitorTypeOK
<1>3. \A i \in DOMAIN monitoring[account] : i \in Nat /\ monitoring[account][i].push_conn \in Conns
  BY <1>2, EntryFields, SMT
<1>4. notifies' \subseteq [to : Conns, entry : Nat, what : {"metadata", "data"}]
  <2>1. ASSUME NEW s \in notifies'
        PROVE  \E i \in DOMAIN monitoring[account], what \in {"metadata", "data"} :
                  s = [to |-> monitoring[account][i].push_conn, entry |-> i, what |-> what]
    BY Zenon DEF SendNotifies, RelayTo
  <2>2. ASSUME NEW s \in notifies'
        PROVE  s \in [to : Conns, entry : Nat, what : {"metadata", "data"}]
    <3>1. PICK i \in DOMAIN monitoring[account], what \in {"metadata", "data"} :
              s = [to |-> monitoring[account][i].push_conn, entry |-> i, what |-> what]
      BY <2>1, Zenon
    <3>2. PICK c : c = monitoring[account][i].push_conn
      OBVIOUS
    <3>3. s = [to |-> c, entry |-> i, what |-> what] /\ c \in Conns /\ i \in Nat
      BY <1>3, <3>1, <3>2, Zenon
    <3>4. QED
      BY <3>3
  <2>3. QED
    BY <2>2, Zenon
<1>5. MonitorTypeOK'
  BY <1>1, <1>4, Zenon DEF MonitorInv, MonitorTypeOK
<1>6. QED
  BY <1>1, <1>5, Zenon DEF MonitorInv, Current

\* Time passes.
LEMMA MonitorInvTick ==
    ASSUME MonitorInv, Tick
    PROVE  MonitorInv'
<1>1. /\ monitoring \in [Accounts -> Seq(Entry)]
      /\ asked_ago \in [Accounts -> [Conns -> 0 .. NEVER]]
  BY Zenon DEF MonitorInv, MonitorTypeOK
<1>2. ASSUME NEW a \in Accounts
      PROVE  /\ monitoring'[a] \in Seq(Entry)
             /\ \A c, names, data : \A ago \in 0 .. NEVER :
                   Holds(monitoring[a], c, names, data, ago) =>
                   Holds(monitoring'[a], c, names, data, IF ago = NEVER THEN NEVER ELSE ago + 1)
  <2>1. PICK entries, after : entries = monitoring[a] /\ after = monitoring'[a]
    OBVIOUS
  <2>2. entries \in Seq(Entry)
    BY <1>1, <2>1, Zenon
  <2>3. after = [i \in DOMAIN entries |-> [entries[i] EXCEPT !.left = IF @ < 0 THEN @ ELSE @ - 1]]
    BY <2>1, Zenon DEF Tick
  <2>4. after \in Seq(Entry)
    BY <2>2, <2>3, TimeLeft, Zenon
  <2>5. \A c, names, data : \A ago \in 0 .. NEVER :
            Holds(entries, c, names, data, ago) =>
            Holds(after, c, names, data, IF ago = NEVER THEN NEVER ELSE ago + 1)
    BY <2>2, <2>3, TimeLeft, Zenon
  <2>6. QED
    BY <2>1, <2>4, <2>5, Zenon
<1>3. \A a \in Accounts, c \in Conns :
          asked_ago'[a][c] = IF asked_ago[a][c] = NEVER THEN NEVER ELSE asked_ago[a][c] + 1
  BY Zenon DEF Tick
<1>4. asked' = asked /\ asked_data' = asked_data /\ notifies' = notifies
  BY Zenon DEF Tick
<1>5. monitoring' \in [Accounts -> Seq(Entry)]
  <2>1. monitoring' = [a \in Accounts |-> monitoring'[a]]
    BY Zenon DEF Tick
  <2>2. QED
    BY <1>2, <2>1, Zenon
<1>6. asked_ago' \in [Accounts -> [Conns -> 0 .. NEVER]]
  <2>1. \A ago \in 0 .. NEVER : (IF ago = NEVER THEN NEVER ELSE ago + 1) \in 0 .. NEVER
    BY MonitorAssumption, SMT DEF NEVER
  <2>2. QED
    BY <1>1, <2>1, Zenon DEF Tick
<1>7. MonitorTypeOK'
  <2>1. subscribed_to' \in [Accounts -> [Conns -> SUBSET Namespaces]]
    BY Zenon DEF Tick, MonitorInv, MonitorTypeOK
  <2>2. with_data' \in [Accounts -> [Conns -> BOOLEAN]]
    BY Zenon DEF Tick
  <2>3. QED
    BY <1>4, <1>5, <1>6, <2>1, <2>2, Zenon DEF MonitorInv, MonitorTypeOK
<1>8. ASSUME NEW a \in Accounts, NEW c \in Conns
      PROVE  Holds(monitoring'[a], c, asked'[a][c], asked_data'[a][c], asked_ago'[a][c])
  <2>1. asked_ago[a][c] \in 0 .. NEVER
    BY <1>1, Zenon
  <2>2. Holds(monitoring[a], c, asked[a][c], asked_data[a][c], asked_ago[a][c])
    BY Zenon DEF MonitorInv
  <2>3. QED
    BY <1>2, <1>3, <1>4, <2>1, <2>2, Zenon
<1>9. ASSUME NEW a \in Accounts, NEW c \in Conns
      PROVE  Current(a, c)'
  <2>1. Current(a, c)
    BY Zenon DEF MonitorInv
  <2>2. PICK ago : ago = asked_ago[a][c] /\ ago \in 0 .. NEVER
    BY <1>1, Zenon
  <2>3. PICK later : later = asked_ago'[a][c]
    OBVIOUS
  <2>4. later = IF ago = NEVER THEN NEVER ELSE ago + 1
    BY <1>3, <2>2, <2>3
  <2>5. /\ later <= MONITOR_EXPIRY_TIME <=> ago < MONITOR_EXPIRY_TIME
        /\ ago < MONITOR_EXPIRY_TIME => ago <= MONITOR_EXPIRY_TIME
    BY <2>2, <2>4, MonitorAssumption, SMT DEF NEVER
  <2>6. /\ subscribed_to'[a][c] = IF ago < MONITOR_EXPIRY_TIME THEN subscribed_to[a][c] ELSE {}
        /\ with_data'[a][c] <=> (ago < MONITOR_EXPIRY_TIME /\ with_data[a][c])
    BY <2>2, Zenon DEF Tick
  <2>7. QED
    BY <1>4, <2>1, <2>2, <2>3, <2>5, <2>6, Zenon DEF Current
<1>10. QED
  BY <1>7, <1>8, <1>9, Zenon DEF MonitorInv

\* A connection has one entry for an account at most, with all that it has ever asked for and with
\* the time that is left since it last asked.
THEOREM MonitorInvariant == MonitorSpec => []MonitorInv
<1>1. MonitorInit => MonitorInv
  BY MonitorInvInit, Zenon
<1>2. MonitorInv /\ [MonitorNext]_monitorVars => MonitorInv'
  <2>1. SUFFICES ASSUME MonitorInv, [MonitorNext]_monitorVars PROVE MonitorInv'
    OBVIOUS
  <2>2. CASE MonitorNext
    BY <2>1, <2>2, MonitorInvHandle, MonitorInvSend, MonitorInvTick, Zenon DEF MonitorNext
  <2>3. CASE UNCHANGED monitorVars
    <3>1. /\ monitoring' = monitoring /\ asked' = asked /\ asked_data' = asked_data
          /\ asked_ago' = asked_ago /\ subscribed_to' = subscribed_to /\ with_data' = with_data
          /\ notifies' = notifies
      BY <2>3, Zenon DEF monitorVars, subscriptionVars
    <3>2. QED
      BY <2>1, <3>1, Zenon DEF MonitorInv, MonitorTypeOK, Current
  <2>4. QED
    BY <2>1, <2>2, <2>3, Zenon
<1>3. QED
  BY <1>1, <1>2, PTL DEF MonitorSpec

\* The time that is left runs out with the time since a connection last asked.
LEMMA LeftInTime ==
    ASSUME NEW ago \in 0 .. NEVER, NEW left, left = MONITOR_EXPIRY_TIME - ago
    PROVE  /\ left >= 0 <=> ago <= MONITOR_EXPIRY_TIME
           /\ left < 0 <=> ~(ago <= MONITOR_EXPIRY_TIME)
BY MonitorAssumption, SMT DEF NEVER

\* Subscriptions of a connection add up, in whatever pieces and order they come and are renewed,
\* and count for nothing once they have expired.
THEOREM SubscriptionsSafe == MonitorSpec => []SubscriptionsAddUp
<1>1. MonitorInv => SubscriptionsAddUp
  <2> SUFFICES ASSUME MonitorInv, NEW a \in Accounts, NEW c \in Conns
               PROVE  IF subscribed_to[a][c] = {}
                      THEN \A i \in EntriesOf(monitoring[a], c) : monitoring[a][i].left < 0
                      ELSE \E i \in EntriesOf(monitoring[a], c) :
                          /\ EntriesOf(monitoring[a], c) = {i} /\ monitoring[a][i].left >= 0
                          /\ IsAscending(monitoring[a][i].namespaces)
                          /\ subscribed_to[a][c] \subseteq Elements(monitoring[a][i].namespaces)
                          /\ Elements(monitoring[a][i].namespaces) \subseteq asked[a][c]
                          /\ with_data[a][c] => monitoring[a][i].want_data
                          /\ monitoring[a][i].want_data => asked_data[a][c]
    BY Zenon DEF SubscriptionsAddUp
  <2>1. /\ Holds(monitoring[a], c, asked[a][c], asked_data[a][c], asked_ago[a][c])
        /\ Current(a, c) /\ asked_ago[a][c] \in 0 .. NEVER
    BY Zenon DEF MonitorInv, MonitorTypeOK
  <2>2. CASE asked[a][c] = {}
    <3>1. EntriesOf(monitoring[a], c) = {} /\ subscribed_to[a][c] = {}
      BY <2>1, <2>2, Zenon DEF Holds, Current
    <3>2. QED
      BY <3>1, Zenon
  <2>3. CASE asked[a][c] # {}
    <3>1. PICK i \in EntriesOf(monitoring[a], c) :
              /\ EntriesOf(monitoring[a], c) = {i}
              /\ IsAscending(monitoring[a][i].namespaces)
              /\ Elements(monitoring[a][i].namespaces) = asked[a][c]
              /\ monitoring[a][i].want_data = asked_data[a][c]
              /\ monitoring[a][i].left = MONITOR_EXPIRY_TIME - asked_ago[a][c]
      BY <2>1, <2>3, Zenon DEF Holds
    <3>2. /\ monitoring[a][i].left >= 0 <=> subscribed_to[a][c] # {}
          /\ monitoring[a][i].left < 0 <=> subscribed_to[a][c] = {}
      BY <2>1, <3>1, LeftInTime, Zenon DEF Current
    <3>3. subscribed_to[a][c] \subseteq asked[a][c] /\ (with_data[a][c] => asked_data[a][c])
      BY <2>1, Zenon DEF Current
    <3>4. CASE subscribed_to[a][c] = {}
      BY <3>1, <3>2, <3>4, Zenon
    <3>5. CASE subscribed_to[a][c] # {}
      BY <3>1, <3>2, <3>3, <3>5, Zenon
    <3>6. QED
      BY <3>4, <3>5, Zenon
  <2>4. QED
    BY <2>2, <2>3, Zenon
<1>2. QED
  BY <1>1, MonitorInvariant, PTL

\* An entry is the only one of its connection.
LEMMA OnlyEntry ==
    ASSUME MonitorInv, NEW a \in Accounts, NEW c, NEW i \in EntriesOf(monitoring[a], c)
    PROVE  c \in Conns /\ EntriesOf(monitoring[a], c) = {i}
<1>1. monitoring[a] \in Seq(Entry)
  BY Zenon DEF MonitorInv, MonitorTypeOK
<1>2. c \in Conns
  BY <1>1, EntryFields, Zenon DEF EntriesOf
<1>3. Holds(monitoring[a], c, asked[a][c], asked_data[a][c], asked_ago[a][c])
  BY <1>2, Zenon DEF MonitorInv
<1>4. QED
  BY <1>2, <1>3, Zenon DEF Holds

\* What the entries make of a connection: it has asked for n at some time and renewed in time.
Subscribed(a, n, c) == n \in asked[a][c] /\ asked_ago[a][c] <= MONITOR_EXPIRY_TIME
WantsMetadata(a, n, c) == Subscribed(a, n, c) /\ ~asked_data[a][c]

\* The message in namespace n goes to the entry of a connection if the connection has subscribed.
LEMMA RelayedEntry ==
    ASSUME MonitorInv, NEW a \in Accounts, NEW n \in Namespaces, NEW c,
           NEW i \in EntriesOf(monitoring[a], c), NEW data
    PROVE  i \in RelayTo(a, n, data) <=> Subscribed(a, n, c) /\ asked_data[a][c] = data
<1>1. PICK e : e = monitoring[a][i]
  OBVIOUS
<1>2. monitoring[a] \in Seq(Entry) /\ asked_ago \in [Accounts -> [Conns -> 0 .. NEVER]]
  BY Zenon DEF MonitorInv, MonitorTypeOK
<1>3. c \in Conns /\ EntriesOf(monitoring[a], c) = {i}
  BY OnlyEntry, Zenon
<1>4. i \in DOMAIN monitoring[a] /\ e.namespaces \in Seq(Namespaces)
  BY <1>1, <1>2, EntryFields, Zenon DEF EntriesOf
<1>5. asked_ago[a][c] \in 0 .. NEVER
  BY <1>2, <1>3, Zenon
<1>6. Holds(monitoring[a], c, asked[a][c], asked_data[a][c], asked_ago[a][c])
  BY <1>3, Zenon DEF MonitorInv
<1>7. asked[a][c] # {}
  BY <1>6, Zenon DEF Holds
<1>8. PICK j \in EntriesOf(monitoring[a], c) :
          /\ IsAscending(monitoring[a][j].namespaces)
          /\ Elements(monitoring[a][j].namespaces) = asked[a][c]
          /\ monitoring[a][j].want_data = asked_data[a][c]
          /\ monitoring[a][j].left = MONITOR_EXPIRY_TIME - asked_ago[a][c]
  BY <1>6, <1>7, Zenon DEF Holds
<1>9. j = i
  BY <1>3, Zenon
<1>10. /\ IsAscending(e.namespaces) /\ Elements(e.namespaces) = asked[a][c]
       /\ e.want_data = asked_data[a][c] /\ e.left = MONITOR_EXPIRY_TIME - asked_ago[a][c]
  BY <1>1, <1>8, <1>9, Zenon
<1>11. BinarySearch(e.namespaces, n) <=> n \in asked[a][c]
  BY <1>4, <1>10, BinarySearchFinds, Zenon
<1>12. e.left >= 0 <=> asked_ago[a][c] <= MONITOR_EXPIRY_TIME
  <2>1. PICK ago : ago = asked_ago[a][c]
    OBVIOUS
  <2>2. ago \in 0 .. NEVER /\ e.left = MONITOR_EXPIRY_TIME - ago
    BY <1>5, <1>10, <2>1, Zenon
  <2>3. e.left >= 0 <=> ago <= MONITOR_EXPIRY_TIME
    BY <2>2, MonitorAssumption, SMT DEF NEVER
  <2>4. QED
    BY <2>1, <2>3, Zenon
<1>13. QED
  BY <1>1, <1>4, <1>10, <1>11, <1>12, Zenon DEF RelayTo, Subscribed

\* A connection that has subscribed has an entry.
LEMMA SubscribedHasEntry ==
    ASSUME MonitorInv, NEW a \in Accounts, NEW n, NEW c \in Conns, Subscribed(a, n, c)
    PROVE  \E i : i \in EntriesOf(monitoring[a], c)
<1>1. asked[a][c] # {}
  BY Zenon DEF Subscribed
<1>2. QED
  BY <1>1, Zenon DEF MonitorInv, Holds

\* What is sent to a connection, where e is an entry, goes to that entry.
Notice(a, i, what) == [to |-> monitoring[a][i].push_conn, entry |-> i, what |-> what]

\* What send_notifies does by the entries: a connection that they have as subscribed is told once,
\* unless it is to get the data and another one gets the metadata only.
LEMMA NotifiesByEntries ==
    ASSUME MonitorInv, NEW a \in Accounts, NEW n \in Namespaces, SendNotifies(a, n), NEW c \in Conns
    PROVE  IF WantsMetadata(a, n, c) THEN ToldOnce(c, "metadata")'
           ELSE IF ~Subscribed(a, n, c) THEN Told(c)' = {}
           ELSE (\A other \in Conns : ~WantsMetadata(a, n, other)) => ToldOnce(c, "data")'
<1>1. /\ asked_data[a] \in [Conns -> BOOLEAN] /\ TRUE \in BOOLEAN /\ FALSE \in BOOLEAN
  BY Zenon DEF MonitorInv, MonitorTypeOK
<1>2. \A s : s \in notifies' <=>
          \/ \E i \in RelayTo(a, n, FALSE) : s = Notice(a, i, "metadata")
          \/ RelayTo(a, n, FALSE) = {} /\ \E i \in RelayTo(a, n, TRUE) : s = Notice(a, i, "data")
  BY Zenon DEF SendNotifies, Notice
<1>3. \A data : \A i \in RelayTo(a, n, data) :
          i \in EntriesOf(monitoring[a], monitoring[a][i].push_conn)
  BY Zenon DEF RelayTo, EntriesOf
<1>4. \A i, what : /\ Notice(a, i, what).to = monitoring[a][i].push_conn
                   /\ Notice(a, i, what).what = what
  BY DEF Notice
<1>5. ASSUME NEW data \in BOOLEAN, NEW i \in RelayTo(a, n, data)
      PROVE  LET d == monitoring[a][i].push_conn
             IN d \in Conns /\ Subscribed(a, n, d) /\ asked_data[a][d] = data
  <2>1. PICK d : d = monitoring[a][i].push_conn
    OBVIOUS
  <2>2. i \in EntriesOf(monitoring[a], d)
    BY <1>3, <2>1, Zenon
  <2>3. d \in Conns
    BY <2>2, OnlyEntry, Zenon
  <2>4. Subscribed(a, n, d) /\ asked_data[a][d] = data
    BY <2>2, RelayedEntry, Zenon
  <2>5. QED
    BY <2>1, <2>3, <2>4, Zenon
<1>6. ASSUME NEW i \in RelayTo(a, n, FALSE)
      PROVE  \E d \in Conns : WantsMetadata(a, n, d)
  BY <1>1, <1>5, Zenon DEF WantsMetadata
<1>7. ASSUME NEW data \in BOOLEAN, Subscribed(a, n, c), asked_data[a][c] = data
      PROVE  \E i \in RelayTo(a, n, data) : /\ monitoring[a][i].push_conn = c
                                            /\ EntriesOf(monitoring[a], c) = {i}
  <2>1. PICK i : i \in EntriesOf(monitoring[a], c)
    BY <1>7, SubscribedHasEntry, Zenon
  <2>2. i \in RelayTo(a, n, data)
    BY <1>7, <2>1, RelayedEntry, Zenon
  <2>3. EntriesOf(monitoring[a], c) = {i}
    BY <2>1, OnlyEntry, Zenon
  <2>4. monitoring[a][i].push_conn = c
    BY <2>1, Zenon DEF EntriesOf
  <2>5. QED
    BY <2>2, <2>3, <2>4, Zenon
<1>8. ASSUME NEW i, EntriesOf(monitoring[a], c) = {i}
      PROVE  \A data : \A j \in RelayTo(a, n, data) : monitoring[a][j].push_conn = c => j = i
  BY <1>3, <1>8, Zenon
<1>9. CASE WantsMetadata(a, n, c)
  <2>1. PICK i \in RelayTo(a, n, FALSE) : /\ monitoring[a][i].push_conn = c
                                          /\ EntriesOf(monitoring[a], c) = {i}
    BY <1>1, <1>7, <1>9, Zenon DEF WantsMetadata
  <2>2. PICK s : s = Notice(a, i, "metadata")
    OBVIOUS
  <2>3. s \in notifies' /\ s.to = c /\ s.what = "metadata"
    BY <1>2, <1>4, <2>1, <2>2, Zenon
  <2>4. ASSUME NEW q \in notifies', q.to = c
        PROVE  q = s
    <3>1. PICK j \in RelayTo(a, n, FALSE) : q = Notice(a, j, "metadata")
      BY <1>2, <2>1, Zenon
    <3>2. j = i
      BY <1>4, <1>8, <2>1, <2>4, <3>1, Zenon
    <3>3. QED
      BY <2>2, <3>1, <3>2, Zenon
  <2>5. {q \in notifies' : q.to = c} = {s}
    BY <2>3, <2>4, Zenon
  <2>6. QED
    BY <1>9, <2>3, <2>5, Zenon DEF ToldOnce, Told
<1>10. CASE ~Subscribed(a, n, c)
  <2>1. ASSUME NEW q \in notifies'
        PROVE  q.to # c
    <3>1. PICK data \in BOOLEAN 
              : \E j \in RelayTo(a, n, data) : \E what : q = Notice(a, j, what)
      BY <1>1, <1>2, Zenon
    <3>2. PICK j \in RelayTo(a, n, data) : \E what : q = Notice(a, j, what)
      BY <3>1, Zenon
    <3>3. PICK what : q = Notice(a, j, what)
      BY <3>2, Zenon
    <3>4. q.to = monitoring[a][j].push_conn
      BY <1>4, <3>3, Zenon
    <3>5. Subscribed(a, n, monitoring[a][j].push_conn)
      BY <1>5, Zenon
    <3>6. QED
      BY <1>10, <3>4, <3>5, Zenon
  <2>2. QED
    BY <1>10, <2>1, Zenon DEF Told, WantsMetadata
<1>11. CASE /\ Subscribed(a, n, c) /\ ~WantsMetadata(a, n, c)
            /\ \A other \in Conns : ~WantsMetadata(a, n, other)
  <2>1. RelayTo(a, n, FALSE) = {}
    BY <1>6, <1>11, Zenon
  <2>2. asked_data[a][c] = TRUE
    BY <1>1, <1>11, Zenon DEF WantsMetadata
  <2>3. PICK i \in RelayTo(a, n, TRUE) : /\ monitoring[a][i].push_conn = c
                                         /\ EntriesOf(monitoring[a], c) = {i}
    BY <1>1, <1>7, <1>11, <2>2, Zenon
  <2>4. PICK s : s = Notice(a, i, "data")
    OBVIOUS
  <2>5. s \in notifies' /\ s.to = c /\ s.what = "data"
    BY <1>2, <1>4, <2>1, <2>3, <2>4, Zenon
  <2>6. ASSUME NEW q \in notifies', q.to = c
        PROVE  q = s
    <3>1. PICK j \in RelayTo(a, n, TRUE) : q = Notice(a, j, "data")
      BY <1>2, <2>1, Zenon
    <3>2. j = i
      BY <1>4, <1>8, <2>3, <2>6, <3>1, Zenon
    <3>3. QED
      BY <2>4, <3>1, <3>2, Zenon
  <2>7. {q \in notifies' : q.to = c} = {s}
    BY <2>5, <2>6, Zenon
  <2>8. QED
    BY <1>11, <2>5, <2>7, Zenon DEF ToldOnce, Told
<1>12. QED
  BY <1>9, <1>10, <1>11, Zenon

\* A new message is told once to each connection that is subscribed to its namespace, and to none
\* that never asked for it or whose subscription has expired; those that may want the data are
\* told where no other connection may want only the metadata (send_notifies).
THEOREM NotifiesSafe == MonitorSpec => SubscribersNotified
<1>1. ASSUME MonitorInv, NEW a \in Accounts, NEW n \in Namespaces, SendNotifies(a, n),
             NEW c \in Conns
      PROVE  /\ ~MayBeTold(a, n, c) => Told(c)' = {}
             /\ (n \in subscribed_to[a][c] /\ ~asked_data[a][c]) => ToldOnce(c, "metadata")'
             /\ (/\ n \in subscribed_to[a][c] /\ asked_data[a][c]
                 /\ \A other \in Conns \ {c} : MayBeTold(a, n, other) => with_data[a][other])
                => \E what \in {"metadata", "data"} :
                      ToldOnce(c, what)' /\ (with_data[a][c] => what = "data")
  <2>1. \A d \in Conns : MayBeTold(a, n, d) <=> Subscribed(a, n, d)
    BY <1>1, Zenon DEF MonitorInv, Current, MayBeTold, Subscribed
  <2>2. \A d \in Conns : with_data[a][d] => asked_data[a][d]
    BY <1>1, Zenon DEF MonitorInv, Current
  <2>3. n \in subscribed_to[a][c] => Subscribed(a, n, c)
    BY <1>1, Zenon DEF MonitorInv, Current, Subscribed
  <2>4. ~MayBeTold(a, n, c) => Told(c)' = {}
    BY <1>1, <2>1, NotifiesByEntries, Zenon DEF WantsMetadata
  <2>5. (n \in subscribed_to[a][c] /\ ~asked_data[a][c]) => ToldOnce(c, "metadata")'
    BY <1>1, <2>3, NotifiesByEntries, Zenon DEF WantsMetadata
  <2>6. ASSUME n \in subscribed_to[a][c], asked_data[a][c],
               \A other \in Conns \ {c} : MayBeTold(a, n, other) => with_data[a][other]
        PROVE  ToldOnce(c, "data")'
    <3>1. \A other \in Conns : ~WantsMetadata(a, n, other)
      BY <2>1, <2>2, <2>6, Zenon DEF WantsMetadata
    <3>2. Subscribed(a, n, c) /\ ~WantsMetadata(a, n, c)
      BY <2>3, <2>6, <3>1, Zenon
    <3>3. QED
      BY <1>1, <3>1, <3>2, NotifiesByEntries, Zenon
  <2>7. QED
    BY <2>4, <2>5, <2>6, Zenon
<1>2. MonitorInv => [\A a \in Accounts, n \in Namespaces : SendNotifies(a, n) =>
          \A c \in Conns :
              /\ ~MayBeTold(a, n, c) => Told(c)' = {}
              /\ (n \in subscribed_to[a][c] /\ ~asked_data[a][c]) => ToldOnce(c, "metadata")'
              /\ (/\ n \in subscribed_to[a][c] /\ asked_data[a][c]
                  /\ \A other \in Conns \ {c} : MayBeTold(a, n, other) => with_data[a][other])
                 => \E what \in {"metadata", "data"} :
                       ToldOnce(c, what)' /\ (with_data[a][c] => what = "data")
          ]_monitorVars
  BY <1>1, Zenon
<1>3. QED
  BY <1>2, MonitorInvariant, PTL DEF SubscribersNotified

-----------------------------------------------------------------------------
(***************************************************************************)
(* ServiceNode.                                                            *)
(***************************************************************************)
USE ServiceNodeAssumption DEF INVALID_SWARM_ID

\* The groups of variables that an action leaves alone.
LEMMA Groups ==
    /\ UNCHANGED oxendVars <=> UNCHANGED <<chain, subscribed, notified, faults>>
    /\ UNCHANGED updateVars <=> UNCHANGED <<updating_swarms, request, waiting>>
    /\ UNCHANGED syncVars <=> UNCHANGED <<syncing, timer, target_height, seeds>>
    /\ UNCHANGED swarmVars <=>
          UNCHANGED <<cur_swarm_id, all_valid_swarms, swarm_peers, all_funded_nodes>>
    /\ UNCHANGED nodeVars <=>
          UNCHANGED <<got_first_response, hardfork, block, active_sns, status, active,
                      shutting_down>>
BY DEF oxendVars, updateVars, syncVars, swarmVars, nodeVars

\* update_swarms keeps the types of what it changes.
LEMMA UpdateSwarmsType ==
    ASSUME TypeOK, UpdateSwarms
    PROVE  updating_swarms' \in BOOLEAN /\ request' \in Requests /\ waiting' \subseteq Blocks
<1>1. CASE updating_swarms
  BY <1>1 DEF TypeOK, UpdateSwarms, updateVars
<1>2. CASE ~updating_swarms
  <2>1. request' = Sent /\ updating_swarms' = TRUE /\ waiting' = waiting
    BY <1>2 DEF UpdateSwarms
  <2>2. Sent \in Requests
    BY SMT DEF Sent, Requests, TypeOK
  <2>3. QED
    BY <2>1, <2>2 DEF TypeOK
<1>3. QED
  BY <1>1, <1>2

\* The types of each group of variables.
OxendOK ==
    /\ chain \in Blocks /\ subscribed \in BOOLEAN /\ notified \in BOOLEAN
    /\ faults \in 0 .. MaxFaults
UpdateOK == updating_swarms \in BOOLEAN /\ request \in Requests /\ waiting \subseteq Blocks
SyncOK ==
    /\ syncing \in BOOLEAN /\ timer \in BOOLEAN /\ target_height \in 0 .. MaxBlock
    /\ seeds \subseteq Seeds
SwarmOK ==
    /\ cur_swarm_id \in Nat
    /\ all_valid_swarms \in 0 .. MaxBlock /\ swarm_peers \in 0 .. MaxBlock
    /\ all_funded_nodes \in 0 .. MaxBlock
NodeOK ==
    /\ got_first_response \in BOOLEAN /\ hardfork \in BOOLEAN
    /\ block \in 0 .. MaxBlock /\ active_sns \in 0 .. MaxBlock
    /\ status \in {"UNKNOWN", "ACTIVE", "DECOMMISSIONED", "UNSTAKED"}
    /\ active \in BOOLEAN /\ shutting_down \in BOOLEAN

\* The types of the groups make up the type invariant.
LEMMA TypeOfGroups ==
    /\ TypeOK <=> OxendOK /\ UpdateOK /\ SyncOK /\ SwarmOK /\ NodeOK
    /\ TypeOK' <=> OxendOK' /\ UpdateOK' /\ SyncOK' /\ SwarmOK' /\ NodeOK'
<1>1. TypeOK <=> OxendOK /\ UpdateOK /\ SyncOK /\ SwarmOK /\ NodeOK
  BY DEF TypeOK, OxendOK, UpdateOK, SyncOK, SwarmOK, NodeOK
<1>2. TypeOK' <=> OxendOK' /\ UpdateOK' /\ SyncOK' /\ SwarmOK' /\ NodeOK'
  BY DEF TypeOK, OxendOK, UpdateOK, SyncOK, SwarmOK, NodeOK
<1>3. QED
  BY <1>1, <1>2

\* A group that an action leaves alone keeps its types.
LEMMA TypeOfUnchanged ==
    ASSUME TypeOK
    PROVE  /\ UNCHANGED oxendVars => OxendOK'
           /\ UNCHANGED updateVars => UpdateOK'
           /\ UNCHANGED syncVars => SyncOK'
           /\ UNCHANGED swarmVars => SwarmOK'
           /\ UNCHANGED nodeVars => NodeOK'
<1>1. UNCHANGED oxendVars => OxendOK'
  BY TypeOfGroups DEF oxendVars, OxendOK
<1>2. UNCHANGED updateVars => UpdateOK'
  BY TypeOfGroups DEF updateVars, UpdateOK
<1>3. UNCHANGED syncVars => SyncOK'
  BY TypeOfGroups DEF syncVars, SyncOK
<1>4. UNCHANGED swarmVars => SwarmOK'
  BY TypeOfGroups DEF swarmVars, SwarmOK
<1>5. UNCHANGED nodeVars => NodeOK'
  BY TypeOfGroups DEF nodeVars, NodeOK
<1>6. QED
  BY <1>1, <1>2, <1>3, <1>4, <1>5

\* Type correctness: whatever the blocks carry, every variable keeps its type.
THEOREM TypeCorrect == Spec => []TypeOK
<1>1. Init => TypeOK
  <2>1. [at |-> "sent", poll |-> 0] \in Requests
    BY SMT DEF Requests
  <2>2. Init => /\ chain \in Blocks /\ faults \in 0 .. MaxFaults /\ cur_swarm_id \in Nat
                /\ {target_height, block, active_sns, all_valid_swarms, swarm_peers,
                    all_funded_nodes} \subseteq 0 .. MaxBlock
    BY SMT DEF Init, Blocks
  <2>3. QED
    BY <2>1, <2>2 DEF Init, TypeOK
<1>2. TypeOK /\ [Next]_vars => TypeOK'
  <2> SUFFICES ASSUME TypeOK, [Next]_vars PROVE TypeOK'
    OBVIOUS
  <2>1. OxendOK /\ UpdateOK /\ SyncOK /\ SwarmOK /\ NodeOK
    BY TypeOfGroups
  <2>2. CASE NewBlock
    <3>1. chain' \in Blocks
      BY <2>1, <2>2, SMT DEF NewBlock, OxendOK, Blocks
    <3>2. OxendOK'
      BY <2>1, <2>2, <3>1 DEF NewBlock, OxendOK
    <3>3. QED
      BY <2>2, <3>2, TypeOfGroups, TypeOfUnchanged DEF NewBlock
  <2>3. CASE OxendRestarts
    <3>1. faults' \in 0 .. MaxFaults
      BY <2>1, <2>3, SMT DEF OxendRestarts, OxendOK
    <3>2. OxendOK'
      BY <2>1, <2>3, <3>1 DEF OxendRestarts, OxendOK
    <3>3. QED
      BY <2>3, <3>2, TypeOfGroups, TypeOfUnchanged DEF OxendRestarts
  <2>4. CASE OxendPing
    <3>1. OxendOK'
      BY <2>1, <2>4 DEF OxendPing, OxendOK
    <3>2. QED
      BY <2>4, <3>1, TypeOfGroups, TypeOfUnchanged DEF OxendPing
  <2>5. CASE OxendAnswers
    <3>1. request' \in Requests
      BY <2>1, <2>5 DEF OxendAnswers, OxendOK, Requests
    <3>2. UpdateOK'
      BY <2>1, <2>5, <3>1 DEF OxendAnswers, UpdateOK
    <3>3. QED
      BY <2>5, <3>2, TypeOfGroups, TypeOfUnchanged DEF OxendAnswers
  <2>6. CASE NotifyBlock
    <3>1. OxendOK'
      BY <2>1, <2>6 DEF NotifyBlock, OxendOK
    <3>2. UpdateOK'
      BY <2>6, UpdateSwarmsType DEF NotifyBlock, UpdateOK
    <3>3. QED
      BY <2>6, <3>1, <3>2, TypeOfGroups, TypeOfUnchanged DEF NotifyBlock
  <2>7. CASE RequestFails
    <3>1. request' \in Requests
      BY <2>7 DEF RequestFails, Requests
    <3>2. faults' \in 0 .. MaxFaults
      BY <2>1, <2>7, SMT DEF RequestFails, OxendOK
    <3>3. OxendOK' /\ UpdateOK'
      BY <2>1, <2>7, <3>1, <3>2 DEF RequestFails, OxendOK, UpdateOK
    <3>4. QED
      BY <2>7, <3>3, TypeOfGroups, TypeOfUnchanged DEF RequestFails
  <2>8. CASE CallbackStarts
    <3>1. request' \in Requests
      BY <2>8 DEF CallbackStarts, Requests
    <3>2. request.block \in Blocks
      BY <2>1, <2>8, SMT DEF CallbackStarts, UpdateOK, Requests, NoRequest
    <3>3. UpdateOK'
      BY <2>1, <2>8, <3>1, <3>2 DEF CallbackStarts, UpdateOK
    <3>4. QED
      BY <2>8, <3>3, TypeOfGroups, TypeOfUnchanged DEF CallbackStarts
  <2>9. ASSUME NEW b \in Blocks, ApplyAnswer(b) PROVE TypeOK'
    <3>1. b \in 0 .. MaxBlock
      BY SMT DEF Blocks
    <3>2. OnSwarmUpdate(b) /\ FirstResponse(b) /\ waiting' = waiting \ {b}
      BY <2>9 DEF ApplyAnswer
    <3>3. UNCHANGED <<chain, subscribed, notified, faults, updating_swarms, request, timer,
                      target_height, shutting_down>>
      BY <2>9, Groups DEF ApplyAnswer
    <3>4. OxendOK' /\ UpdateOK'
      BY <2>1, <3>2, <3>3 DEF OxendOK, UpdateOK
    <3>5. SyncOK'
      BY <2>1, <3>2, <3>3 DEF SyncOK, FirstResponse, OnSwarmUpdate, StillSyncing
    <3>6. hardfork' \in BOOLEAN /\ got_first_response' \in BOOLEAN
      BY <3>2, SMT DEF OnSwarmUpdate, FirstResponse
    <3>7. CASE syncing' \/ b = block
      <4>1. UNCHANGED <<block, active_sns, status, active>> /\ UNCHANGED swarmVars
        BY <3>2, <3>7 DEF OnSwarmUpdate
      <4>2. NodeOK'
        BY <2>1, <3>3, <3>6, <4>1 DEF NodeOK
      <4>3. QED
        BY <3>4, <3>5, <4>1, <4>2, TypeOfGroups, TypeOfUnchanged
    <3>8. CASE ~(syncing' \/ b = block)
      <4>1. /\ block' = b /\ active_sns' = b /\ status' = DeriveStatus(b)
            /\ cur_swarm_id' = SwarmAt[b] /\ active' = (active \/ ReadyAt(b))
            /\ IF ReadyAt(b) THEN UpdateState(b)
               ELSE /\ all_funded_nodes' = all_valid_swarms
                    /\ UNCHANGED <<all_valid_swarms, swarm_peers>>
        BY <3>2, <3>8 DEF OnSwarmUpdate
      <4>2. status' \in {"UNKNOWN", "ACTIVE", "DECOMMISSIONED", "UNSTAKED"}
        BY <4>1 DEF DeriveStatus
      <4>3. NodeOK'
        BY <2>1, <3>1, <3>3, <3>6, <4>1, <4>2 DEF NodeOK
      <4>4. SwarmOK'
        BY <2>1, <3>1, <4>1 DEF SwarmOK, UpdateState
      <4>5. QED
        BY <3>4, <3>5, <4>3, <4>4, TypeOfGroups
    <3>9. QED
      BY <3>7, <3>8
  <2>10. ASSUME NEW s \in Seeds, SeedAnswers(s) PROVE TypeOK'
    <3>1. /\ all_valid_swarms' \in 0 .. MaxBlock /\ target_height' \in 0 .. MaxBlock
          /\ active_sns' \in 0 .. MaxBlock
      <4>1. CASE UNCHANGED <<all_valid_swarms, target_height, active_sns>>
        BY <2>1, <4>1 DEF SwarmOK, SyncOK, NodeOK
      <4>2. ASSUME NEW b \in Blocks, OnBootstrapUpdate(b)
            PROVE  /\ all_valid_swarms' \in 0 .. MaxBlock /\ target_height' \in 0 .. MaxBlock
                   /\ active_sns' \in 0 .. MaxBlock
        <5>1. b \in 0 .. MaxBlock
          BY SMT DEF Blocks
        <5>2. QED
          BY <2>1, <4>2, <5>1 DEF OnBootstrapUpdate, MaxOf, SwarmOK, SyncOK, NodeOK
      <4>3. QED
        BY <2>10, <4>1, <4>2 DEF SeedAnswers
    <3>2. syncing' \in BOOLEAN /\ UpdateOK'
      <4>1. CASE UNCHANGED <<syncing, updateVars>>
        BY <2>1, <4>1, TypeOfUnchanged DEF SyncOK
      <4>2. CASE BootstrapDone
        BY <2>1, <4>2, TypeOfUnchanged, UpdateSwarmsType DEF BootstrapDone, SyncOK, UpdateOK
      <4>3. QED
        BY <2>10, <4>1, <4>2 DEF SeedAnswers
    <3>3. seeds' = seeds \ {s} /\ UNCHANGED oxendVars /\ UNCHANGED timer
      BY <2>10 DEF SeedAnswers
    <3>4. UNCHANGED <<cur_swarm_id, swarm_peers, all_funded_nodes, got_first_response, hardfork,
                      block, status, active, shutting_down>>
      BY <2>10 DEF SeedAnswers
    <3>5. SyncOK'
      BY <2>1, <3>1, <3>2, <3>3 DEF SyncOK
    <3>6. SwarmOK' /\ NodeOK'
      BY <2>1, <3>1, <3>4 DEF SwarmOK, NodeOK
    <3>7. QED
      BY <3>2, <3>3, <3>5, <3>6, TypeOfGroups, TypeOfUnchanged
  <2>11. CASE HourPasses
    <3>1. SyncOK'
      BY <2>1, <2>11 DEF HourPasses, SyncOK
    <3>2. QED
      BY <2>11, <3>1, TypeOfGroups, TypeOfUnchanged DEF HourPasses
  <2>12. CASE Shutdown
    <3>1. NodeOK'
      BY <2>1, <2>12 DEF Shutdown, NodeOK
    <3>2. QED
      BY <2>12, <3>1, TypeOfGroups, TypeOfUnchanged DEF Shutdown
  <2>13. CASE UNCHANGED vars
    BY <2>13, TypeOfGroups, TypeOfUnchanged DEF vars
  <2>14. QED
    BY <2>2, <2>3, <2>4, <2>5, <2>6, <2>7, <2>8, <2>9, <2>10, <2>11, <2>12, <2>13 DEF Next
<1>3. QED
  BY <1>1, <1>2, PTL DEF Spec

\* Once it has left the syncing mode, no callback brings a node back into it.
THEOREM NeverSyncsAgain == Spec => SyncedForever
<1>1. Next => (syncing' => syncing)
  <2> SUFFICES ASSUME Next, syncing' PROVE syncing
    OBVIOUS
  <2>1. CASE \/ NewBlock \/ OxendRestarts \/ OxendPing \/ OxendAnswers \/ NotifyBlock
             \/ RequestFails \/ CallbackStarts
    BY <2>1, Groups DEF NewBlock, OxendRestarts, OxendPing, OxendAnswers, NotifyBlock,
       RequestFails, CallbackStarts
  <2>2. ASSUME NEW b \in Blocks, ApplyAnswer(b) PROVE syncing
    BY <2>2 DEF ApplyAnswer, OnSwarmUpdate, StillSyncing
  <2>3. ASSUME NEW s \in Seeds, SeedAnswers(s) PROVE syncing
    BY <2>3 DEF SeedAnswers, BootstrapDone
  <2>4. CASE HourPasses \/ Shutdown
    BY <2>4, Groups DEF HourPasses, Shutdown
  <2>5. QED
    BY <2>1, <2>2, <2>3, <2>4 DEF Next
<1>2. QED
  BY <1>1, PTL DEF Spec, SyncedForever

-----------------------------------------------------------------------------
\* What a ready or a waiting node takes over from a block keeps NodeInv, in whatever order
\* the answers are applied.
LEMMA ApplyAnswerKeeps ==
    ASSUME TypeOK, NodeInv, NEW b \in Blocks, ApplyAnswer(b)
    PROVE  NodeInv'
<1>1. /\ OnSwarmUpdate(b) /\ hardfork' = (b >= HardforkFrom)
      /\ syncing' = StillSyncing(b) /\ shutting_down' = shutting_down
  BY DEF ApplyAnswer, OnSwarmUpdate
<1>2. syncing' => syncing
  BY <1>1 DEF StillSyncing
<1>3. CASE syncing' \/ b = block
  <2>1. UNCHANGED <<block, active_sns, cur_swarm_id, swarm_peers, all_funded_nodes>>
    BY <1>1, <1>3 DEF OnSwarmUpdate, swarmVars
  <2>2. CASE syncing'
    BY <1>2, <2>1, <2>2 DEF NodeInv
  <2>3. CASE b = block
    <3>1. cur_swarm_id # 0 => (hardfork' <=> hardfork)
      BY <1>1, <2>3 DEF NodeInv
    <3>2. QED
      BY <1>1, <1>2, <2>1, <2>3, <3>1 DEF NodeInv
  <2>4. QED
    BY <1>3, <2>2, <2>3
<1>4. CASE ~(syncing' \/ b = block)
  <2>1. block' = b /\ active_sns' = b /\ cur_swarm_id' = SwarmAt[b]
    BY <1>1, <1>4 DEF OnSwarmUpdate
  <2>2. ASSUME SwarmAt[b] # 0, ~shutting_down, hardfork' \/ ForceStart
        PROVE  swarm_peers' = b /\ all_funded_nodes' = b
    <3>1. ReadyAt(b)
      BY <1>1, <2>2 DEF ReadyAt
    <3>2. UpdateState(b)
      BY <1>1, <1>4, <3>1 DEF OnSwarmUpdate
    <3>3. QED
      BY <2>2, <3>2 DEF UpdateState
  <2>3. QED
    BY <1>1, <1>4, <2>1, <2>2 DEF NodeInv
<1>5. QED
  BY <1>3, <1>4

\* Seed nodes reach the active nodes only while nothing has been taken over from a block.
LEMMA SeedAnswersKeeps ==
    ASSUME TypeOK, NodeInv, NEW s \in Seeds, SeedAnswers(s)
    PROVE  NodeInv'
<1>1. UNCHANGED <<cur_swarm_id, swarm_peers, all_funded_nodes, hardfork, block, shutting_down>>
  BY DEF SeedAnswers
<1>2. syncing' => syncing
  BY DEF SeedAnswers, BootstrapDone
<1>3. syncing \/ active_sns' = active_sns
  BY DEF SeedAnswers, OnBootstrapUpdate
<1>4. QED
  BY <1>1, <1>2, <1>3 DEF NodeInv

\* The swarm, the peers and the nodes of a node that snode_ready lets serve clients are of one
\* block, whatever the chain, the seed nodes and the hardfork, and even if it was started with
\* force_start.
THEOREM ActsOnOneBlock == Spec => []ViewOfOneBlock
<1>1. Init => NodeInv
  BY DEF Init, NodeInv
<1>2. TypeOK /\ NodeInv /\ [Next]_vars => NodeInv'
  <2> SUFFICES ASSUME TypeOK, NodeInv, [Next]_vars PROVE NodeInv'
    OBVIOUS
  <2>1. CASE \/ NewBlock \/ OxendRestarts \/ OxendPing \/ OxendAnswers \/ NotifyBlock
             \/ RequestFails \/ CallbackStarts
    <3>1. UNCHANGED <<syncVars, swarmVars, nodeVars>>
      BY <2>1 DEF NewBlock, OxendRestarts, OxendPing, OxendAnswers, NotifyBlock, RequestFails,
         CallbackStarts
    <3>2. QED
      BY <3>1 DEF syncVars, swarmVars, nodeVars, NodeInv
  <2>2. ASSUME NEW b \in Blocks, ApplyAnswer(b) PROVE NodeInv'
    BY <2>2, ApplyAnswerKeeps
  <2>3. ASSUME NEW s \in Seeds, SeedAnswers(s) PROVE NodeInv'
    BY <2>3, SeedAnswersKeeps
  <2>4. CASE HourPasses
    BY <2>4 DEF HourPasses, swarmVars, nodeVars, NodeInv
  <2>5. CASE Shutdown
    BY <2>5 DEF Shutdown, syncVars, swarmVars, NodeInv
  <2>6. CASE UNCHANGED vars
    BY <2>6 DEF vars, syncVars, swarmVars, nodeVars, NodeInv
  <2>7. QED
    BY <2>1, <2>2, <2>3, <2>4, <2>5, <2>6 DEF Next
<1>3. NodeInv => ViewOfOneBlock
  BY DEF NodeInv, ViewOfOneBlock, SnodeReady
<1>4. QED
  BY <1>1, <1>2, <1>3, TypeCorrect, PTL DEF Spec
=============================================================================
