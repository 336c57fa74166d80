------------------------- MODULE ReachabilityProofs -------------------------
(***************************************************************************)
(* Proofs about Reachability, for any peers, intervals and limits: no node *)
(* that failed a test is forgotten, and no failed ping goes unreported.    *)
(***************************************************************************)
EXTENDS Reachability, FiniteSetTheorems, FunctionTheorems, SequenceTheorems,
        WellFoundedInduction, TLAPS

\* The prover of every leaf that does not name another.
USE Zenon

(***************************************************************************)
(* Operators on sequences.                                                 *)
(***************************************************************************)

\* Every non-empty set of natural numbers has a least element.
LEMMA LeastNat ==
    ASSUME NEW T \in SUBSET Nat, T # {}
    PROVE  \E x \in T : \A y \in T : x <= y
<1>1. PICK x \in T : \A y \in T : ~(<<y, x>> \in OpToRel(<, Nat))
  BY NatLessThanWellFounded, WFMin
<1>2. \A y \in T : ~(y < x)
  BY <1>1 DEF OpToRel
<1>3. \A y \in T : x <= y
  BY <1>2, SMT
<1>4. QED
  BY <1>3

\* What InsertAt makes of a sequence: e at place k, the rest in its order.
LEMMA InsertAtProperties ==
    ASSUME NEW S, NEW q \in Seq(S), NEW e \in S, NEW k \in 1 .. Len(q) + 1
    PROVE  /\ InsertAt(q, k, e) \in Seq(S)
           /\ Len(InsertAt(q, k, e)) = Len(q) + 1
           /\ InsertAt(q, k, e)[k] = e
           /\ \A i \in 1 .. k - 1 : InsertAt(q, k, e)[i] = q[i]
           /\ \A i \in k .. Len(q) : InsertAt(q, k, e)[i + 1] = q[i]
<1> DEFINE a == SubSeq(q, 1, k - 1)
           b == SubSeq(q, k, Len(q))
<1>1. Len(q) \in Nat /\ k \in Int /\ \A i \in 1 .. Len(q) : q[i] \in S
  BY LenProperties, ElementOfSeq, SMT
<1>2. a \in Seq(S) /\ Len(a) = k - 1 /\ \A i \in 1 .. k - 1 : a[i] = q[i]
  <2>1. \A i \in 1 .. k - 1 : q[i] \in S
    BY <1>1, SMT
  <2>2. /\ a \in Seq(S)
        /\ Len(a) = IF 1 <= k - 1 THEN (k - 1) - 1 + 1 ELSE 0
        /\ \A i \in 1 .. (k - 1) - 1 + 1 : a[i] = q[1 + i - 1]
    BY <1>1, <2>1, SubSeqProperties, SMT
  <2>3. QED
    BY <1>1, <2>2, SMT
<1>3. /\ b \in Seq(S)
      /\ Len(b) = Len(q) - k + 1
      /\ \A i \in 1 .. Len(q) - k + 1 : b[i] = q[k + i - 1]
  <2>1. \A i \in k .. Len(q) : q[i] \in S
    BY <1>1, SMT
  <2>2. /\ b \in Seq(S)
        /\ Len(b) = IF k <= Len(q) THEN Len(q) - k + 1 ELSE 0
        /\ \A i \in 1 .. Len(q) - k + 1 : b[i] = q[k + i - 1]
    BY <1>1, <2>1, SubSeqProperties, SMT
  <2>3. QED
    BY <1>1, <2>2, SMT
<1>4. <<e>> \in Seq(S) /\ Len(<<e>>) = 1 /\ <<e>>[1] = e
  BY SMT
<1> DEFINE c == a \o <<e>>
<1>5. /\ c \in Seq(S) /\ Len(c) = Len(a) + 1
      /\ \A i \in 1 .. Len(a) + 1 : c[i] = IF i <= Len(a) THEN a[i] ELSE <<e>>[i - Len(a)]
  BY <1>2, <1>4, ConcatProperties, SMT
<1> DEFINE d == c \o b
<1>6. /\ d \in Seq(S) /\ Len(d) = Len(c) + Len(b)
      /\ \A i \in 1 .. Len(c) + Len(b) : d[i] = IF i <= Len(c) THEN c[i] ELSE b[i - Len(c)]
  BY <1>3, <1>5, ConcatProperties
<1>7. InsertAt(q, k, e) = d
  BY DEF InsertAt
<1> HIDE DEF a, b, c, d
<1>8. Len(c) = k
  BY <1>1, <1>2, <1>5, SMT
<1>9. Len(d) = Len(q) + 1
  BY <1>1, <1>3, <1>6, <1>8, SMT
<1>10. c[k] = e /\ \A i \in 1 .. k - 1 : c[i] = q[i]
  BY <1>1, <1>2, <1>4, <1>5, SMT
<1>11. d[k] = e /\ \A i \in 1 .. k - 1 : d[i] = q[i]
  BY <1>1, <1>3, <1>6, <1>8, <1>10, SMT
<1>12. ASSUME NEW i \in k .. Len(q)
       PROVE  d[i + 1] = q[i]
  <2>1. i + 1 \in 1 .. Len(c) + Len(b) /\ ~(i + 1 <= Len(c))
    BY <1>1, <1>3, <1>8, SMT
  <2>2. d[i + 1] = b[i + 1 - k]
    BY <1>6, <1>8, <2>1, SMT
  <2>3. i + 1 - k \in 1 .. Len(q) - k + 1 /\ k + (i + 1 - k) - 1 = i
    BY <1>1, SMT
  <2>4. QED
    BY <1>3, <2>2, <2>3
<1>13. QED
  BY <1>6, <1>7, <1>9, <1>11, <1>12

\* What RemoveAt makes of a sequence: the same elements but for the one at place k.
LEMMA RemoveAtProperties ==
    ASSUME NEW S, NEW s \in Seq(S), NEW k \in 1 .. Len(s)
    PROVE  /\ RemoveAt(s, k) \in Seq(S)
           /\ Len(RemoveAt(s, k)) = Len(s) - 1
           /\ \A i \in 1 .. k - 1 : RemoveAt(s, k)[i] = s[i]
           /\ \A i \in k + 1 .. Len(s) : RemoveAt(s, k)[i - 1] = s[i]
<1> DEFINE a == SubSeq(s, 1, k - 1)
           b == SubSeq(s, k + 1, Len(s))
<1>1. Len(s) \in Nat /\ k \in Int /\ \A i \in 1 .. Len(s) : s[i] \in S
  BY LenProperties, ElementOfSeq, SMT
<1>2. a \in Seq(S) /\ Len(a) = k - 1 /\ \A i \in 1 .. k - 1 : a[i] = s[i]
  <2>1. \A i \in 1 .. k - 1 : s[i] \in S
    BY <1>1, SMT
  <2>2. /\ a \in Seq(S)
        /\ Len(a) = IF 1 <= k - 1 THEN (k - 1) - 1 + 1 ELSE 0
        /\ \A i \in 1 .. (k - 1) - 1 + 1 : a[i] = s[1 + i - 1]
    BY <1>1, <2>1, SubSeqProperties, SMT
  <2>3. QED
    BY <1>1, <2>2, SMT
<1>3. /\ b \in Seq(S)
      /\ Len(b) = Len(s) - k
      /\ \A i \in 1 .. Len(s) - k : b[i] = s[k + i]
  <2>1. \A i \in k + 1 .. Len(s) : s[i] \in S
    BY <1>1, SMT
  <2>2. /\ b \in Seq(S)
        /\ Len(b) = IF k + 1 <= Len(s) THEN Len(s) - (k + 1) + 1 ELSE 0
        /\ \A i \in 1 .. Len(s) - (k + 1) + 1 : b[i] = s[(k + 1) + i - 1]
    BY <1>1, <2>1, SubSeqProperties, SMT
  <2>3. QED
    BY <1>1, <2>2, SMT
<1> DEFINE d == a \o b
<1>4. /\ d \in Seq(S) /\ Len(d) = Len(a) + Len(b)
      /\ \A i \in 1 .. Len(a) + Len(b) : d[i] = IF i <= Len(a) THEN a[i] ELSE b[i - Len(a)]
  BY <1>2, <1>3, ConcatProperties
<1>5. RemoveAt(s, k) = d
  BY DEF RemoveAt
<1> HIDE DEF a, b, d
<1>6. Len(d) = Len(s) - 1
  BY <1>1, <1>2, <1>3, <1>4, SMT
<1>7. ASSUME NEW i \in 1 .. k - 1
      PROVE  d[i] = s[i]
  <2>1. i \in 1 .. Len(a) + Len(b) /\ i <= Len(a)
    BY <1>1, <1>2, <1>3, SMT
  <2>2. d[i] = a[i]
    BY <1>4, <2>1
  <2>3. QED
    BY <1>2, <2>2
<1>8. ASSUME NEW i \in k + 1 .. Len(s)
      PROVE  d[i - 1] = s[i]
  <2>1. i - 1 \in 1 .. Len(a) + Len(b) /\ ~(i - 1 <= Len(a))
    BY <1>1, <1>2, <1>3, SMT
  <2>2. d[i - 1] = b[i - 1 - (k - 1)]
    BY <1>2, <1>4, <2>1
  <2>3. i - 1 - (k - 1) \in 1 .. Len(s) - k /\ k + (i - 1 - (k - 1)) = i
    BY <1>1, SMT
  <2>4. QED
    BY <1>3, <2>2, <2>3
<1>9. QED
  BY <1>4, <1>5, <1>6, <1>7, <1>8

\* What is left of a sequence without its first k elements.
LEMMA WithoutFront ==
    ASSUME NEW S, NEW q \in Seq(S), NEW k \in 0 .. Len(q)
    PROVE  LET d == SubSeq(q, k + 1, Len(q))
           IN /\ d \in Seq(S) /\ Len(d) = Len(q) - k
              /\ \A i \in 1 .. Len(q) - k : d[i] = q[k + i]
<1> DEFINE d == SubSeq(q, k + 1, Len(q))
<1>1. Len(q) \in Nat /\ k + 1 \in Int /\ \A i \in k + 1 .. Len(q) : q[i] \in S
  BY LenProperties, ElementOfSeq, SMT
<1>2. /\ d \in Seq(S)
      /\ Len(d) = IF k + 1 <= Len(q) THEN Len(q) - (k + 1) + 1 ELSE 0
      /\ \A i \in 1 .. Len(q) - (k + 1) + 1 : d[i] = q[(k + 1) + i - 1]
  BY <1>1, SubSeqProperties, SMT
<1> HIDE DEF d
<1>3. d \in Seq(S) /\ Len(d) = Len(q) - k /\ \A i \in 1 .. Len(q) - k : d[i] = q[k + i]
  BY <1>1, <1>2, SMT
<1>4. QED
  BY <1>3 DEF d

\* SetToSeq of a finite set is a sequence in which every element has a place.
LEMMA SetToSeqProperties ==
    ASSUME NEW S, IsFiniteSet(S)
    PROVE  /\ SetToSeq(S) \in Seq(S)
           /\ \A x \in S : \E i \in 1 .. Len(SetToSeq(S)) : SetToSeq(S)[i] = x
<1> DEFINE n == Cardinality(S)
           f == SetToSeq(S)
<1>1. n \in Nat /\ ExistsBijection(1 .. n, S)
  BY FS_CardinalityType
<1>2. PICK g : g \in Bijection(1 .. n, S)
  BY <1>1 DEF ExistsBijection
<1>3. g \in [1 .. n -> S] /\ \A a, b \in 1 .. n : g[a] = g[b] => a = b
  BY <1>2, Fun_BijectionProperties
<1>4. f \in [1 .. n -> S] /\ IsInjective(f)
  <2> DEFINE Distinct(h) == \A a, b \in DOMAIN h : h[a] = h[b] => a = b
  <2>1. g \in [1 .. n -> S] /\ Distinct(g)
    BY <1>3
  <2>2. f = CHOOSE h \in [1 .. n -> S] : Distinct(h)
    BY DEF SetToSeq
  <2>3. f \in [1 .. n -> S] /\ Distinct(f)
    <3> HIDE DEF Distinct, f
    <3> QED
      BY <2>1, <2>2
  <2>4. QED
    BY <2>3 DEF IsInjective
<1> HIDE DEF f
<1>5. f \in Injection(1 .. n, S)
  BY <1>4 DEF Injection
<1>6. Cardinality(1 .. n) = n
  BY <1>1, FS_Interval, SMT
<1>7. f \in Surjection(1 .. n, S)
  BY <1>5, <1>6, FS_Injection
<1>8. \A x \in S : \E i \in 1 .. n : f[i] = x
  BY <1>7 DEF Surjection
<1>9. f \in Seq(S) /\ Len(f) = n
  BY <1>1, <1>4, SeqDef, SMT
<1>10. QED
  BY <1>8, <1>9 DEF f

(***************************************************************************)
(* get_failing and test_reachability.                                      *)
(***************************************************************************)

\* get_failing takes a number of entries off the front of the queue.
LEMMA PoppedPrefix ==
    ASSUME failing_queue \in Seq(Entry)
    PROVE  \E k \in 0 .. Len(failing_queue) : Popped = 1 .. k /\ Cardinality(Popped) = k
<1> DEFINE n == Len(failing_queue)
<1>1. n \in Nat /\ DOMAIN failing_queue = 1 .. n
  BY LenProperties
<1>2. Popped \subseteq 1 .. n
  BY <1>1 DEF Popped
<1>3. ASSUME NEW i \in Popped, NEW j \in 1 .. i
      PROVE  j \in Popped
  <2>1. i \in 1 .. n /\ j \in 1 .. n
    BY <1>1, <1>2, SMT
  <2>2. \A l \in 1 .. j : l \in 1 .. i
    BY <2>1, SMT
  <2>3. QED
    BY <1>1, <2>1, <2>2 DEF Popped
<1> HIDE DEF n
<1>4. \E k \in 0 .. n : Popped = 1 .. k
  <2>1. CASE Popped = 1 .. n
    <3>1. n \in 0 .. n
      BY <1>1, SMT
    <3>2. QED
      BY <2>1, <3>1
  <2>2. CASE Popped # 1 .. n
    <3> DEFINE T == (1 .. n) \ Popped
    <3>1. T \in SUBSET Nat
      BY <1>1, SMT
    <3>2. T # {}
      BY <1>2, <2>2
    <3>3. PICK x \in T : \A y \in T : x <= y
      BY <3>1, <3>2, LeastNat
    <3>4. x \in 1 .. n /\ x \notin Popped
      OBVIOUS
    <3>5. ASSUME NEW i \in Popped
          PROVE  i \in 1 .. x - 1
      <4>1. i \in 1 .. n
        BY <1>2
      <4>2. x \notin 1 .. i
        BY <1>3, <3>4
      <4>3. QED
        BY <1>1, <3>4, <4>1, <4>2, SMT
    <3>6. ASSUME NEW i \in 1 .. x - 1
          PROVE  i \in Popped
      <4>1. i \in 1 .. n /\ ~(x <= i)
        BY <1>1, <3>4, SMT
      <4>2. QED
        BY <3>3, <4>1
    <3>7. Popped = 1 .. x - 1
      BY <3>5, <3>6
    <3>8. x - 1 \in 0 .. n
      BY <1>1, <3>4, SMT
    <3>9. QED
      BY <3>7, <3>8
  <2>3. QED
    BY <2>1, <2>2
<1>5. PICK k \in 0 .. n : Popped = 1 .. k
  BY <1>4
<1>6. Cardinality(1 .. k) = k
  BY <1>1, FS_Interval, SMT
<1>7. QED
  BY <1>5, <1>6 DEF n

\* The retests that get_failing returns: finitely many, each of a node that failed
\* before, and one for every funded node among the entries it took.
LEMMA RetestsProperties ==
    ASSUME failing_queue \in Seq(Entry)
    PROVE  /\ IsFiniteSet(Retests)
           /\ Retests \subseteq [pk : Peers, prev : 1 .. MaxFailures]
           /\ \A i \in Popped : failing_queue[i].pk \in funded =>
                  \E y \in Retests : y.pk = failing_queue[i].pk
<1> DEFINE D == {j \in Popped : failing_queue[j].pk \in funded}
           f == [i \in D |-> [pk |-> failing_queue[i].pk, prev |-> failing_queue[i].failures]]
<1>1. PICK k \in 0 .. Len(failing_queue) : Popped = 1 .. k
  BY PoppedPrefix
<1>2. Len(failing_queue) \in Nat
  BY LenProperties
<1>3. IsFiniteSet(D)
  <2>1. IsFiniteSet(1 .. k)
    BY <1>2, FS_Interval, SMT
  <2>2. D \in SUBSET (1 .. k)
    BY <1>1
  <2>3. QED
    BY <2>1, <2>2, FS_Subset
<1>4. f \in Surjection(D, Retests)
  BY DEF Surjection, Retests
<1>5. IsFiniteSet(Retests)
  BY <1>3, <1>4, FS_Surjection
<1>6. \A i \in Popped : failing_queue[i] \in Entry
  <2>1. \A i \in Popped : i \in 1 .. Len(failing_queue)
    BY <1>1, <1>2, SMT
  <2>2. QED
    BY <2>1, ElementOfSeq
<1>7. Retests \subseteq [pk : Peers, prev : 1 .. MaxFailures]
  <2>1. \A i \in Popped : failing_queue[i].pk \in Peers /\ failing_queue[i].failures \in 1 .. MaxFailures
    BY <1>6 DEF Entry
  <2>2. QED
    BY <2>1, SMT DEF Retests
<1>8. ASSUME NEW i \in Popped, failing_queue[i].pk \in funded
      PROVE  \E y \in Retests : y.pk = failing_queue[i].pk
  <2> DEFINE y == [pk |-> failing_queue[i].pk, prev |-> failing_queue[i].failures]
  <2>1. i \in D
    BY <1>8
  <2>2. y \in Retests
    BY <2>1 DEF Retests
  <2>3. QED
    BY <2>2
<1>9. QED
  BY <1>5, <1>7, <1>8

\* test_reachability adds a test for every node with an address behind the tests under
\* way, and gives up the retests of the others.
LEMMA StartTestsProperties ==
    ASSUME tests \in Seq(Test), skipped \subseteq Peers,
           NEW new, IsFiniteSet(new), new \subseteq [pk : Peers, prev : 0 .. MaxFailures],
           StartTests(new)
    PROVE  /\ tests' \in Seq(Test)
           /\ Len(tests') >= Len(tests)
           /\ \A t \in 1 .. Len(tests) : tests'[t] = tests[t]
           /\ \A y \in new : y.pk \in addressed =>
                  \E t \in 1 .. Len(tests') : tests'[t].pk = y.pk /\ tests'[t].prev = y.prev
           /\ \A y \in new : y.prev > 0 /\ y.pk \notin addressed => y.pk \in skipped'
           /\ skipped \subseteq skipped' /\ skipped' \subseteq Peers
<1> DEFINE A == {y \in new : y.pk \in addressed}
           W == {[pk |-> x.pk, prev |-> x.prev, result |-> "WAITING"] : x \in A}
           f == [x \in A |-> [pk |-> x.pk, prev |-> x.prev, result |-> "WAITING"]]
           w == SetToSeq(W)
<1>1. tests' = tests \o w
  BY DEF StartTests
<1>2. IsFiniteSet(W)
  <2>1. IsFiniteSet(A)
    BY FS_Subset
  <2>2. f \in Surjection(A, W)
    BY DEF Surjection
  <2>3. QED
    BY <2>1, <2>2, FS_Surjection
<1>3. W \subseteq Test
  BY SMT DEF Test
<1>4. w \in Seq(W) /\ \A x \in W : \E i \in 1 .. Len(w) : w[i] = x
  BY <1>2, SetToSeqProperties
<1>5. w \in Seq(Test)
  BY <1>3, <1>4, SeqMonotonic
<1> HIDE DEF w
<1>6. /\ tests' \in Seq(Test) /\ Len(tests') = Len(tests) + Len(w)
      /\ \A i \in 1 .. Len(tests) + Len(w) :
            tests'[i] = IF i <= Len(tests) THEN tests[i] ELSE w[i - Len(tests)]
  BY <1>1, <1>5, ConcatProperties
<1>7. Len(tests) \in Nat /\ Len(w) \in Nat
  BY <1>5, LenProperties
<1>8. \A t \in 1 .. Len(tests) : tests'[t] = tests[t]
  BY <1>6, <1>7, SMT
<1>9. ASSUME NEW y \in new, y.pk \in addressed
      PROVE  \E t \in 1 .. Len(tests') : tests'[t].pk = y.pk /\ tests'[t].prev = y.prev
  <2> DEFINE x == [pk |-> y.pk, prev |-> y.prev, result |-> "WAITING"]
  <2>1. x \in W
    BY <1>9
  <2>2. PICK i \in 1 .. Len(w) : w[i] = x
    BY <1>4, <2>1
  <2>3. /\ Len(tests) + i \in 1 .. Len(tests')
        /\ ~(Len(tests) + i <= Len(tests))
        /\ Len(tests) + i - Len(tests) = i
    BY <1>6, <1>7, SMT
  <2>4. tests'[Len(tests) + i] = w[i]
    BY <1>6, <2>3, SMT
  <2>5. QED
    BY <2>2, <2>3, <2>4, SMT
<1>10. /\ \A y \in new : y.prev > 0 /\ y.pk \notin addressed => y.pk \in skipped'
       /\ skipped \subseteq skipped' /\ skipped' \subseteq Peers
  BY DEF StartTests
<1>11. QED
  BY <1>6, <1>7, <1>8, <1>9, <1>10, SMT

\* What next_random leaves of a queue is a queue.
LEMMA RestOfType ==
    ASSUME NEW q \in Seq(Peers)
    PROVE  RestOf(q) \in Seq(Peers)
<1>1. CASE LastEligible(q) = {}
  BY <1>1, EmptySeq DEF RestOf
<1>2. CASE LastEligible(q) # {}
  <2>1. PICK k : k = CHOOSE i \in LastEligible(q) : TRUE
    OBVIOUS
  <2>2. k \in DOMAIN q
    BY <1>2, <2>1 DEF LastEligible
  <2>3. Len(q) \in Nat /\ DOMAIN q = 1 .. Len(q) /\ \A i \in 1 .. Len(q) : q[i] \in Peers
    BY LenProperties, ElementOfSeq
  <2>4. k - 1 \in Int /\ \A i \in 1 .. k - 1 : q[i] \in Peers
    BY <2>2, <2>3, SMT
  <2>5. SubSeq(q, 1, k - 1) \in Seq(Peers)
    BY <2>4, SubSeqProperties, SMT
  <2>6. RestOf(q) = SubSeq(q, 1, k - 1)
    BY <1>2, <2>1 DEF RestOf
  <2>7. QED
    BY <2>5, <2>6
<1>3. QED
  BY <1>1, <1>2

\* next_random keeps the queue of nodes to test and the time of the next test well-typed.
LEMMA NextRandomTypes ==
    ASSUME TypeOK, NEW pk, NextRandom(pk)
    PROVE  testing_queue' \in Seq(Peers) /\ next_general_test' \in Nat
<1>1. TESTING_INTERVAL \subseteq Nat /\ testing_queue \in Seq(Peers) /\ next_general_test \in Nat
  BY ReachabilityAssumption DEF TypeOK
<1>2. RestOf(testing_queue) \in Seq(Peers)
  BY <1>1, RestOfType
<1>3. Shuffles[funded] \subseteq Seq(Peers)
  <2>1. funded \in SUBSET Peers /\ IsFiniteSet(Peers)
    BY ReachabilityAssumption DEF TypeOK
  <2>2. Cardinality(funded) \in Nat
    BY <2>1, FS_Subset, FS_CardinalityType
  <2>3. Shuffles[funded] \subseteq [1 .. Cardinality(funded) -> Peers]
    BY <2>1 DEF Shuffles
  <2>4. QED
    BY <2>2, <2>3, SeqDef
<1>4. \A q \in Shuffles[funded] : q \in Seq(Peers) /\ RestOf(q) \in Seq(Peers)
  BY <1>3, RestOfType
<1>5. CASE next_general_test > 0
  BY <1>1, <1>5 DEF NextRandom, queueVars
<1>6. CASE ~(next_general_test > 0)
  BY <1>1, <1>2, <1>4, <1>6 DEF NextRandom
<1>7. QED
  BY <1>5, <1>6

\* What the tests of one run of the timer are: the retests, and a random one perhaps.
ToTest(pk) == Retests \cup (IF pk = NONE THEN {} ELSE {[pk |-> pk, prev |-> 0]})

\* The nodes to test at one run of the timer are finitely many tests of peers.
LEMMA ToTestTypes ==
    ASSUME failing_queue \in Seq(Entry), NEW pk \in Peers \cup {NONE}
    PROVE  IsFiniteSet(ToTest(pk)) /\ ToTest(pk) \subseteq [pk : Peers, prev : 0 .. MaxFailures]
<1> DEFINE x == [pk |-> pk, prev |-> 0]
<1>1. MaxFailures \in Nat
  BY ReachabilityAssumption DEF MaxFailures
<1>2. IsFiniteSet(Retests) /\ Retests \subseteq [pk : Peers, prev : 1 .. MaxFailures]
  BY RetestsProperties
<1>3. [pk : Peers, prev : 1 .. MaxFailures] \subseteq [pk : Peers, prev : 0 .. MaxFailures]
  BY <1>1, SMT
<1>4. CASE pk = NONE
  <2>1. ToTest(pk) = Retests
    BY <1>4 DEF ToTest
  <2>2. QED
    BY <1>2, <1>3, <2>1
<1>5. CASE pk # NONE
  <2>1. ToTest(pk) = Retests \cup {x}
    BY <1>5 DEF ToTest
  <2>2. IsFiniteSet(Retests \cup {x})
    BY <1>2, FS_AddElement
  <2>3. x \in [pk : Peers, prev : 0 .. MaxFailures]
    BY <1>1, <1>5, SMT
  <2>4. QED
    BY <1>2, <1>3, <2>1, <2>2, <2>3
<1>6. QED
  BY <1>4, <1>5

-----------------------------------------------------------------------------
(***************************************************************************)
(* A failing node is queued, under retest, or was given up.                *)
(***************************************************************************)

\* The inductive invariant: the types, of which it needs that a queued node has failed
\* at least once, so that its next test counts as a retest.
RetestInv == TypeOK /\ FailingIsRetested

\* The timer: an entry that get_failing takes leads to a retest, or its node is given up.
LEMMA PingPeersKeepsFailing ==
    ASSUME RetestInv, PingPeers
    PROVE  RetestInv' /\ Len(tests') >= Len(tests)
<1>1. PICK pk \in Peers \cup {NONE} :
          /\ NextRandom(pk)
          /\ overlaps' = overlaps + (IF UnderTest(pk) THEN 1 ELSE 0)
          /\ overlaps' <= MaxOverlaps
          /\ StartTests(ToTest(pk))
  BY DEF PingPeers, ToTest
<1>2. /\ failing_queue' = SubSeq(failing_queue, Cardinality(Popped) + 1, Len(failing_queue))
      /\ failing' = failing \ Gone
      /\ UNCHANGED chainVars
  BY DEF PingPeers
<1>3. failing_queue \in Seq(Entry) /\ tests \in Seq(Test) /\ skipped \subseteq Peers
  BY DEF RetestInv, TypeOK
<1>4. IsFiniteSet(ToTest(pk)) /\ ToTest(pk) \subseteq [pk : Peers, prev : 0 .. MaxFailures]
  BY <1>3, ToTestTypes
<1>5. /\ tests' \in Seq(Test)
      /\ Len(tests') >= Len(tests)
      /\ \A t \in 1 .. Len(tests) : tests'[t] = tests[t]
      /\ \A y \in ToTest(pk) : y.pk \in addressed =>
             \E t \in 1 .. Len(tests') : tests'[t].pk = y.pk /\ tests'[t].prev = y.prev
      /\ \A y \in ToTest(pk) : y.prev > 0 /\ y.pk \notin addressed => y.pk \in skipped'
      /\ skipped \subseteq skipped' /\ skipped' \subseteq Peers
  BY <1>1, <1>3, <1>4, StartTestsProperties
<1>6. PICK k \in 0 .. Len(failing_queue) : Popped = 1 .. k /\ Cardinality(Popped) = k
  BY <1>3, PoppedPrefix
<1>7. Len(failing_queue) \in Nat /\ \A i \in 1 .. Len(failing_queue) : failing_queue[i] \in Entry
  BY <1>3, LenProperties, ElementOfSeq
<1>8. /\ failing_queue' \in Seq(Entry)
      /\ Len(failing_queue') = Len(failing_queue) - k
      /\ \A i \in 1 .. Len(failing_queue) - k : failing_queue'[i] = failing_queue[k + i]
  <2>1. failing_queue' = SubSeq(failing_queue, k + 1, Len(failing_queue))
    BY <1>2, <1>6
  <2>2. k \in 0 .. Len(failing_queue)
    BY <1>6, <1>7, SMT
  <2>3. QED
    BY <1>3, <2>1, <2>2, WithoutFront
<1>9. TypeOK'
  <2>1. testing_queue' \in Seq(Peers) /\ next_general_test' \in Nat
    BY <1>1, NextRandomTypes DEF RetestInv
  <2>2. overlaps' \in 0 .. MaxOverlaps
    BY <1>1, ReachabilityAssumption, SMT DEF RetestInv, TypeOK
  <2>3. failing' \subseteq Peers
    BY <1>2 DEF RetestInv, TypeOK
  <2>4. status' \in Status /\ funded' \subseteq Peers /\ addressed' \subseteq funded'
            /\ changes' \in 0 .. MaxChanges
    BY <1>2 DEF RetestInv, TypeOK, chainVars
  <2>5. QED
    BY <1>5, <1>8, <2>1, <2>2, <2>3, <2>4 DEF TypeOK
<1>10. DOMAIN failing_queue = 1 .. Len(failing_queue) /\ DOMAIN tests = 1 .. Len(tests)
  BY <1>3, LenProperties
<1>11. DOMAIN failing_queue' = 1 .. Len(failing_queue') /\ DOMAIN tests' = 1 .. Len(tests')
  BY <1>5, <1>8, LenProperties
<1>12. Len(tests) \in Nat /\ Len(tests') \in Nat
  BY <1>3, <1>5, LenProperties
<1>13. ASSUME NEW n \in failing'
       PROVE  n \in skipped' \/ Queued(n)' \/ UnderRetest(n)'
  <2>1. n \in failing /\ n \notin Gone
    BY <1>2, <1>13
  <2>2. CASE n \in skipped
    BY <1>5, <2>2
  <2>3. CASE UnderRetest(n)
    <3>1. PICK t \in 1 .. Len(tests) : tests[t].pk = n /\ tests[t].prev > 0
      BY <1>10, <2>3 DEF UnderRetest
    <3>2. t \in 1 .. Len(tests') /\ tests'[t] = tests[t]
      BY <1>5, <1>12, <3>1, SMT
    <3>3. QED
      BY <1>11, <3>1, <3>2 DEF UnderRetest
  <2>4. ASSUME NEW i \in 1 .. Len(failing_queue), failing_queue[i].pk = n, i \notin Popped
        PROVE  Queued(n)'
    <3>1. i - k \in 1 .. Len(failing_queue) - k /\ k + (i - k) = i
      BY <1>6, <1>7, <2>4, SMT
    <3>2. failing_queue'[i - k] = failing_queue[i]
      BY <1>8, <3>1
    <3>3. QED
      BY <1>8, <1>11, <2>4, <3>1, <3>2 DEF Queued
  <2>5. ASSUME NEW i \in Popped, failing_queue[i].pk = n
        PROVE  n \in skipped' \/ UnderRetest(n)'
    <3>1. n \in funded
      BY <2>1, <2>5 DEF Gone
    <3>2. PICK y \in Retests : y.pk = n
      BY <1>3, <2>5, <3>1, RetestsProperties
    <3>3. y.prev \in 1 .. MaxFailures
      BY <1>3, RetestsProperties
    <3>4. y \in ToTest(pk) /\ y.prev > 0
      BY <3>3, ReachabilityAssumption, SMT DEF ToTest, MaxFailures
    <3>5. CASE n \in addressed
      <4>1. PICK t \in 1 .. Len(tests') : tests'[t].pk = n /\ tests'[t].prev = y.prev
        BY <1>5, <3>2, <3>4, <3>5
      <4>2. QED
        BY <1>11, <3>4, <4>1 DEF UnderRetest
    <3>6. CASE n \notin addressed
      BY <1>5, <3>2, <3>4, <3>6
    <3>7. QED
      BY <3>5, <3>6
  <2>6. n \in skipped \/ Queued(n) \/ UnderRetest(n)
    BY <2>1 DEF RetestInv, FailingIsRetested
  <2>7. CASE Queued(n)
    <3>1. PICK i \in 1 .. Len(failing_queue) : failing_queue[i].pk = n
      BY <1>10, <2>7 DEF Queued
    <3>2. QED
      BY <2>4, <2>5, <3>1
  <2>8. QED
    BY <2>2, <2>3, <2>6, <2>7
<1>14. FailingIsRetested'
  BY <1>13 DEF FailingIsRetested
<1>15. QED
  BY <1>5, <1>9, <1>14 DEF RetestInv

\* What blocks and proofs change touches no test and no queue.
LEMMA ChainKeepsFailing ==
    ASSUME RetestInv, UNCHANGED <<overlaps, queueVars, failing, failing_queue, tests, skipped>>,
           status' \in Status, funded' \subseteq Peers, addressed' \subseteq funded',
           changes' \in 0 .. MaxChanges
    PROVE  RetestInv'
<1>1. UNCHANGED <<overlaps, testing_queue, next_general_test, failing, failing_queue, tests, skipped>>
  BY DEF queueVars
<1>2. TypeOK'
  BY <1>1 DEF RetestInv, TypeOK
<1>3. FailingIsRetested'
  BY <1>1 DEF RetestInv, FailingIsRetested, Queued, UnderRetest
<1>4. QED
  BY <1>2, <1>3 DEF RetestInv

\* Time that passes leaves every entry in the queue.
LEMMA TickKeepsFailing ==
    ASSUME RetestInv, Tick
    PROVE  RetestInv'
<1> DEFINE n == Len(failing_queue)
<1>1. UNCHANGED <<status, funded, addressed, changes, overlaps, testing_queue, failing, tests, skipped>>
  BY DEF Tick, chainVars
<1>2. failing_queue \in Seq(Entry) /\ n \in Nat /\ DOMAIN failing_queue = 1 .. n
          /\ \A i \in 1 .. n : failing_queue[i] \in Entry
  BY LenProperties, ElementOfSeq DEF RetestInv, TypeOK
<1>3. next_general_test' \in Nat
  BY SMT DEF Tick, Less, RetestInv, TypeOK
<1>4. TESTING_BACKOFF_MAX \in Nat
  BY ReachabilityAssumption
<1>5. failing_queue' = [i \in 1 .. n |-> [failing_queue[i] EXCEPT !.retest = Less(@)]]
  BY <1>2 DEF Tick
<1>6. ASSUME NEW i \in 1 .. n
      PROVE  failing_queue'[i] \in Entry /\ failing_queue'[i].pk = failing_queue[i].pk
  <2>1. failing_queue[i] \in Entry
    BY <1>2
  <2>2. Less(failing_queue[i].retest) \in 0 .. TESTING_BACKOFF_MAX
    BY <1>4, <2>1, SMT DEF Entry, Less
  <2>3. failing_queue'[i] = [failing_queue[i] EXCEPT !.retest = Less(failing_queue[i].retest)]
    BY <1>5
  <2>4. QED
    BY <2>1, <2>2, <2>3 DEF Entry
<1>7. failing_queue' \in Seq(Entry) /\ DOMAIN failing_queue' = 1 .. n
  <2>1. failing_queue' \in [1 .. n -> Entry]
    BY <1>5, <1>6
  <2>2. QED
    BY <1>2, <2>1, SeqDef
<1>8. TypeOK'
  BY <1>1, <1>3, <1>7 DEF RetestInv, TypeOK
<1>9. \A m : Queued(m) => Queued(m)'
  BY <1>2, <1>6, <1>7 DEF Queued
<1>10. \A m : UnderRetest(m) => UnderRetest(m)'
  BY <1>1 DEF UnderRetest
<1>11. FailingIsRetested'
  BY <1>1, <1>9, <1>10 DEF RetestInv, FailingIsRetested
<1>12. QED
  BY <1>8, <1>11 DEF RetestInv

\* The first of a test's two answers changes its result only.
LEMMA FirstAnswerKeepsFailing ==
    ASSUME RetestInv, NEW t \in DOMAIN tests, NEW success \in BOOLEAN,
           PingAnswered(t, success), tests[t].result = "WAITING"
    PROVE  RetestInv' /\ Len(tests') = Len(tests)
<1> DEFINE r == IF success THEN "PASSED" ELSE "FAILED"
           e == [tests[t] EXCEPT !.result = r]
<1>1. UNCHANGED <<status, funded, addressed, changes, overlaps, testing_queue,
                  next_general_test, failing, failing_queue, skipped>>
  BY DEF PingAnswered, chainVars, queueVars
<1>2. tests' = [tests EXCEPT ![t] = e]
  BY DEF PingAnswered
<1>3. tests \in Seq(Test) /\ DOMAIN tests = 1 .. Len(tests) /\ Len(tests) \in Nat
  BY LenProperties DEF RetestInv, TypeOK
<1>4. tests[t] \in Test
  BY <1>3, ElementOfSeq
<1>5. e \in Test /\ e.pk = tests[t].pk /\ e.prev = tests[t].prev
  BY <1>4 DEF Test
<1> HIDE DEF e
<1>6. /\ tests' \in Seq(Test) /\ Len(tests') = Len(tests)
      /\ \A j \in 1 .. Len(tests) : tests'[j] = IF j = t THEN e ELSE tests[j]
  BY <1>2, <1>3, <1>5, ExceptSeq
<1>7. DOMAIN tests' = 1 .. Len(tests)
  BY <1>6, LenProperties
<1>8. TypeOK'
  BY <1>1, <1>6 DEF RetestInv, TypeOK
<1>9. \A m : UnderRetest(m) => UnderRetest(m)'
  BY <1>3, <1>5, <1>6, <1>7 DEF UnderRetest
<1>10. \A m : Queued(m)' <=> Queued(m)
  BY <1>1 DEF Queued
<1>11. FailingIsRetested'
  BY <1>1, <1>9, <1>10 DEF RetestInv, FailingIsRetested
<1>12. QED
  BY <1>6, <1>8, <1>11 DEF RetestInv

\* add_failing_node puts one entry for the node into the queue and keeps the others.
LEMMA AddFailingQueues ==
    ASSUME TypeOK, NEW pk \in Peers, NEW prev \in 0 .. MaxFailures, AddFailingNode(pk, prev)
    PROVE  /\ failing_queue' \in Seq(Entry)
           /\ Len(failing_queue') = Len(failing_queue) + 1
           /\ Queued(pk)'
           /\ \A m : Queued(m) => Queued(m)'
<1>1. PICK d \in TESTING_INTERVAL :
          failing_queue' \in Insertions(failing_queue,
              [pk |-> pk, retest |-> AtMost(prev + d, TESTING_BACKOFF_MAX),
               failures |-> AtMost(prev + 1, MaxFailures)])
  BY DEF AddFailingNode
<1> DEFINE e == [pk |-> pk, retest |-> AtMost(prev + d, TESTING_BACKOFF_MAX),
                 failures |-> AtMost(prev + 1, MaxFailures)]
           n == Len(failing_queue)
<1>2. e \in Entry
  <2>1. d \in Nat /\ prev \in Nat /\ TESTING_BACKOFF_MAX \in Nat \ {0} /\ MaxFailures \in Nat \ {0}
    BY ReachabilityAssumption, SMT DEF MaxFailures
  <2>2. AtMost(prev + d, TESTING_BACKOFF_MAX) \in 0 .. TESTING_BACKOFF_MAX
    BY <2>1, SMT DEF AtMost
  <2>3. AtMost(prev + 1, MaxFailures) \in 1 .. MaxFailures
    BY <2>1, SMT DEF AtMost
  <2>4. QED
    BY <2>2, <2>3 DEF Entry
<1>3. e.pk = pk
  OBVIOUS
<1>4. PICK k \in 1 .. n + 1 : failing_queue' = InsertAt(failing_queue, k, e)
  BY <1>1 DEF Insertions
<1> HIDE DEF e
<1>5. failing_queue \in Seq(Entry) /\ n \in Nat /\ DOMAIN failing_queue = 1 .. n
  BY LenProperties DEF TypeOK
<1>6. /\ failing_queue' \in Seq(Entry)
      /\ Len(failing_queue') = n + 1
      /\ failing_queue'[k] = e
      /\ \A i \in 1 .. k - 1 : failing_queue'[i] = failing_queue[i]
      /\ \A i \in k .. n : failing_queue'[i + 1] = failing_queue[i]
  <2> DEFINE w == InsertAt(failing_queue, k, e)
  <2>1. /\ w \in Seq(Entry) /\ Len(w) = n + 1 /\ w[k] = e
        /\ \A i \in 1 .. k - 1 : w[i] = failing_queue[i]
        /\ \A i \in k .. n : w[i + 1] = failing_queue[i]
    <3>1. failing_queue \in Seq(Entry) /\ e \in Entry /\ k \in 1 .. Len(failing_queue) + 1
      BY <1>2, <1>5
    <3>2. w \in Seq(Entry) /\ Len(w) = n + 1 /\ w[k] = e
      BY <3>1, InsertAtProperties, SMT
    <3>3. \A i \in 1 .. k - 1 : w[i] = failing_queue[i]
      BY <3>1, InsertAtProperties, SMT
    <3>4. \A i \in k .. n : w[i + 1] = failing_queue[i]
      BY <3>1, InsertAtProperties, SMT
    <3>5. QED
      BY <3>2, <3>3, <3>4
  <2> HIDE DEF w
  <2>2. failing_queue' = w
    BY <1>4 DEF w
  <2>3. QED
    BY <2>1, <2>2
<1>7. DOMAIN failing_queue' = 1 .. n + 1
  BY <1>6, LenProperties
<1>8. Queued(pk)'
  BY <1>3, <1>6, <1>7 DEF Queued
<1>9. ASSUME NEW m, Queued(m)
      PROVE  Queued(m)'
  <2>1. PICK i \in 1 .. n : failing_queue[i].pk = m
    BY <1>5, <1>9 DEF Queued
  <2>2. CASE i < k
    <3>1. i \in 1 .. k - 1 /\ i \in 1 .. n + 1
      BY <1>5, <2>2, SMT
    <3>2. QED
      BY <1>6, <1>7, <2>1, <3>1 DEF Queued
  <2>3. CASE ~(i < k)
    <3>1. i \in k .. n /\ i + 1 \in 1 .. n + 1
      BY <1>5, <2>3, SMT
    <3>2. QED
      BY <1>6, <1>7, <2>1, <3>1 DEF Queued
  <2>4. QED
    BY <2>2, <2>3
<1>10. QED
  BY <1>6, <1>8, <1>9

\* A test that is over leaves the others under way.
LEMMA RemovedTest ==
    ASSUME tests \in Seq(Test), NEW t \in DOMAIN tests, tests' = RemoveAt(tests, t)
    PROVE  /\ tests' \in Seq(Test)
           /\ Len(tests') = Len(tests) - 1
           /\ \A m : UnderRetest(m) => UnderRetest(m)' \/ (tests[t].pk = m /\ tests[t].prev > 0)
<1> DEFINE n == Len(tests)
<1>1. n \in Nat /\ DOMAIN tests = 1 .. n
  BY LenProperties
<1>2. /\ tests' \in Seq(Test)
      /\ Len(tests') = n - 1
      /\ \A i \in 1 .. t - 1 : tests'[i] = tests[i]
      /\ \A i \in t + 1 .. n : tests'[i - 1] = tests[i]
  <2> DEFINE w == RemoveAt(tests, t)
  <2>1. /\ w \in Seq(Test) /\ Len(w) = n - 1
        /\ \A i \in 1 .. t - 1 : w[i] = tests[i]
        /\ \A i \in t + 1 .. n : w[i - 1] = tests[i]
    <3>1. tests \in Seq(Test) /\ t \in 1 .. Len(tests)
      BY <1>1
    <3>2. w \in Seq(Test) /\ Len(w) = n - 1
      BY <3>1, RemoveAtProperties
    <3>3. \A i \in 1 .. t - 1 : w[i] = tests[i]
      BY <3>1, RemoveAtProperties
    <3>4. \A i \in t + 1 .. n : w[i - 1] = tests[i]
      BY <3>1, RemoveAtProperties
    <3>5. QED
      BY <3>2, <3>3, <3>4
  <2> HIDE DEF w
  <2>2. tests' = w
    BY DEF w
  <2>3. QED
    BY <2>1, <2>2
<1>3. DOMAIN tests' = 1 .. n - 1
  BY <1>2, LenProperties
<1>4. ASSUME NEW m, UnderRetest(m), ~(tests[t].pk = m /\ tests[t].prev > 0)
      PROVE  UnderRetest(m)'
  <2>1. PICK i \in 1 .. n : tests[i].pk = m /\ tests[i].prev > 0
    BY <1>1, <1>4 DEF UnderRetest
  <2>2. i # t
    BY <1>4, <2>1
  <2>3. CASE i < t
    <3>1. i \in 1 .. t - 1 /\ i \in 1 .. n - 1
      BY <1>1, <2>3, SMT
    <3>2. QED
      BY <1>2, <1>3, <2>1, <3>1 DEF UnderRetest
  <2>4. CASE ~(i < t)
    <3>1. i \in t + 1 .. n /\ i - 1 \in 1 .. n - 1
      BY <1>1, <2>2, <2>4, SMT
    <3>2. tests'[i - 1] = tests[i]
      BY <1>2, <3>1
    <3>3. QED
      BY <1>3, <2>1, <3>1, <3>2 DEF UnderRetest
  <2>5. QED
    BY <2>3, <2>4
<1>5. QED
  BY <1>2, <1>4

\* The second answer: the node goes back into the queue, or out of the failing nodes if
\* the test was a retest; a random test that passed changes nothing.
LEMMA SecondAnswerKeepsFailing ==
    ASSUME RetestInv, NEW t \in DOMAIN tests, NEW success \in BOOLEAN,
           PingAnswered(t, success), tests[t].result # "WAITING"
    PROVE  RetestInv'
<1>0. PICK pk, prev, reachable : /\ pk = tests[t].pk /\ prev = tests[t].prev
                                 /\ reachable = Reachable(tests[t], success)
  OBVIOUS
<1>1. UNCHANGED <<status, funded, addressed, changes, overlaps, testing_queue, next_general_test>>
  BY DEF PingAnswered, chainVars, queueVars
<1>2. tests' = RemoveAt(tests, t) /\ ReportReachability(pk, reachable, prev)
  BY <1>0 DEF PingAnswered
<1>3. TypeOK /\ tests \in Seq(Test)
  BY DEF RetestInv, TypeOK
<1>4. pk \in Peers /\ prev \in 0 .. MaxFailures
  <2>1. tests[t] \in Test
    BY <1>3, LenProperties, ElementOfSeq
  <2>2. QED
    BY <1>0, <2>1 DEF Test
<1>5. /\ tests' \in Seq(Test)
      /\ \A m : UnderRetest(m) => UnderRetest(m)' \/ (pk = m /\ prev > 0)
  BY <1>0, <1>2, <1>3, RemovedTest
<1>6. ASSUME failing_queue' \in Seq(Entry), failing' \subseteq failing \cup {pk},
             skipped' \subseteq skipped
      PROVE  TypeOK'
  <2>1. failing' \subseteq Peers /\ skipped' \subseteq Peers
    BY <1>3, <1>4, <1>6 DEF TypeOK
  <2>2. QED
    BY <1>1, <1>3, <1>5, <1>6, <2>1 DEF TypeOK
<1>7. \A m \in failing : m \in skipped \/ Queued(m) \/ UnderRetest(m)
  BY DEF RetestInv, FailingIsRetested
<1>8. CASE ~reachable
  <2>1. AddFailingNode(pk, prev)
    BY <1>2, <1>8 DEF ReportReachability
  <2>2. /\ failing_queue' \in Seq(Entry)
        /\ Queued(pk)'
        /\ \A m : Queued(m) => Queued(m)'
    BY <1>3, <1>4, <2>1, AddFailingQueues
  <2>3. failing' = failing \cup {pk} /\ skipped' = skipped \ {pk}
    BY <2>1 DEF AddFailingNode
  <2>4. \A m \in failing' : m \in skipped' \/ Queued(m)' \/ UnderRetest(m)'
    BY <1>5, <1>7, <2>2, <2>3
  <2>5. QED
    BY <1>6, <2>2, <2>3, <2>4 DEF RetestInv, FailingIsRetested
<1>9. CASE reachable /\ prev > 0
  <2>1. failing' = failing \ {pk} /\ skipped' = skipped \ {pk} /\ failing_queue' = failing_queue
    BY <1>2, <1>9 DEF ReportReachability, RemoveNodeFromFailing
  <2>2. \A m : Queued(m)' <=> Queued(m)
    BY <2>1 DEF Queued
  <2>3. \A m \in failing' : m \in skipped' \/ Queued(m)' \/ UnderRetest(m)'
    BY <1>5, <1>7, <2>1, <2>2
  <2>4. failing_queue' \in Seq(Entry)
    BY <1>3, <2>1 DEF TypeOK
  <2>5. QED
    BY <1>6, <2>1, <2>3, <2>4 DEF RetestInv, FailingIsRetested
<1>10. CASE reachable /\ ~(prev > 0)
  <2>1. UNCHANGED <<failing, failing_queue, skipped>>
    BY <1>2, <1>10 DEF ReportReachability
  <2>2. \A m : Queued(m)' <=> Queued(m)
    BY <2>1 DEF Queued
  <2>3. \A m \in failing' : m \in skipped' \/ Queued(m)' \/ UnderRetest(m)'
    BY <1>5, <1>7, <1>10, <2>1, <2>2
  <2>4. failing_queue' \in Seq(Entry)
    BY <1>3, <2>1 DEF TypeOK
  <2>5. QED
    BY <1>6, <2>1, <2>3, <2>4 DEF RetestInv, FailingIsRetested
<1>11. QED
  BY <1>8, <1>9, <1>10

\* At first no node is failing.
LEMMA RetestInit == Init => RetestInv
<1> SUFFICES ASSUME Init
             PROVE  RetestInv
  OBVIOUS
<1>1. MaxChanges \in Nat /\ MaxOverlaps \in Nat
  BY ReachabilityAssumption
<1>2. testing_queue \in Seq(Peers) /\ failing_queue \in Seq(Entry) /\ tests \in Seq(Test)
  BY EmptySeq DEF Init
<1>3. changes \in 0 .. MaxChanges /\ overlaps \in 0 .. MaxOverlaps
  BY <1>1, SMT DEF Init
<1>4. TypeOK
  BY <1>2, <1>3 DEF Init, TypeOK, Status
<1>5. FailingIsRetested
  BY DEF Init, FailingIsRetested
<1>6. QED
  BY <1>4, <1>5 DEF RetestInv

\* The steps that answer no ping keep the invariant and end no test.
LEMMA OtherStepsKeepFailing ==
    ASSUME RetestInv,
           \/ \E s \in Status : StatusChanges(s)
           \/ \E pk \in Peers : Deregisters(pk) \/ Registers(pk) \/ SendsProof(pk)
           \/ Tick
           \/ PingPeers
           \/ UNCHANGED vars
    PROVE  RetestInv' /\ Len(tests') >= Len(tests)
<1> USE DEF RetestInv
<1>1. Len(tests) \in Nat
  BY LenProperties DEF TypeOK
<1>2. CASE Tick
  <2>1. tests' = tests
    BY <1>2 DEF Tick
  <2>2. QED
    BY <1>1, <1>2, <2>1, TickKeepsFailing, SMT
<1>3. CASE PingPeers
  BY <1>3, PingPeersKeepsFailing
<1>4. ASSUME Change
      PROVE  /\ UNCHANGED <<overlaps, queueVars, failing, failing_queue, tests, skipped>>
             /\ changes' \in 0 .. MaxChanges
  BY <1>4, ReachabilityAssumption, SMT DEF Change, TypeOK
<1>5. ASSUME UNCHANGED <<overlaps, queueVars, failing, failing_queue, tests, skipped>>,
             status' \in Status, funded' \subseteq Peers, addressed' \subseteq funded',
             changes' \in 0 .. MaxChanges
      PROVE  RetestInv' /\ Len(tests') >= Len(tests)
  <2>1. RetestInv'
    BY <1>5, ChainKeepsFailing
  <2>2. QED
    BY <1>1, <1>5, <2>1, SMT
<1>6. ASSUME NEW s \in Status, StatusChanges(s)
      PROVE  RetestInv' /\ Len(tests') >= Len(tests)
  BY <1>4, <1>5, <1>6 DEF StatusChanges, TypeOK
<1>7. ASSUME NEW pk \in Peers, Deregisters(pk)
      PROVE  RetestInv' /\ Len(tests') >= Len(tests)
  BY <1>4, <1>5, <1>7 DEF Deregisters, TypeOK
<1>8. ASSUME NEW pk \in Peers, Registers(pk)
      PROVE  RetestInv' /\ Len(tests') >= Len(tests)
  BY <1>4, <1>5, <1>8 DEF Registers, TypeOK
<1>9. ASSUME NEW pk \in Peers, SendsProof(pk)
      PROVE  RetestInv' /\ Len(tests') >= Len(tests)
  BY <1>5, <1>9 DEF SendsProof, TypeOK
<1>10. CASE UNCHANGED vars
  BY <1>5, <1>10 DEF vars, chainVars, TypeOK
<1>11. QED
  BY <1>2, <1>3, <1>6, <1>7, <1>8, <1>9, <1>10

\* Whatever peers come, go, fail and answer, in whatever order the pings of overlapping
\* tests come back: the types hold, and every failing node is queued, under retest, or
\* was given up for lack of an address.
THEOREM RetestInvariant == Spec => []RetestInv
<1>1. RetestInv /\ [Next]_vars => RetestInv'
  <2> SUFFICES ASSUME RetestInv, [Next]_vars
               PROVE  RetestInv'
    OBVIOUS
  <2>1. ASSUME NEW t \in DOMAIN tests, NEW success \in BOOLEAN, PingAnswered(t, success)
        PROVE  RetestInv'
    BY <2>1, FirstAnswerKeepsFailing, SecondAnswerKeepsFailing
  <2>2. QED
    BY <2>1, OtherStepsKeepFailing DEF Next
<1>2. QED
  BY <1>1, RetestInit, PTL DEF Spec

\* No failing node, which next_random passes over, is ever forgotten by get_failing.
THEOREM FailingAlwaysRetested == Spec => []FailingIsRetested
<1>1. RetestInv => FailingIsRetested
  BY DEF RetestInv
<1>2. QED
  BY <1>1, RetestInvariant, PTL

-----------------------------------------------------------------------------
(***************************************************************************)
(* A failed ping is reported.                                              *)
(***************************************************************************)

\* Taking away one of two tests gives the same only if the two are the same.
LEMMA SameWithout ==
    ASSUME NEW S, NEW s \in Seq(S), NEW t \in 1 .. Len(s), NEW u \in 1 .. Len(s), t < u,
           RemoveAt(s, t) = RemoveAt(s, u)
    PROVE  s[t] = s[u]
<1> DEFINE T == {j \in t .. u : s[j] # s[t]}
<1>1. Len(s) \in Nat
  BY LenProperties
<1>2. T = {}
  <2> SUFFICES ASSUME T # {}
               PROVE  FALSE
    OBVIOUS
  <2>1. T \in SUBSET Nat
    BY <1>1, SMT
  <2>2. PICK x \in T : \A y \in T : x <= y
    BY <2>1, LeastNat
  <2>3. x \in t .. u /\ s[x] # s[t]
    OBVIOUS
  <2>4. x # t
    BY <2>3
  <2>5. /\ x \in t + 1 .. Len(s) /\ x - 1 \in 1 .. u - 1
        /\ x - 1 \in t .. u /\ ~(x <= x - 1)
    BY <1>1, <2>3, <2>4, SMT
  <2>6. s[x - 1] = s[t]
    BY <2>2, <2>5
  <2>7. RemoveAt(s, t)[x - 1] = s[x]
    BY <2>5, RemoveAtProperties
  <2>8. RemoveAt(s, u)[x - 1] = s[x - 1]
    BY <2>5, RemoveAtProperties
  <2>9. QED
    BY <2>3, <2>6, <2>7, <2>8
<1>3. u \in t .. u
  BY <1>1, SMT
<1>4. QED
  BY <1>2, <1>3

\* The step that ends a test with a failed ping puts its node back into the queue.
LEMMA EndReports ==
    ASSUME RetestInv, Next, NEW t \in DOMAIN tests, tests[t].result = "FAILED",
           tests' = RemoveAt(tests, t)
    PROVE  tests[t].pk \in failing' /\ Len(failing_queue') = Len(failing_queue) + 1
<1>1. TypeOK /\ tests \in Seq(Test) /\ Len(tests) \in Nat /\ DOMAIN tests = 1 .. Len(tests)
  BY LenProperties DEF RetestInv, TypeOK
<1>2. Len(tests') = Len(tests) - 1
  BY <1>1, RemovedTest
<1>3. ~(Len(tests') >= Len(tests)) /\ Len(tests') # Len(tests)
  <2>1. \A n \in Nat : ~(n - 1 >= n) /\ n - 1 # n
    BY SMT
  <2>2. QED
    BY <1>1, <1>2, <2>1
<1>4. PICK u \in DOMAIN tests, success \in BOOLEAN : PingAnswered(u, success)
  BY <1>3, OtherStepsKeepFailing DEF Next
<1>5. tests[u].result # "WAITING"
  BY <1>3, <1>4, FirstAnswerKeepsFailing
<1>6. /\ tests' = RemoveAt(tests, u)
      /\ ReportReachability(tests[u].pk, Reachable(tests[u], success), tests[u].prev)
  BY <1>4, <1>5 DEF PingAnswered
<1>7. tests[u] = tests[t]
  <2>1. CASE u < t
    BY <1>1, <1>6, <2>1, SameWithout
  <2>2. CASE t < u
    BY <1>1, <1>6, <2>2, SameWithout
  <2>3. CASE u = t
    BY <2>3
  <2>4. QED
    BY <1>1, <2>1, <2>2, <2>3, SMT
<1>8. ~Reachable(tests[u], success)
  BY <1>7 DEF Reachable
<1>9. AddFailingNode(tests[u].pk, tests[u].prev)
  BY <1>6, <1>8 DEF ReportReachability
<1>10. tests[u].pk \in Peers /\ tests[u].prev \in 0 .. MaxFailures
  <2>1. tests[u] \in Test
    BY <1>1, ElementOfSeq
  <2>2. QED
    BY <2>1 DEF Test
<1>11. Len(failing_queue') = Len(failing_queue) + 1
  <2>1. PICK pk, prev : pk = tests[u].pk /\ prev = tests[u].prev
    OBVIOUS
  <2>2. AddFailingNode(pk, prev) /\ pk \in Peers /\ prev \in 0 .. MaxFailures
    BY <1>9, <1>10, <2>1
  <2>3. QED
    BY <1>1, <2>2, AddFailingQueues
<1>12. QED
  BY <1>7, <1>9, <1>11 DEF AddFailingNode

\* The second ping of a test that fails, after one that passed, does so as well.
LEMMA LaterFailureReports ==
    ASSUME RetestInv, NEW t \in DOMAIN tests, tests[t].result = "PASSED",
           PingAnswered(t, FALSE)
    PROVE  tests[t].pk \in failing' /\ Len(failing_queue') = Len(failing_queue) + 1
<1>1. TypeOK /\ tests \in Seq(Test) /\ DOMAIN tests = 1 .. Len(tests)
  BY LenProperties DEF RetestInv, TypeOK
<1>2. PICK pk, prev : pk = tests[t].pk /\ prev = tests[t].prev
  OBVIOUS
<1>3. ~Reachable(tests[t], FALSE)
  BY DEF Reachable
<1>4. AddFailingNode(pk, prev)
  BY <1>2, <1>3 DEF PingAnswered, ReportReachability
<1>5. pk \in Peers /\ prev \in 0 .. MaxFailures
  <2>1. tests[t] \in Test
    BY <1>1, ElementOfSeq
  <2>2. QED
    BY <1>2, <2>1 DEF Test
<1>6. Len(failing_queue') = Len(failing_queue) + 1
  BY <1>1, <1>4, <1>5, AddFailingQueues
<1>7. QED
  BY <1>2, <1>4, <1>6 DEF AddFailingNode

\* A test with a failed ping, the first or the second to end, always ends with its node
\* queued for a retest, whatever other tests are under way.
THEOREM FailuresReported == Spec => FailureIsReported
<1>1. RetestInv /\ [Next]_vars =>
          [\A t \in DOMAIN tests :
            (\/ tests[t].result = "FAILED" /\ tests' = RemoveAt(tests, t)
             \/ tests[t].result = "PASSED" /\ PingAnswered(t, FALSE))
                => tests[t].pk \in failing' /\ Len(failing_queue') = Len(failing_queue) + 1]_vars
  BY EndReports, LaterFailureReports
<1>2. QED
  BY <1>1, RetestInvariant, PTL DEF Spec, FailureIsReported
=============================================================================
