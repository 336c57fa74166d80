---------------------------- MODULE Reachability ----------------------------
(***************************************************************************)
(* The reachability tests one node makes of the others (reachability_      *)
(* testing.cpp; ping_peers, test_reachability and report_reachability of   *)
(* service_node.cpp).  At every run of its timer the node tests again the  *)
(* failing nodes that are due and, once in a while, another node of a      *)
(* shuffled queue.  A test is an HTTPS ping and an OMQ ping; the later of  *)
(* the two answers reports the outcome.                                    *)
(*                                                                         *)
(* Times are kept as the number of units until they come, a unit being     *)
(* TESTING_BACKOFF; Tick lets a unit pass.                                 *)
(***************************************************************************)
EXTENDS Naturals, Sequences, FiniteSets

CONSTANTS
    Peers,                  \* the other service nodes
    NONE,                   \* no node
    TESTING_INTERVAL,       \* the values that the random interval can have
    TESTING_BACKOFF_MAX,
    MAX_RETESTS_PER_TICK,
    MaxChanges,             \* bound on the changes that blocks bring
    MaxOverlaps             \* bound on random tests of nodes that are still being tested

ASSUME ReachabilityAssumption ==
    /\ IsFiniteSet(Peers) /\ NONE \notin Peers
    /\ TESTING_INTERVAL \subseteq Nat /\ TESTING_INTERVAL # {}
    /\ TESTING_BACKOFF_MAX \in Nat \ {0}
    /\ MAX_RETESTS_PER_TICK \in Nat \ {0}
    /\ MaxChanges \in Nat /\ MaxOverlaps \in Nat

VARIABLES
    status,             \* status_ of this node
    funded,             \* all_funded_nodes_ of the swarm, but for this node
    addressed,          \* those of them whose record has an IP other than 0.0.0.0
    changes, overlaps,  \* how many of those there have been
    testing_queue,      \* testing_queue, taken from its back; our own key, which is passed
                        \* over wherever it is met, is left out
    next_general_test,  \* time until the next random test
    failing,            \* failing
    failing_queue,      \* failing_queue, by retest time
    tests,              \* the tests under way, the oldest first
    skipped             \* history: failing nodes whose retest was given up

chainVars == <<status, funded, addressed, changes>>
queueVars == <<testing_queue, next_general_test>>
vars == <<chainVars, overlaps, queueVars, failing, failing_queue, tests, skipped>>

\* For the tests, a decommissioned node is no different from an unstaked one.
Status == {"ACTIVE", "UNSTAKED"}

\* A failure count beyond this one makes no difference to the time of a retest.
MaxFailures == TESTING_BACKOFF_MAX
AtMost(n, bound) == IF n < bound THEN n ELSE bound

Entry == [pk : Peers, retest : 0 .. TESTING_BACKOFF_MAX, failures : 1 .. MaxFailures]
Test == [pk : Peers, prev : 0 .. MaxFailures, result : {"WAITING", "FAILED", "PASSED"}]

\* These three are as in SequencesExt, whose other definitions burden the provers.
InsertAt(s, i, e) == SubSeq(s, 1, i - 1) \o <<e>> \o SubSeq(s, i, Len(s))
RemoveAt(s, i) == SubSeq(s, 1, i - 1) \o SubSeq(s, i + 1, Len(s))
SetToSeq(S) == CHOOSE f \in [1 .. Cardinality(S) -> S] : \A a, b \in DOMAIN f : f[a] = f[b] => a = b

Init ==
    /\ status = "ACTIVE" /\ funded = Peers /\ addressed = Peers /\ changes = 0
    /\ testing_queue = <<>> /\ next_general_test = 0
    /\ failing = {} /\ failing_queue = <<>>
    /\ tests = <<>> /\ overlaps = 0 /\ skipped = {}

-----------------------------------------------------------------------------
(***************************************************************************)
(* What blocks change, and time.                                           *)
(***************************************************************************)
Change ==
    /\ changes < MaxChanges
    /\ changes' = changes + 1
    /\ UNCHANGED <<overlaps, queueVars, failing, failing_queue, tests, skipped>>

StatusChanges(s) ==
    /\ Change
    /\ status # s
    /\ status' = s
    /\ UNCHANGED <<funded, addressed>>

Deregisters(pk) ==
    /\ Change
    /\ pk \in funded
    /\ funded' = funded \ {pk}
    /\ addressed' = addressed \ {pk}
    /\ UNCHANGED status

\* A node that is new has no address until it sends an uptime proof.
Registers(pk) ==
    /\ Change
    /\ pk \notin funded
    /\ funded' = funded \cup {pk}
    /\ UNCHANGED <<status, addressed>>

\* preserve_ips keeps the address from then on.
SendsProof(pk) ==
    /\ pk \in funded \ addressed
    /\ addressed' = addressed \cup {pk}
    /\ UNCHANGED <<status, funded, changes, overlaps, queueVars, failing, failing_queue, tests,
                   skipped>>

Less(n) == IF n = 0 THEN 0 ELSE n - 1

Tick ==
    /\ next_general_test > 0 \/ \E i \in DOMAIN failing_queue : failing_queue[i].retest > 0
    /\ next_general_test' = Less(next_general_test)
    /\ failing_queue' = [i \in DOMAIN failing_queue |->
                            [failing_queue[i] EXCEPT !.retest = Less(@)]]
    /\ UNCHANGED <<chainVars, overlaps, testing_queue, failing, tests, skipped>>

-----------------------------------------------------------------------------
(***************************************************************************)
(* The timer: get_failing, next_random, test_reachability.                 *)
(***************************************************************************)
FundedBefore(i) == Cardinality({j \in 1 .. i - 1 : failing_queue[j].pk \in funded})

\* The entries that get_failing takes off the queue.
Popped ==
    {i \in DOMAIN failing_queue :
        \A j \in 1 .. i : /\ failing_queue[j].retest = 0
                          /\ FundedBefore(j) < MAX_RETESTS_PER_TICK}

\* get_failing returns the funded ones, and stops testing the others.
Retests == {[pk |-> failing_queue[i].pk, prev |-> failing_queue[i].failures] :
                i \in {j \in Popped : failing_queue[j].pk \in funded}}

\* Mutant of Gone: nodes that are no longer funded stay among the failing ones.
GoneKept == {}

Gone == {failing_queue[i].pk : i \in Popped} \ funded

Eligible(pk) == pk \in funded /\ pk \notin failing \ Gone

\* What next_random finds in queue q, from its back.
LastEligible(q) ==
    {i \in DOMAIN q : Eligible(q[i]) /\ \A j \in i + 1 .. Len(q) : ~Eligible(q[j])}
Drawn(q) == IF LastEligible(q) = {} THEN NONE ELSE q[CHOOSE i \in LastEligible(q) : TRUE]
RestOf(q) ==
    IF LastEligible(q) = {} THEN <<>> ELSE SubSeq(q, 1, (CHOOSE i \in LastEligible(q) : TRUE) - 1)

Shuffles == [nodes \in SUBSET Peers |->
                {q \in [1 .. Cardinality(nodes) -> nodes] :
                    \A i, j \in DOMAIN q : i # j => q[i] # q[j]}]

\* next_random.  An exhausted queue is filled, and the call repeated once: by then the time of
\* the next test has been set, and unless that is over already nothing is drawn.
NextRandom(pk) ==
    IF next_general_test > 0 THEN pk = NONE /\ UNCHANGED queueVars
    ELSE \E interval \in TESTING_INTERVAL :
        IF LastEligible(testing_queue) # {}
        THEN /\ next_general_test' = interval
             /\ pk = Drawn(testing_queue) /\ testing_queue' = RestOf(testing_queue)
        ELSE \E q \in Shuffles[funded] :
             IF interval > 0
             THEN next_general_test' = interval /\ pk = NONE /\ testing_queue' = q
             ELSE /\ next_general_test' \in TESTING_INTERVAL
                  /\ pk = Drawn(q) /\ testing_queue' = RestOf(q)

UnderTest(pk) == \E t \in DOMAIN tests : tests[t].pk = pk

\* test_reachability for each: no test, and no report, of a node without an address.
StartTests(new) ==
    /\ tests' = tests \o SetToSeq({[pk |-> x.pk, prev |-> x.prev, result |-> "WAITING"] :
                                       x \in {y \in new : y.pk \in addressed}})
    /\ skipped' = skipped \cup {x.pk : x \in {y \in new : y.prev > 0 /\ y.pk \notin addressed}}

PingPeers ==
    /\ status = "ACTIVE"
    /\ failing_queue' = SubSeq(failing_queue, Cardinality(Popped) + 1, Len(failing_queue))
    /\ failing' = failing \ Gone
    /\ \E pk \in Peers \cup {NONE} :
        /\ NextRandom(pk)
        /\ overlaps' = overlaps + (IF UnderTest(pk) THEN 1 ELSE 0)
        /\ overlaps' <= MaxOverlaps
        /\ StartTests(Retests \cup (IF pk = NONE THEN {} ELSE {[pk |-> pk, prev |-> 0]}))
    /\ UNCHANGED chainVars

-----------------------------------------------------------------------------
(***************************************************************************)
(* The answers to the pings.                                               *)
(***************************************************************************)
\* The queues that emplace can make of q: e goes where the order by retest time stays, and
\* among entries due in the same unit the actual times decide.
Insertions(q, e) ==
    {InsertAt(q, k, e) : k \in {j \in 1 .. Len(q) + 1 :
                                   /\ \A i \in 1 .. j - 1 : q[i].retest <= e.retest
                                   /\ \A i \in j .. Len(q) : q[i].retest >= e.retest}}

\* add_failing_node
AddFailingNode(pk, prev) ==
    /\ failing' = failing \cup {pk}
    /\ \E d \in TESTING_INTERVAL :
        failing_queue' \in Insertions(failing_queue,
            [pk |-> pk, retest |-> AtMost(prev + d, TESTING_BACKOFF_MAX),
             failures |-> AtMost(prev + 1, MaxFailures)])
    /\ skipped' = skipped \ {pk}

\* Mutant of RemoveNodeFromFailing: the node is not taken out of the set.
RemoveNodeFromFailingKept(pk) == UNCHANGED <<failing, failing_queue, skipped>>

\* remove_node_from_failing
RemoveNodeFromFailing(pk) ==
    /\ failing' = failing \ {pk}
    /\ skipped' = skipped \ {pk}
    /\ UNCHANGED failing_queue

\* report_reachability
ReportReachability(pk, reachable, prev) ==
    IF ~reachable THEN AddFailingNode(pk, prev)
    ELSE IF prev > 0 THEN RemoveNodeFromFailing(pk)
    ELSE UNCHANGED <<failing, failing_queue, skipped>>

\* Mutant of Reachable: the later answer decides.
ReachableLater(test, success) == success

Reachable(test, success) == success /\ test.result = "PASSED"

\* The callback of a ping: the exchange of the result, and the report of the second one.
PingAnswered(t, success) ==
    /\ t \in DOMAIN tests
    /\ LET test == tests[t]
       IN  IF test.result = "WAITING"
           THEN /\ tests' = [tests EXCEPT ![t].result = IF success THEN "PASSED" ELSE "FAILED"]
                /\ UNCHANGED <<failing, failing_queue, skipped>>
           ELSE /\ tests' = RemoveAt(tests, t)
                /\ ReportReachability(test.pk, Reachable(test, success), test.prev)
    /\ UNCHANGED <<chainVars, overlaps, queueVars>>

Next ==
    \/ \E s \in Status : StatusChanges(s)
    \/ \E pk \in Peers : Deregisters(pk) \/ Registers(pk) \/ SendsProof(pk)
    \/ Tick
    \/ PingPeers
    \/ \E t \in DOMAIN tests, success \in BOOLEAN : PingAnswered(t, success)

\* Time passes, the timer runs, and every ping is answered or times out.
Fairness ==
    /\ WF_vars(Tick) /\ WF_vars(PingPeers)
    /\ WF_vars(\E success \in BOOLEAN : PingAnswered(1, success))

Spec == Init /\ [][Next]_vars /\ Fairness

-----------------------------------------------------------------------------
TypeOK ==
    /\ status \in Status
    /\ funded \subseteq Peers /\ addressed \subseteq funded
    /\ changes \in 0 .. MaxChanges /\ overlaps \in 0 .. MaxOverlaps
    /\ testing_queue \in Seq(Peers)
    /\ next_general_test \in Nat
    /\ failing \subseteq Peers
    /\ failing_queue \in Seq(Entry)
    /\ tests \in Seq(Test)
    /\ skipped \subseteq Peers

Queued(pk) == \E i \in DOMAIN failing_queue : failing_queue[i].pk = pk
UnderRetest(pk) == \E t \in DOMAIN tests : tests[t].pk = pk /\ tests[t].prev > 0

\* A failing node, which random tests pass over, is due for a retest or being retested,
\* unless its retest was given up for lack of an address.
FailingIsRetested == \A pk \in failing : pk \in skipped \/ Queued(pk) \/ UnderRetest(pk)

\* A test with a failed ping ends with its node queued for a retest: the ping that ended
\* first has failed, whatever the later one finds, or it has passed and the later one fails.
FailureIsReported ==
    [][\A t \in DOMAIN tests :
        (\/ tests[t].result = "FAILED" /\ tests' = RemoveAt(tests, t)
         \/ tests[t].result = "PASSED" /\ PingAnswered(t, FALSE))
            => tests[t].pk \in failing' /\ Len(failing_queue') = Len(failing_queue) + 1]_vars

\* Every node that stays funded and has an address, while this node stays active, is tested
\* again and again, whether it fails or not.
EveryoneIsTested ==
    \A pk \in Peers :
        <>[](status = "ACTIVE" /\ pk \in addressed /\ pk \notin skipped) => []<>UnderTest(pk)
=============================================================================
