------------------------------- MODULE Monitor -------------------------------
(***************************************************************************)
(* Subscriptions to new messages (oxenss/server/omq_monitor.cpp): a client *)
(* asks over a connection for notifications about namespaces of accounts,  *)
(* and asks again from time to time; whenever a new message is stored,     *)
(* send_notifies tells the connections that want to know.                  *)
(*                                                                         *)
(* Keys, signatures and timestamps of a subscription are right or wrong;   *)
(* what follows from them is in the request.  An entry of monitoring_      *)
(* keeps the time that is left instead of its expiry.  An entry is never   *)
(* removed: one that has expired is renewed with what it held, where       *)
(* omq.h has a subscription begin anew.  The history keeps both: what a    *)
(* connection is subscribed to by omq.h, and all it has ever asked for.    *)
(*                                                                         *)
(* A loop of the code is the function that maps its variables at the start *)
(* of a round to those at the end; once the loop is over it changes        *)
(* nothing.  Iterators are indices, the end of s being Len(s) + 1.         *)
(***************************************************************************)
EXTENDS Integers, Sequences

CONSTANTS
    Accounts,               \* the accounts, as pubkeys
    Conns,                  \* the connections of subscribers
    Namespaces,             \* namespace ids
    Subs,                   \* the subscriptions that a request may hold
    MaxSubs,                \* bound on the subscriptions of a request
    MONITOR_EXPIRY_TIME

ASSUME MonitorAssumption ==
    /\ Namespaces \subseteq Int
    /\ {MaxSubs, MONITOR_EXPIRY_TIME} \subseteq Nat
    /\ \A s \in Subs : /\ s.account \in Accounts /\ s.n \in Seq(Namespaces)
                       /\ {s.d, s.verifies} \subseteq BOOLEAN

VARIABLES
    monitoring,     \* monitoring_, the entries of an account in the order they were added
    notifies,       \* what the last message made us send, and for which entry
    asked,          \* history: the namespaces that a connection has ever asked for
    asked_data,     \* history: whether it has ever asked for the data
    asked_ago,      \* history: the time since it last asked, NEVER at first
    subscribed_to,  \* history: what it has asked for since its subscription last expired
    with_data       \* history: whether it has asked for the data since then

subscriptionVars == <<asked, asked_data, asked_ago, subscribed_to, with_data>>
monitorVars == <<monitoring, notifies, subscriptionVars>>

NEVER == MONITOR_EXPIRY_TIME + 1

\* MonitorData, with -1 left once it has expired.
Entry ==
    [namespaces : Seq(Namespaces), left : -1 .. MONITOR_EXPIRY_TIME, push_conn : Conns,
     want_data : BOOLEAN]

MonitorInit ==
    /\ monitoring = [a \in Accounts |-> <<>>]
    /\ notifies = {}
    /\ asked = [a \in Accounts |-> [c \in Conns |-> {}]]
    /\ asked_data = [a \in Accounts |-> [c \in Conns |-> FALSE]]
    /\ asked_ago = [a \in Accounts |-> [c \in Conns |-> NEVER]]
    /\ subscribed_to = [a \in Accounts |-> [c \in Conns |-> {}]]
    /\ with_data = [a \in Accounts |-> [c \in Conns |-> FALSE]]

\* The variables of a loop after n rounds.
Loop(round, start, n) ==
    LET after[k \in 0 .. n] == IF k = 0 THEN start ELSE round[after[k - 1]]
    IN after[n]

IsAscending(s) == \A i, j \in DOMAIN s : i < j => s[i] < s[j]
Elements(s) == {s[i] : i \in DOMAIN s}

\* handle_monitor_message_single: what is missing or ill-formed, a list of namespaces that is
\* empty or not ascending, a timestamp out of range or a wrong signature is refused.  A key of a
\* wrong length is only reported, and no message is ever stored under it.
Accepted(sub) == sub.verifies /\ sub.n # <<>> /\ \A i \in 2 .. Len(sub.n) : sub.n[i] > sub.n[i - 1]

-----------------------------------------------------------------------------
(***************************************************************************)
(* merge_namespaces.                                                       *)
(***************************************************************************)
Iterators(a, b) == [ita : 1 .. Len(a) + 1, itb : 1 .. Len(b) + 1]

\* The first loop skips the elements of b that are in a.
SupersetRound(a, b) ==
    [it \in Iterators(a, b) |->
        IF it.ita > Len(a) \/ it.itb > Len(b) THEN it
        ELSE IF b[it.itb] > a[it.ita] THEN [it EXCEPT !.ita = @ + 1]
        ELSE IF b[it.itb] = a[it.ita] THEN [ita |-> it.ita + 1, itb |-> it.itb + 1]
        ELSE it]

IsSuperset(a, b) ==
    Loop(SupersetRound(a, b), [ita |-> 1, itb |-> 1], Len(a) + Len(b)).itb > Len(b)

\* The second loop appends the next of a, of b or of both to c.
Merging(a, b) == [it : Iterators(a, b), c : Seq(Namespaces)]

MergeRound(a, b) ==
    [s \in Merging(a, b) |->
        LET i == s.it.ita
            j == s.it.itb
            from_a == i <= Len(a) /\ (j <= Len(b) => a[i] <= b[j])
            from_b == j <= Len(b) /\ (i <= Len(a) => b[j] <= a[i])
        IN IF ~from_a /\ ~from_b THEN s
           ELSE [it |-> [ita |-> IF from_a THEN i + 1 ELSE i, itb |-> IF from_b THEN j + 1 ELSE j],
                 c |-> Append(s.c, IF from_a THEN a[i] ELSE b[j])]]

Merge(a, b) ==
    Loop(MergeRound(a, b), [it |-> [ita |-> 1, itb |-> 1], c |-> <<>>], Len(a) + Len(b)).c

\* Mutant of MergeNamespaces: what is new goes to the end.
MergeNamespacesAppended(a, b) == a \o SelectSeq(b, LAMBDA n : n \notin Elements(a))

MergeNamespaces(a, b) ==
    LET swap == b # <<>> /\ (a = <<>> \/ Head(b) < Head(a))
        x == IF swap THEN b ELSE a
        y == IF swap THEN a ELSE b
    IN IF IsSuperset(x, y) THEN x ELSE Merge(x, y)

-----------------------------------------------------------------------------
(***************************************************************************)
(* handle_monitor_messages.                                                *)
(***************************************************************************)
\* Mutant of Renewed: the entry keeps its time.
RenewedLate(entry, sub) ==
    [entry EXCEPT !.namespaces = MergeNamespaces(@, sub.n), !.want_data = @ \/ sub.d]

\* An entry that the connection has already.
Renewed(entry, sub) ==
    [entry EXCEPT !.namespaces = MergeNamespaces(@, sub.n), !.left = MONITOR_EXPIRY_TIME,
                  !.want_data = @ \/ sub.d]

EntriesOf(entries, c) == {i \in DOMAIN entries : entries[i].push_conn = c}
First(S) == CHOOSE i \in S : \A j \in S : i <= j

\* An accepted subscription of connection c renews the first entry that is found, or adds one.
AddSub(mon, sub, c) ==
    LET entries == mon[sub.account]
        found == EntriesOf(entries, c)
        entry == [namespaces |-> sub.n, left |-> MONITOR_EXPIRY_TIME,
                  push_conn |-> c, want_data |-> sub.d]
    IN [mon EXCEPT ![sub.account] =
           IF found = {} THEN Append(entries, entry)
           ELSE [entries EXCEPT ![First(found)] = Renewed(@, sub)]]

\* The loop over the subscriptions of a request, of which only the accepted ones are in subs.
Adding(subs) == [it : 1 .. Len(subs) + 1, mon : [Accounts -> Seq(Entry)]]

SubsRound(subs, c) ==
    [s \in Adding(subs) |->
        IF s.it > Len(subs) THEN s
        ELSE [it |-> s.it + 1,
              mon |-> IF Accepted(subs[s.it]) THEN AddSub(s.mon, subs[s.it], c) ELSE s.mon]]

Asks(subs, a) == {i \in DOMAIN subs : subs[i].account = a /\ Accepted(subs[i])}

\* What connection c had asked for, with what it asks for in subs.
WithNames(names, subs, c) ==
    [a \in Accounts |-> [names[a] EXCEPT
        ![c] = @ \cup UNION {Elements(subs[i].n) : i \in Asks(subs, a)}]]
WithData(data, subs, c) ==
    [a \in Accounts |-> [data[a] EXCEPT ![c] = @ \/ \E i \in Asks(subs, a) : subs[i].d]]

\* A request that cannot be parsed changes nothing.
HandleMonitorMessages(c, subs) ==
    /\ monitoring' = Loop(SubsRound(subs, c), [it |-> 1, mon |-> monitoring], Len(subs)).mon
    /\ asked' = WithNames(asked, subs, c)
    /\ asked_data' = WithData(asked_data, subs, c)
    /\ subscribed_to' = WithNames(subscribed_to, subs, c)
    /\ with_data' = WithData(with_data, subs, c)
    /\ asked_ago' = [a \in Accounts |-> [asked_ago[a] EXCEPT
          ![c] = IF Asks(subs, a) = {} THEN @ ELSE 0]]
    /\ UNCHANGED notifies

-----------------------------------------------------------------------------
(***************************************************************************)
(* send_notifies.                                                          *)
(***************************************************************************)
\* std::lower_bound, which looks among the next count elements from first on.
Searches(s) ==
    {it \in [first : 1 .. Len(s) + 1, count : 0 .. Len(s)] : it.first + it.count <= Len(s) + 1}

LowerBoundRound(s, n) ==
    [it \in Searches(s) |->
        LET step == it.count \div 2
        IN IF it.count = 0 THEN it
           ELSE IF s[it.first + step] < n
           THEN [first |-> it.first + step + 1, count |-> it.count - step - 1]
           ELSE [it EXCEPT !.count = step]]

LowerBound(s, n) == Loop(LowerBoundRound(s, n), [first |-> 1, count |-> Len(s)], Len(s)).first

\* std::binary_search
BinarySearch(s, n) ==
    LET i == LowerBound(s, n)
    IN i <= Len(s) /\ ~(n < s[i])

\* The entries whose connections are in relay_to, or in relay_to_with_data.
RelayTo(account, n, data) ==
    {i \in DOMAIN monitoring[account] :
        LET e == monitoring[account][i]
        IN e.left >= 0 /\ BinarySearch(e.namespaces, n) /\ e.want_data = data}

\* A new message in the database.  The buffer has shrunk to the notification without data, if
\* there was one, and the one with data does not fit: it throws.
SendNotifies(account, n) ==
    LET Sent(relay, what) ==
            {[to |-> monitoring[account][i].push_conn, entry |-> i, what |-> what] : i \in relay}
        relay_to == RelayTo(account, n, FALSE)
        relay_to_with_data == RelayTo(account, n, TRUE)
    IN /\ notifies' = Sent(relay_to, "metadata") \cup
                      IF relay_to = {} THEN Sent(relay_to_with_data, "data") ELSE {}
       /\ UNCHANGED <<monitoring, subscriptionVars>>

\* Time passes.
Tick ==
    /\ monitoring' = [a \in Accounts |-> [i \in DOMAIN monitoring[a] |->
          [monitoring[a][i] EXCEPT !.left = IF @ < 0 THEN @ ELSE @ - 1]]]
    /\ asked_ago' = [a \in Accounts |-> [c \in Conns |->
          IF asked_ago[a][c] = NEVER THEN NEVER ELSE asked_ago[a][c] + 1]]
    /\ subscribed_to' = [a \in Accounts |-> [c \in Conns |->
          IF asked_ago[a][c] < MONITOR_EXPIRY_TIME THEN subscribed_to[a][c] ELSE {}]]
    /\ with_data' = [a \in Accounts |-> [c \in Conns |->
          asked_ago[a][c] < MONITOR_EXPIRY_TIME /\ with_data[a][c]]]
    /\ UNCHANGED <<notifies, asked, asked_data>>

MonitorNext ==
    \/ \E c \in Conns, size \in 0 .. MaxSubs : \E subs \in [1 .. size -> Subs] :
          HandleMonitorMessages(c, subs)
    \/ \E account \in Accounts, n \in Namespaces : SendNotifies(account, n)
    \/ Tick

MonitorSpec == MonitorInit /\ [][MonitorNext]_monitorVars

-----------------------------------------------------------------------------
MonitorTypeOK ==
    /\ monitoring \in [Accounts -> Seq(Entry)]
    /\ notifies \subseteq [to : Conns, entry : Nat, what : {"metadata", "data"}]
    /\ asked \in [Accounts -> [Conns -> SUBSET Namespaces]]
    /\ asked_data \in [Accounts -> [Conns -> BOOLEAN]]
    /\ asked_ago \in [Accounts -> [Conns -> 0 .. NEVER]]
    /\ subscribed_to \in [Accounts -> [Conns -> SUBSET Namespaces]]
    /\ with_data \in [Accounts -> [Conns -> BOOLEAN]]

\* Subscriptions of a connection add up: one that has subscribed and renews in time has one entry
\* for the account, not expired, with all the namespaces that it has asked for, in ascending order
\* as binary_search needs them, and the data flag, in whatever pieces and order they came, and with
\* nothing that it has never asked for.  One that does not renew in time has no entry that counts.
\* So the entry is just what was asked for until a subscription has expired; from then on it may,
\* but need not, hold what the connection had asked for before.
SubscriptionsAddUp ==
    \A a \in Accounts : \A c \in Conns :
        LET own == EntriesOf(monitoring[a], c)
        IN IF subscribed_to[a][c] = {} THEN \A i \in own : monitoring[a][i].left < 0
           ELSE \E i \in own :
                   /\ own = {i} /\ monitoring[a][i].left >= 0
                   /\ IsAscending(monitoring[a][i].namespaces)
                   /\ subscribed_to[a][c] \subseteq Elements(monitoring[a][i].namespaces)
                   /\ Elements(monitoring[a][i].namespaces) \subseteq asked[a][c]
                   /\ with_data[a][c] => monitoring[a][i].want_data
                   /\ monitoring[a][i].want_data => asked_data[a][c]

\* A connection may be told of a message in n only while it is subscribed to something of the
\* account and if it has asked for n at some time.
MayBeTold(a, n, c) == subscribed_to[a][c] # {} /\ n \in asked[a][c]

Told(c) == {s \in notifies : s.to = c}
ToldOnce(c, what) == \E s \in notifies : Told(c) = {s} /\ s.what = what

\* A new message is told once to each connection that is subscribed to its namespace, without its
\* data if the connection has never asked for data, and with it if it is subscribed with data; and
\* to none that has never asked for the namespace or whose subscription has expired.  Those that
\* may want the data are told where no other connection may want only the metadata.
SubscribersNotified ==
    [][\A a \in Accounts, n \in Namespaces : SendNotifies(a, n) =>
          \A c \in Conns :
              /\ ~MayBeTold(a, n, c) => Told(c)' = {}
              /\ (n \in subscribed_to[a][c] /\ ~asked_data[a][c]) => ToldOnce(c, "metadata")'
              /\ (/\ n \in subscribed_to[a][c] /\ asked_data[a][c]
                  /\ \A other \in Conns \ {c} : MayBeTold(a, n, other) => with_data[a][other])
                 => \E what \in {"metadata", "data"} :
                       ToldOnce(c, what)' /\ (with_data[a][c] => what = "data")
      ]_monitorVars
=============================================================================
