# The storage server in TLA+

The program is the Oxen storage server (`src/oxenss`): a service node that keeps
messages for accounts. The nodes are grouped into *swarms* by the blockchain; every
account belongs to the swarm whose id is nearest to it, and every member of that swarm
keeps its messages. Clients store, retrieve, delete and re-time messages through any
member.

`PROJECT.json` lists the parts, the runs, the source lines behind every definition, the
hazards and the theorems.

## The parts and how they interact

| part | source | module |
| --- | --- | --- |
| message database (SQLite tables, triggers) | `storage/database.cpp` | `Database`, `Mailbox` (what it promises), `Retrieve` (a client paging through it) |
| swarm-wide requests: forward to the peers, do the own part, reply when all are in | `rpc/request_handler.cpp` | `SwarmRequest` |
| `batch` and `sequence` | `rpc/request_handler.cpp` | `Subrequests` |
| which swarm an account belongs to | `snode/swarm.cpp` | `SwarmSpace` |
| swarm changes and the data that follows them | `snode/swarm.cpp`, `snode/service_node.cpp`, `snode/serialization.cpp` | `SwarmUpdate` |
| how a node follows oxend: requests, notifications, bootstrap, syncing | `snode/service_node.cpp`, `server/omq.cpp` | `ServiceNode` |
| reachability tests | `snode/reachability_testing.cpp`, `snode/service_node.cpp` | `Reachability` |
| HTTPS server, from `main()` to its end | `server/https.cpp`, `daemon/oxen-storage.cpp` | `Https` |
| rate limiter | `rpc/rate_limiter.cpp` | `RateLimiter`, composed in `Https` |
| onion and proxy requests | `rpc/onion_processing.cpp`, `rpc/request_handler.cpp`, `server/omq.cpp` | `Onion`, composed in `Https` |
| subscriptions and notifications | `server/omq_monitor.cpp` | `Monitor` |
| parsing of requests, and what is forwarded | `rpc/client_rpc_endpoints.cpp` | `ClientRequests` |
| signatures and checks, at the entry node and at a peer | `rpc/request_handler.cpp` | `Forwarding` |
| storage tests, statistics, keys and encryption, certificates, options, logging | `snode/stats.cpp`, `crypto/`, `daemon/`, `logging/`, `utils/` | none: see "Not modelled" |

A client request reaches `RequestHandler` through the HTTPS server (`Https`, with the rate
limiter in front), the OMQ server or an onion (`Onion`). It is loaded and checked
(`ClientRequests`, `Forwarding`), forwarded to the peers, applied to the `Database`, and
answered (`SwarmRequest`, `Subrequests`); a new message is told to its subscribers
(`Monitor`). Blocks from oxend reach `ServiceNode`, which changes the `Swarm` state and
pushes messages from the `Database` to other nodes (`SwarmUpdate`), and decides whom
`Reachability` tests.

## The modules

**Database.** The tables `owners`, `messages` and `revoked_subkeys` are sets of rows.
There is one action per operation, the triggers it fires included. Row ids are chosen as
SQLite chooses them without `AUTOINCREMENT`: one more than the largest in use, so ids of
deleted rows come back. That reuse is what makes the table invariants interesting.
`Mailbox` is the abstract specification: a set of messages without ids or owner rows.
`Database` implements it under the mapping `stored <- Stored`.

**Retrieve.** A client polls one namespace with `last_hash` and a limit while `Database`
takes its steps. `intact` records whether the row of the client's cursor has stayed.

**SwarmRequest.** The requests a client makes one after another, the entry node's own
part, the callbacks of its peers (answer or timeout), the countdown
`swarm_response::pending`, the reply. Messages in `net` need not arrive, and may arrive
after the timeout that reported them lost. Databases are abstracted to the expiry of each
message. `expire` limits the expiry it is asked for by the node's own clock and hardfork
(`Granted`, one of `Limits`), and reports what it went by (`granted`). A message has one number
on all nodes, although nodes on both sides of `HARDFORK_HASH_NO_TIME` compute different hashes
for it, and the cleanup of what has expired is left to `Database`.

**Subrequests.** The handlers of a `batch` or a `sequence` write a code and a body into a
shared array and scan it, in separate steps, since no lock protects it. They run on any of
`Threads`. Subrequests complete at once or later, fail, or throw; `late` records the ones
whose handler is under way on another thread when the first reply goes out.

**SwarmSpace.** `GetSwarmByPk` with the `uint64_t` subtraction made explicit on a ring of
`Ring` positions.

**SwarmUpdate.** Several nodes take over the blocks of a chain at their own pace, always
the latest one. `OnSwarmUpdate` is the whole of `on_swarm_update` once the node has synced:
the events, the new state, and what is pushed to whom. A client's store takes three steps
(check, forward, store), because `sn_mutex_` is released in between. A restart keeps the
database and forgets the swarm state. oxend is external: one node changes per block, and
the last member of a swarm does not simply leave.

**ServiceNode.** One node and its oxend. A block stands for all that it carries, and each
piece of the node's state is recorded as the block it was taken from. The callback of
`update_swarms` takes two steps (`CallbackStarts`, `ApplyAnswer`): it clears
`updating_swarms_` before it waits for `sn_mutex_`, so a second request can overtake it.
Requests fail, notifications are squelched, oxend restarts and forgets its subscribers, and
the seed nodes answer late, with any block, or not at all. `all_valid_swarms` is replaced by a
late answer of a seed node even when the node has synced, and then stays with the seed node's
block until oxend's next answer: no property claims otherwise.

**Reachability.** The shuffled queue of nodes to test, the queue of failing ones with its
backoff, and the tests under way: two pings each, answered in any order, of which the later
one reports. Nodes leave, come back without an address, and get one with an uptime proof.

**RateLimiter.** The token buckets of clients. A bucket is filled when it is looked at, from
the time since the last request that was let through; at the limit on clients the full
buckets are removed first.

**Onion.** A request is the list of hop numbers of the nodes that wait for it, and what the
last of them is doing. A layer is what `process_inner_request` tells apart. Relays time out,
throw, and lose answers, and so does a destination whose sequence is lost. The counter wraps
as an `int` does.

**Https.** `main()` from the keys to the joins; the event loop, the workers and the threads
that call back; `call_data` with `replied` and `aborted`; keep-alive connections; the bounded
queue of OxenMQ, which drops what does not fit. It extends `RateLimiter` and `Onion`: every
storage request passes the limiter, and an onion request is pending while `Onion` steps. A
request calls back once, or never where a sequence is lost (`LoseCallback`, the case that
`RepliedUnlessLost` excepts). That a batch may call back twice is in `Subrequests` only: here
two callbacks do not race for `replied`.
uWebSockets and OxenMQ are external: they are modelled by how the code uses them.

**Monitor.** The entries of `monitoring_`, merged and renewed as `handle_monitor_messages`
does, and `send_notifies` with the binary search through what was merged. A loop of the code
(the two of `merge_namespaces`, the one over a request, the search) is a function from its
variables before a round to those after it, and `Loop` takes as many rounds as it can need.
An entry that has expired is never removed, and a renewal brings back what it held, so the
history has both what a connection is subscribed to in the sense of `omq.h` (`subscribed_to`,
`with_data`: since its subscription last expired) and all that it has ever asked for (`asked`,
`asked_data`).

**ClientRequests.** For each kind of request the function that loads it from the parameters of
a client, in json or bencoded, and the `to_bt` that a peer loads it from. Fields may be
missing, of a wrong type, spelled either way, and encoded in base64, in hex or not at all.

**Forwarding.** One request at its entry node and at a peer, each with its own clock
(`NOW`, `peer_now`) and its own view of the hardfork (`hf`). Both load it, compare its times
with their clock, look for revoked subkeys and verify the signature, which is the key that made
it and the text that was signed. The text is put together as the code does, without anything
between its parts, so that different requests can share one.

## The runs

| run | instance | shows |
| --- | --- | --- |
| `database` | 2 accounts, 3 messages, 2 namespaces, 3 times, room for 2 messages | `TypeOK`, `IInv`, `OwnersHaveMessages`, `MessagesKeepOwner`; expired messages go (`ExpiredGoes`); the tables implement the mailbox (`ImplementsMailbox`) |
| `revocations` | 2 accounts, 2 messages, 2 subkeys, 1 revocation kept per owner | a revocation goes only with its owner row or when newer ones push it out (`RevocationKept`), and `IInv` with revocations |
| `retrieve` | 1 account, 3 messages, 2 namespaces, `max_count` absent, 1 and 2 | paging skips nothing the client has not seen (`SkippedWereSeen`), and no `more` means up to date (`CaughtUp`) |
| `swarm_request` | 2 nodes, 2 requests to any of the endpoints, 2 messages, 2 expiries, nodes that grant either | the countdown is right (`CountdownInv`), replies are complete and truthful (`ReplyIsComplete`, `SuccessIsTrue`), a client that saw only successes, with one reported expiry, finds equal databases (`AgreementAfterSuccess`), every request is answered (`EventuallyReplied`) |
| `subrequests` | 3 subrequests, 3 threads | a further reply comes only from a handler that another thread was in at the first (`RepliesAccountedFor`), the first reply of a batch is full but for bodies that are being written (`BatchIsFull`), a sequence ends at its first failure (`SequenceStops`), and only a throw on the way loses a request (`RepliedUnlessLost`) |
| `swarm_update` | 3 nodes, 3 swarm ids, 3 blocks or restarts, 1 message, a ring of 8 | nodes of one swarm at one block are each other's peers (`PeersAgree`), lookups find the nearest swarm (`NearestSwarm`), the data follows the swarms (`DataFollows`) |
| `service_node` | 3 blocks that put the node into a swarm, decommission it and put it into another; 2 faults; 2 seed nodes | the swarm, the peers and the nodes of a serving node are of one block (`ViewOfOneBlock`); it never syncs again (`SyncedForever`) and ends at the latest block (`CatchesUp`) |
| `reachability` | 2 other nodes, 2 changes of the chain, 1 overlapping test | failing nodes are retested (`FailingIsRetested`), a failed ping is never hidden by the other, whichever ends first (`FailureIsReported`), everybody is tested again and again (`EveryoneIsTested`) |
| `https` | a storage and an onion request, a queue of 1, a bucket of 1, a limit of 1 client and of 2 hops | `EndedOnce`, `HopsBounded`; a limited client gets through again (`LimitIsLifted`); what was read is answered (`Answered`) and a signal ends the daemon (`SignalEndsDaemon`), but for requests that are dropped or lost |
| `monitor` | 2 connections, 3 namespaces, requests of up to 2 of 5 subscriptions, an expiry time of 1 | subscriptions add up (`SubscriptionsAddUp`), and new messages reach those who asked (`SubscribersNotified`) |
| `forwarding` | 9 kinds of requests, in both formats, with up to two fields off; a peer with a clock behind, equal or ahead | the peer reads what the entry node has accepted (`PeerReadsTheSame`), accepts it but for listed cases (`PeerAccepts`), and no node acts without the owner's signature (`OnlyOwnersAct`) |

The run `batch_threads` shows a disagreement of the code with its own comment: two handlers of
a batch on two threads both find the array full and both reply, and `RepliedOnce` is violated.

### Where the code and its documentation differ

Met while modelling. The models have the behaviour of the code:

- `get_expiries` for exactly one hash binds no parameter and finds nothing (a query, not a
  step of `Database`);
- `delete_by_timestamp` for all namespaces deletes, then throws;
- a node with a full database answers a store as "already" stored (`CarriesOut`), which is why
  `SuccessIsTrue` is about databases with room;
- `reply_or_fail` never counts a failed entry, so that a request which failed on every node
  is answered with OK (`CountFailed`);
- a pushed message arrives in the default namespace: `serialize_messages` leaves the namespace
  out (`Push`);
- the destructor of `call_data` is to answer a request that OxenMQ has dropped, but the abort
  handler keeps it alive, and the client waits; so does the client of a sequence that is lost.
  `Answered` and `SignalEndsDaemon` except both (`NeverCalledBack`);
- where one subscriber wants the data of a message and another only its metadata,
  `send_notifies` throws before the first is told: `SubscribersNotified` excepts the case;
- a monitor entry that has expired is never removed, and a renewal brings back what it held,
  where `server/omq.h` (195-198) has the data flag and the namespaces end with the subscription:
  `SubscriptionsAddUp` and `SubscribersNotified` allow either;
- `store::to_bt` leaves the `sig_timestamp` out, so that a peer verifies a signature made for
  another time than the message's against the wrong one: `PeerAccepts` excepts
  `SignedSeparately`;
- a forwarded store is checked with `SIGNATURE_TOLERANCE`, although `request_handler.h` (44-47)
  has an allowance for requests that are forwarded; an `expire` and a `delete_before` have none
  either: `PeerAccepts` asks for `InTimeAtPeer`;
- a store to a public namespace is taken whatever its signature, although
  `client_rpc_endpoints.h` (121) has one that does not match denied: `Owned`;
- a `batch` may have 20 subrequests, and its documentation says 5;
- a `retrieve` with `max_count` -1 is answered with no message and no `more`, since the limit
  it is given is 0 (`Fetched`); the documentation says of `max_count` and `max_size` that "the
  response will always include at least one message".

### Bounds

Two accounts are needed for an owner id to pass from one to the other, and three messages
for an id to be freed, reused and compared with one that stayed. `SubkeyLimit` is 1 so that
the limit is reached by the second revocation. Two nodes already give every order of own
part, answer, timeout and late arrival for one peer; the countdown for more peers is
proved. Two requests are needed for a late forward of the first to meet the second. Three
subrequests have a first, a middle and a last. Three nodes in three swarms give joining,
leaving, moving, a new swarm and a dissolved one; a chain of three blocks has two changes,
so that the second meets what the first has left. `MaxTime`, `MaxId`, `MaxRows`,
`MaxRequests` and `MaxEvents` are the bounds on otherwise unbounded counters.

Three blocks and two faults let an older answer be applied after a newer one while a
notification is squelched, and two seed nodes have a first and a last. Two nodes under test
give a failing and a good one, and a bound of one retest per tick is reached by the second
failure. Two changes (`MaxChanges`) let a node leave and come back; `MaxOverlaps` bounds random
tests of a node that is still being tested. The random interval is 1 in the run, so that the
branch of `NextRandom` for an interval that is over at once is not taken there. Two HTTP
requests at a queue of one have one that is dropped; a limit of two hops with `INT_MAX` = 3
has a client that starts at the largest `int` and one that starts below zero. Three namespaces
on both sides of zero make the merge and the binary search take every branch; with an expiry
time of one unit a subscription is renewed in time, at the last moment and too late. In
`forwarding` two fields off at a time meet every pair of conditions of a `load_from`; the clock
of the peer is one unit behind, equal, one ahead, which is what
`SIGNATURE_TOLERANCE_FORWARDED` allows for, or two; and one request (`SameText`) has the text of
another. Three threads and three subrequests have two handlers that scan the array while a
third is between its writes.

`MCSwarmUpdate` is checked up to permutations of the nodes, and its `View` merges states that
differ only in blocks before the latest, which nothing reads.

Deadlock is not checked where the bounds let the system come to an end.

### Fairness

`CleanExpired` is weakly fair: a timer calls it. In `SwarmRequest` the own part and the
timeout of each peer are weakly fair: the handler runs to its end, and OxenMQ invokes the
callback of every request. Delivery of messages is not fair. In `Subrequests` the threads
run, and each recursive subrequest completes, which is what `EventuallyReplied` shows.
`SwarmUpdate` has no liveness property and no fairness.

In `ServiceNode` oxend produces blocks and answers, and OxenMQ ends every request and runs
every timer; notifications may be lost with the subscription. In `Reachability` the timers run
and every ping is answered or times out. In `Https` oxend answers while the daemon starts (it
waits for it without looking at signals in `OMQ::init`), the workers and the event loop run
what they are given, relays time out, and uWebSockets times out connections that are idle or
send no body; clients need not go away, so none of this ends a connection that waits for a
response. `Monitor` and `Forwarding` have no liveness property and no fairness.

### What DataFollows does and does not say

The code computes what to push from its previous view and the latest block. `DataFollows`
says that this is enough when nothing falls in between. `intact` turns false when something
does, and each case is a hazard in `PROJECT.json`:

- a node skips a block, or restarts and takes over a later block without an earlier view;
- a block comes before the pushes of the one before have arrived, or while a forwarded
  store of an earlier view is still on its way;
- the check and the storing of a message straddle an update of that node;
- a pushed batch cannot be saved.

Each of them really can leave a member without an acknowledged message: with any one of
these conjuncts taken out of `intact`, TLC finds `DataFollows` violated.

## The proofs

`AgreementInv`, `ForwardInv`, `FollowInv` and `MonitorInv`, which no run lists, were
model-checked on the instances of `swarm_request`, `forwarding`, `swarm_update` and `monitor`
before they were proved.

Every safety property of the passing runs has a theorem, some under a hypothesis that is given
with it below. Leaves are proved by Zenon unless they name `SMT`, which the ones with
arithmetic, records or sequences do.

`DatabaseProofs` proves, for any accounts, messages, times and limits
(`HashOwnerAssumption`: a message hash determines its account; `BoundsAssumption`,
`AttributesAssumption`, and `ClientAssumption` for the client):

- `DatabaseInvariant`: `Spec => []IInv`. `OwnersHaveMessages` and `MessagesKeepOwner` are
  not inductive alone: that a reused owner id does not adopt old messages needs that no
  message refers to a missing owner (`ReferencesHold`), and that the trigger deletes the
  right owner needs unique keys (`KeysUnique`). `IInv` is their conjunction with `TypeOK`.
- `TypeCorrect`, `OwnersAlwaysHaveMessages`, `MessagesAlwaysKeepOwner`: from `IInv`.
- `DatabaseImplementsMailbox`: every step of the tables is a step of `Mailbox` or leaves it
  alone, given `IInv`.
- `RevocationsKept`: `Spec => RevocationKept`. Of the steps, only the revocation and the
  deletions touch the table; that the trigger stops at the limit is a fact about cardinalities
  of the finite set of rows (`RevokedFinite`). A revocation of an account without messages has
  no owner row, and none of the two ever takes it.
- `PollingInvariant`: `PollSpec => []PollInv`, for the client of `Retrieve`. New rows get ids
  above all others, hence above an intact cursor, which is why `PollInv` says that the cursor
  names a row and includes `IInv`. `NothingIsSkipped` follows.
- `NoMoreMeansCaughtUp`: `PollSpec => CaughtUp`, provided that no request has `max_count` -1.
  The hypothesis is needed: see "Where the code and its documentation differ".

`SwarmRequestProofs` proves, for any finite swarm and any sequence of requests
(`SwarmAssumption`):

- `CountdownInvariant`: `pending` is the number of callbacks to come plus the own part,
  which stays counted when it throws; this excludes a second reply.
- `TypeCorrect`, `RepliesAreComplete`: an OK reply has an entry of every member.
- `SuccessAlwaysTrue`: if no database is full, an entry without "failed" is true. The
  strengthening is that the answers on their way are true (`AnswersAreTrue`).
- `AgreementInvariant`, `SwarmAgrees`: if no database is full, a client that has seen each
  request refused or succeed everywhere finds equal databases (`AgreementAfterSuccess`). What is
  inductive is `AgreementInv`: a node carries out a request at most once (`OncePerNode`), the
  requests before the current one are over (`OneAtATime`), and the databases differ at most in
  whether the current one has reached them, and with which expiry (`Agree`). A late forward of a
  request that timed out falls outside: its reply had a failure. So does an `expire` that the
  nodes limited differently: their entries report different expiries (`SameExpiry`).

`SubrequestsProofs` proves, for any number of subrequests (`SubrequestsAssumption`):

- on any threads, `TypeCorrect`, `SequencesStop` (`Spec => []SequenceStops`) and
  `SequencesReplyOnce`. A sequence starts its next subrequest from the handler of the last, so
  one thread at a time has it: `SequenceInv`.
- on any threads, `EndpointsInvariant`, `RepliesAreAccountedFor` and `BatchesAreFull`. By
  `BatchInv` the null slots of a batch are, until a reply, those of subrequests that are still
  to set them, and the slot of one that threw stays null. So whoever finds none is after every
  write of a code: only a handler that is between that write and its own scan can reply again,
  once, or have its body missing. That one does is what `batch_threads` shows.

`SwarmUpdateProofs` proves, for any nodes, swarms, ring and number of blocks and restarts
(`RingAssumption`, `SwarmUpdateAssumption`):

- `FindsNearest`: the right swarm comes first going up from the account, and the left one
  going down unless a swarm lies on the account itself, so the nearer of the two is nearest
  of all.
- `SwarmInvariant`: type correctness, some swarm always exists, and the swarm id and peers
  of a node in a swarm are those of the block it has taken over.
- `PeersAlwaysAgree`, `NearestAlways`: from that invariant.
- `FollowInvariant`, `DataAlwaysFollows`: `Spec => []DataFollows`. The invariant `FollowInv`
  says of every owner of a message by the latest block that it is served (it has the message,
  is still waited for, or is sent it), or that the message is lost and will never be
  acknowledged, or that the owner is new and an owner of the block before, which has yet to
  take over the latest, has the message (`Source`). Two lemmas carry it. `SameChoice`: which of
  two swarms an account belongs to does not depend on the other swarms, ties included, so
  that messages only move to new swarms or from dissolved ones. `NewcomersPushed`: whatever
  the one move of a block was, an owner of before pushes its messages to every new owner, by
  `new_snodes`, `new_swarms` or `dissolved`. The rest of the invariant is about stores under
  way: the handlers' and the forwards' part in it, and at the first block, where a restart
  loses no view, what it does to them (`FirstBlock`). It is claimed only while no node has
  missed a block (`InStep`); one that has makes `intact` false before it is `Quiet` again.

`ServiceNodeProofs` proves, for any chain, number of faults and set of seed nodes
(`ServiceNodeAssumption`):

- `ActsOnOneBlock`: `Spec => []ViewOfOneBlock`. What is inductive is `NodeInv`: nothing is
  taken over before syncing ends, and from then on the swarm, the hardfork and the active
  nodes are of the block; the peers and the index are so only if the node was ready when it
  took the block over, which is why `NodeInv` speaks of the hardfork and the shutdown.
- `NeverSyncsAgain`: `Spec => SyncedForever`, and `TypeCorrect`.

It also has the proofs about `Monitor`, for any accounts, connections, namespaces, expiry time
and subscriptions (`MonitorAssumption`: namespaces are integers, and subscriptions have their
types):

- `MonitorInvariant`, `SubscriptionsSafe`: `MonitorSpec => []SubscriptionsAddUp`. `MonitorInv`
  adds the types, that an entry holds all that its connection has ever asked for, and
  that the time left of it is what remains of `MONITOR_EXPIRY_TIME` since the connection last
  asked.
- `NotifiesSafe`: `MonitorSpec => SubscribersNotified`. The invariant gives one entry per
  connection, ascending, so that the search through it finds what was asked for.

These rest on what the loops compute for lists of any length. `LoopInduction` is induction over
the rounds of a loop without an operator parameter: the invariant is a sequence of sets, the
k-th with the values that the variables may have after k rounds, and a least round that leaves
it (`LeastNumber`, from the well-foundedness of the naturals) is refuted. From it come
`SupersetFound`, `Merged` and `MergeNamespacesIsUnion` (the merge of two ascending lists is
ascending, and has the elements of both), `LowerBoundFound` and `BinarySearchFinds` (on an
ascending list the search finds exactly its elements), and `AllSubsAdded` for the loop over
the subscriptions of a request.

`ReachabilityProofs` proves, for any peers, intervals, backoff and bound on retests
(`ReachabilityAssumption`):

- `RetestInvariant`, `FailingAlwaysRetested`: `Spec => []FailingIsRetested`, inductive with
  `TypeOK`. The argument follows an entry of the failing queue: what `get_failing` pops becomes
  a retest or its node is gone, and what a test removes or `add_failing_node` inserts leaves
  the other entries in place (`Insertions`).
- `FailuresReported`: `Spec => FailureIsReported`, for either order of the two pings.

`HttpsProofs` proves, for any requests, clients, onions, bucket sizes, limits and first hop
numbers (`HttpsAssumption`, `RateLimiterAssumption`, `OnionAssumption`). The invariant has a
part for each of the three components, since none of them writes another's state:

- `RespondsOnce`: `Spec => EndedOnce`. `RepliesInv` ties the flags of a request to its
  connection: a queued reply belongs to a task that is over, and one that was not aborted has
  a connection that waits and has not been answered.
- `OnionsEnd`: `Spec => []HopsBounded`. By `HopsInv` the hop number of the i-th node is at
  least i - 1, and all but the last are within the limit; only the number of the edge node,
  which comes from the client, can wrap, and the next one is then read as 1.
- `LimitsEnd`: `Spec => []LimitIsLifted`. By `BucketsInv` a bucket knows the time since its
  client last got through, although refused requests and the cleaning fill it meanwhile. A
  client whose bucket was cleaned is kept out only by `MAX_CLIENTS` buckets that are not full,
  and those are of clients served within the time that fills one.
- `ServerTypeCorrect`.

`ForwardingProofs` proves, for any requests, keys, times and tolerances
(`ForwardingAssumption`: the tolerance for forwarded requests and the longest TTL of a private
namespace are not below the others):

- `OwnersOnly`: `Spec => []OnlyOwnersAct`. Each `process_client_req` gets to its action only
  through `verify_signature` or one of the two exceptions, and this holds for a peer whatever
  `to_bt` and the loading have made of the request.
- `ForwardingInvariant`, `PeersReadTheSame`, `PeersAccept`: `Spec => []PeerReadsTheSame` and
  `Spec => []PeerAccepts`. By `ForwardInv` the peer has loaded what `to_bt` has made of what the
  entry node has loaded and found in order. `RoundTrip` goes through the kinds of requests:
  loading from `to_bt` gives back every field that is sent. The same fields then pass the
  same checks again, signature included, if the clocks differ by no more than the tolerances do
  (`ClocksAgree`). The exceptions of `PeerAccepts` are all needed: the peer has left the swarm,
  knows the subkey as revoked, or has not seen the hardfork that the request needs
  (`NeedsHardfork`); a store, an `expire` or a `delete_before` is out of time by its clock
  (`InTimeAtPeer`); a store's signature was made for another time than its message
  (`SignedSeparately`). Without any one of them TLC finds it violated.
  `RequestsAssumption` says that parameters have the fields that are looked for, and that
  numbers, flags and bytes are told apart (`WellFormed`), as `nlohmann::json` and `oxenc` do; it
  does not say that they are present, in range or signed.

Only model-checked:

- liveness (`ExpiredGoes`, `EventuallyReplied`, `RepliedUnlessLost`, `CatchesUp`,
  `EveryoneIsTested`, `Answered`, `SignalEndsDaemon`), which needs fairness and is beyond the
  prover;
- the violation of `batch_threads`, which is a behaviour and not a theorem.

## Not modelled

- Storage tests: the node starts none (the call is disabled), and answering one only reads.
- `get_swarm`, `info`, `oxend_request` and `ifelse`: they keep no state. `retrieve_random`,
  `retrieve_by_hash` and `get_expiries` are plain reads of the database.
- Cryptography, TLS and certificates: libsodium and OpenSSL. A signature is who made it and
  what was signed; an encrypted layer is what it decrypts to.
- Statistics, logging, options and string helpers: they steer nothing.
- The migration of old schemas, which runs once at a start.
- Statements of other threads between those of a `bulk_store` on the shared connection, and a
  composition of `SwarmRequest` with `SwarmUpdate` beyond the stores that `SwarmUpdate` has.
- Rate limits of service nodes: there are buckets for them, which nothing asks about.
