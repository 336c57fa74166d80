----------------------------- MODULE RateLimiter -----------------------------
(***************************************************************************)
(* The token buckets that limit the requests of clients (oxenss/rpc/       *)
(* rate_limiter.cpp).  A bucket is filled only when it is looked at, from  *)
(* the time since the last request that was let through.  The buckets of   *)
(* service nodes are left out: the server never asks for their limit.      *)
(*                                                                         *)
(* last_time_point is kept as the time since then, up to the time that     *)
(* fills any bucket.                                                       *)
(***************************************************************************)
EXTENDS Naturals, FiniteSets

CONSTANTS
    Clients,        \* IPv4 addresses of clients
    BUCKET_SIZE,
    TOKEN_PERIOD,   \* TOKEN_PERIOD_US, the time between two tokens
    MAX_CLIENTS

ASSUME RateLimiterAssumption ==
    /\ IsFiniteSet(Clients)
    /\ BUCKET_SIZE \in Nat \ {0}
    /\ TOKEN_PERIOD \in Nat \ {0}
    /\ MAX_CLIENTS \in Nat \ {0}

VARIABLES
    client_buckets,     \* client_buckets_
    since               \* history: time since a client was last let through, if it ever was

limiterVars == <<client_buckets, since>>

\* FILL_EMPTY_BUCKET_US
FILL_EMPTY_BUCKET == TOKEN_PERIOD * BUCKET_SIZE

Bucket == [num_tokens : 0 .. BUCKET_SIZE, elapsed : 0 .. FILL_EMPTY_BUCKET]
FullLessOne == [num_tokens |-> BUCKET_SIZE - 1, elapsed |-> 0]
NoBuckets == [x \in {} |-> FullLessOne]

RateLimiterInit ==
    /\ client_buckets = NoBuckets
    /\ since = [c \in Clients |-> FILL_EMPTY_BUCKET]

CapAt(n, bound) == IF n < bound THEN n ELSE bound

\* fill_bucket: the time of the last request stays.
FillBucket(b) ==
    [b EXCEPT !.num_tokens = CapAt(@ + b.elapsed \div TOKEN_PERIOD, BUCKET_SIZE)]

IsFull(b) == FillBucket(b).num_tokens = BUCKET_SIZE

CanRemoveToken(b) == FillBucket(b).num_tokens > 0

\* Mutant of RemoveToken: a request that is refused counts as the last one, too.
RemoveTokenTimed(b) ==
    IF CanRemoveToken(b)
    THEN [num_tokens |-> FillBucket(b).num_tokens - 1, elapsed |-> 0]
    ELSE [num_tokens |-> 0, elapsed |-> 0]

\* remove_token
RemoveToken(b) ==
    IF CanRemoveToken(b)
    THEN [num_tokens |-> FillBucket(b).num_tokens - 1, elapsed |-> 0]
    ELSE FillBucket(b)

\* clean_buckets
Cleaned ==
    [x \in {y \in DOMAIN client_buckets : ~IsFull(client_buckets[y])} |->
        FillBucket(client_buckets[x])]

Put(buckets, x, b) == [y \in DOMAIN buckets \cup {x} |-> IF y = x THEN b ELSE buckets[y]]

\* should_rate_limit_client: whether the request from ip is refused.
ShouldRateLimitClient(ip) ==
    IF ip \in DOMAIN client_buckets THEN ~CanRemoveToken(client_buckets[ip])
    ELSE /\ Cardinality(DOMAIN client_buckets) >= MAX_CLIENTS
         /\ Cardinality(DOMAIN Cleaned) >= MAX_CLIENTS

\* should_rate_limit_client: what it does to the buckets.
CountRequest(ip) ==
    /\ client_buckets' =
          IF ip \in DOMAIN client_buckets
          THEN Put(client_buckets, ip, RemoveToken(client_buckets[ip]))
          ELSE IF ShouldRateLimitClient(ip) THEN Cleaned
          ELSE IF Cardinality(DOMAIN client_buckets) >= MAX_CLIENTS
          THEN Put(Cleaned, ip, FullLessOne)
          ELSE Put(client_buckets, ip, FullLessOne)
    /\ since' = IF ShouldRateLimitClient(ip) THEN since ELSE [since EXCEPT ![ip] = 0]

\* The cleaning timer.
CleanTimer ==
    /\ client_buckets' = Cleaned
    /\ UNCHANGED since

TimePasses ==
    /\ client_buckets' = [x \in DOMAIN client_buckets |->
          [client_buckets[x] EXCEPT !.elapsed = CapAt(@ + 1, FILL_EMPTY_BUCKET)]]
    /\ since' = [c \in Clients |-> CapAt(since[c] + 1, FILL_EMPTY_BUCKET)]

-----------------------------------------------------------------------------
RateLimiterTypeOK ==
    /\ DOMAIN client_buckets \subseteq Clients
    /\ client_buckets \in [DOMAIN client_buckets -> Bucket]
    /\ since \in [Clients -> 0 .. FILL_EMPTY_BUCKET]

\* A bucket knows the time since its client was last let through, in spite of refused requests
\* and cleaning.
BucketsInv == \A c \in DOMAIN client_buckets : client_buckets[c].elapsed = since[c]

\* The other clients that have been let through so recently that their buckets cannot be full.
RecentlyServed(c) == {d \in Clients \ {c} : since[d] < FILL_EMPTY_BUCKET}

\* A client gets through again one token period after the last request that did, however often
\* it has tried and the buckets have been cleaned meanwhile, its own included: it is refused only
\* when MAX_CLIENTS other clients have used their tokens within the time that fills a bucket.
LimitIsLifted ==
    \A c \in Clients : (since[c] >= TOKEN_PERIOD /\ ShouldRateLimitClient(c))
        => Cardinality(RecentlyServed(c)) >= MAX_CLIENTS
=============================================================================
