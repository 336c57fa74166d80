----------------------------- MODULE HttpsProofs -----------------------------
(***************************************************************************)
(* Proofs about the HTTPS server with its rate limiter and the onion       *)
(* requests, for any number of requests, clients, tokens and hops.         *)
(***************************************************************************)
EXTENDS Https, FiniteSetTheorems, TLAPS

\* The prover of every leaf that does not name another.
USE Zenon

-----------------------------------------------------------------------------
(***************************************************************************)
(* The rate limiter.                                                       *)
(***************************************************************************)

\* A whole token period gives at least one token.
LEMMA Tokens ==
    ASSUME NEW t \in Nat
    PROVE  /\ t \div TOKEN_PERIOD \in Nat
           /\ t >= TOKEN_PERIOD => t \div TOKEN_PERIOD >= 1
BY RateLimiterAssumption, SMT

\* The time that fills any bucket is a number.
LEMMA FillEmptyBucket == FILL_EMPTY_BUCKET \in Nat
BY RateLimiterAssumption, SMT DEF FILL_EMPTY_BUCKET

\* fill_bucket and remove_token keep a bucket well formed, and time only starts again when a
\* token is taken.
LEMMA Buckets ==
    ASSUME NEW b \in Bucket
    PROVE  /\ FillBucket(b) \in Bucket /\ FillBucket(b).elapsed = b.elapsed
           /\ RemoveToken(b) \in Bucket
           /\ RemoveToken(b).elapsed = IF CanRemoveToken(b) THEN 0 ELSE b.elapsed
           /\ b.elapsed >= TOKEN_PERIOD => CanRemoveToken(b)
<1>1. PICK full : full = FILL_EMPTY_BUCKET /\ full \in Nat
  BY FillEmptyBucket
<1>2. b = [num_tokens |-> b.num_tokens, elapsed |-> b.elapsed]
      /\ b.num_tokens \in 0 .. BUCKET_SIZE /\ b.elapsed \in 0 .. full
  BY <1>1 DEF Bucket
<1>3. PICK added : added = b.elapsed \div TOKEN_PERIOD
  OBVIOUS
<1>4. added \in Nat /\ (b.elapsed >= TOKEN_PERIOD => added >= 1)
  BY <1>2, <1>3, Tokens, SMT
<1>5. PICK n : n = CapAt(b.num_tokens + added, BUCKET_SIZE)
  OBVIOUS
<1>6. n \in 0 .. BUCKET_SIZE /\ (added >= 1 => n > 0)
  BY <1>2, <1>4, <1>5, RateLimiterAssumption, SMT DEF CapAt
<1>7. FillBucket(b) = [num_tokens |-> n, elapsed |-> b.elapsed]
  BY <1>2, <1>3, <1>5, SMT DEF FillBucket
<1>8. FillBucket(b) \in Bucket /\ FillBucket(b).elapsed = b.elapsed
  BY <1>1, <1>2, <1>6, <1>7, SMT DEF Bucket
<1>9. CanRemoveToken(b) <=> n > 0
  BY <1>7, SMT DEF CanRemoveToken
<1>10. CASE CanRemoveToken(b)
  <2>1. RemoveToken(b) = [num_tokens |-> n - 1, elapsed |-> 0]
    BY <1>7, <1>10, SMT DEF RemoveToken
  <2>2. n - 1 \in 0 .. BUCKET_SIZE
    BY <1>6, <1>9, <1>10, RateLimiterAssumption, SMT
  <2>3. QED
    BY <1>1, <1>4, <1>6, <1>8, <1>9, <1>10, <2>1, <2>2, SMT DEF Bucket
<1>11. CASE ~CanRemoveToken(b)
  <2>1. RemoveToken(b) = FillBucket(b)
    BY <1>11 DEF RemoveToken
  <2>2. QED
    BY <1>4, <1>6, <1>8, <1>9, <1>11, <2>1
<1>12. QED
  BY <1>10, <1>11

\* The buckets as a whole are well formed.
LimiterInv == RateLimiterTypeOK /\ BucketsInv

\* A bucket that is put for a client which was let through just now keeps the buckets well
\* formed, whichever of the others are cleaned away or filled.
LEMMA PutKeeps ==
    ASSUME RateLimiterTypeOK, NEW ip \in Clients, NEW buckets, NEW b \in Bucket,
           DOMAIN buckets \subseteq Clients, buckets \in [DOMAIN buckets -> Bucket],
           \A c \in DOMAIN buckets \ {ip} : buckets[c].elapsed = since[c],
           client_buckets' = Put(buckets, ip, b),
           since' \in [Clients -> 0 .. FILL_EMPTY_BUCKET],
           \A c \in Clients \ {ip} : since'[c] = since[c], b.elapsed = since'[ip]
    PROVE  LimiterInv'
<1>1. DOMAIN client_buckets' = DOMAIN buckets \cup {ip}
  BY DEF Put
<1>2. \A c \in DOMAIN client_buckets' :
          client_buckets'[c] = IF c = ip THEN b ELSE buckets[c]
  BY DEF Put
<1>3. client_buckets' \in [DOMAIN client_buckets' -> Bucket]
  BY <1>1 DEF Put
<1>4. DOMAIN client_buckets' \subseteq Clients
  BY <1>1
<1>5. \A c \in DOMAIN client_buckets' : client_buckets'[c].elapsed = since'[c]
  BY <1>1, <1>2, <1>4
<1>6. QED
  BY <1>3, <1>4, <1>5 DEF LimiterInv, RateLimiterTypeOK, BucketsInv

\* clean_buckets leaves well-formed buckets, with the times they had.
LEMMA CleanedKeeps ==
    ASSUME LimiterInv
    PROVE  /\ DOMAIN Cleaned \subseteq Clients /\ Cleaned \in [DOMAIN Cleaned -> Bucket]
           /\ \A c \in DOMAIN Cleaned : Cleaned[c].elapsed = since[c]
<1>1. DOMAIN Cleaned \subseteq DOMAIN client_buckets
  BY DEF Cleaned
<1>2. \A c \in DOMAIN Cleaned : Cleaned[c] = FillBucket(client_buckets[c])
  BY DEF Cleaned
<1>3. \A c \in DOMAIN client_buckets : client_buckets[c] \in Bucket
  BY DEF LimiterInv, RateLimiterTypeOK
<1>4. \A c \in DOMAIN Cleaned : Cleaned[c] \in Bucket /\ Cleaned[c].elapsed = since[c]
  BY <1>1, <1>2, <1>3, Buckets DEF LimiterInv, BucketsInv
<1>5. Cleaned = [c \in DOMAIN Cleaned |-> Cleaned[c]]
  BY DEF Cleaned
<1>6. QED
  BY <1>1, <1>4, <1>5 DEF LimiterInv, RateLimiterTypeOK

\* should_rate_limit_client.
LEMMA CountRequestKeeps ==
    ASSUME LimiterInv, NEW ip \in Clients, CountRequest(ip)
    PROVE  LimiterInv'
<1>1. since \in [Clients -> 0 .. FILL_EMPTY_BUCKET] /\ 0 \in 0 .. FILL_EMPTY_BUCKET
  BY FillEmptyBucket, SMT DEF LimiterInv, RateLimiterTypeOK
<1>2. FullLessOne \in Bucket /\ FullLessOne.elapsed = 0
  BY <1>1, RateLimiterAssumption, SMT DEF FullLessOne, Bucket
<1>3. CASE ip \in DOMAIN client_buckets
  <2>1. client_buckets' = Put(client_buckets, ip, RemoveToken(client_buckets[ip]))
    BY <1>3 DEF CountRequest
  <2>2. client_buckets[ip] \in Bucket /\ client_buckets[ip].elapsed = since[ip]
    BY <1>3 DEF LimiterInv, RateLimiterTypeOK, BucketsInv
  <2>3. since' = IF CanRemoveToken(client_buckets[ip]) THEN [since EXCEPT ![ip] = 0] ELSE since
    BY <1>3 DEF CountRequest, ShouldRateLimitClient
  <2>4. RemoveToken(client_buckets[ip]).elapsed = since'[ip]
    BY <1>1, <2>2, <2>3, Buckets
  <2>5. /\ since' \in [Clients -> 0 .. FILL_EMPTY_BUCKET]
        /\ \A c \in Clients \ {ip} : since'[c] = since[c]
    BY <1>1, <2>3
  <2>6. RemoveToken(client_buckets[ip]) \in Bucket
    BY <2>2, Buckets
  <2>7. QED
    BY <2>1, <2>4, <2>5, <2>6, PutKeeps DEF LimiterInv, RateLimiterTypeOK, BucketsInv
<1>4. CASE ip \notin DOMAIN client_buckets /\ ~ShouldRateLimitClient(ip)
  <2>1. \/ client_buckets' = Put(client_buckets, ip, FullLessOne)
        \/ client_buckets' = Put(Cleaned, ip, FullLessOne)
    BY <1>4 DEF CountRequest
  <2>2. since' = [since EXCEPT ![ip] = 0]
    BY <1>4 DEF CountRequest
  <2>3. /\ since' \in [Clients -> 0 .. FILL_EMPTY_BUCKET] /\ since'[ip] = 0
        /\ \A c \in Clients \ {ip} : since'[c] = since[c]
    BY <1>1, <2>2
  <2>4. CASE client_buckets' = Put(client_buckets, ip, FullLessOne)
    BY <1>2, <2>3, <2>4, PutKeeps DEF LimiterInv, RateLimiterTypeOK, BucketsInv
  <2>5. CASE client_buckets' = Put(Cleaned, ip, FullLessOne)
    BY <1>2, <2>3, <2>5, PutKeeps, CleanedKeeps DEF LimiterInv
  <2>6. QED
    BY <2>1, <2>4, <2>5
<1>5. CASE ip \notin DOMAIN client_buckets /\ ShouldRateLimitClient(ip)
  <2>1. client_buckets' = Cleaned /\ since' = since
    BY <1>5 DEF CountRequest
  <2>2. QED
    BY <1>1, <2>1, CleanedKeeps DEF LimiterInv, RateLimiterTypeOK, BucketsInv
<1>6. QED
  BY <1>3, <1>4, <1>5

\* The timer and the clock.
LEMMA LimiterTimerKeeps ==
    ASSUME LimiterInv, CleanTimer \/ TimePasses
    PROVE  LimiterInv'
<1>1. CASE CleanTimer
  BY <1>1, CleanedKeeps DEF CleanTimer, LimiterInv, RateLimiterTypeOK, BucketsInv
<1>2. CASE TimePasses
  <2>1. PICK full : full = FILL_EMPTY_BUCKET /\ full \in Nat
    BY FillEmptyBucket
  <2>2. DOMAIN client_buckets' = DOMAIN client_buckets
    BY <1>2 DEF TimePasses
  <2>3. \A c \in Clients : since[c] \in 0 .. full
    BY <2>1 DEF LimiterInv, RateLimiterTypeOK
  <2>4. \A c \in Clients : CapAt(since[c] + 1, full) \in 0 .. full
    BY <2>1, <2>3, SMT DEF CapAt
  <2>5. \A c \in Clients : since'[c] = CapAt(since[c] + 1, full)
    BY <1>2, <2>1 DEF TimePasses
  <2>6. since' \in [Clients -> 0 .. full]
    BY <1>2, <2>1, <2>4 DEF TimePasses
  <2>7. ASSUME NEW c \in DOMAIN client_buckets
        PROVE  client_buckets'[c] \in Bucket /\ client_buckets'[c].elapsed = since'[c]
    <3>1. PICK b : b = client_buckets[c] /\ b \in Bucket
      BY DEF LimiterInv, RateLimiterTypeOK
    <3>2. client_buckets'[c] = [b EXCEPT !.elapsed = CapAt(b.elapsed + 1, full)]
      BY <1>2, <2>1, <3>1 DEF TimePasses
    <3>3. c \in Clients /\ b.elapsed = since[c]
      BY <3>1 DEF LimiterInv, RateLimiterTypeOK, BucketsInv
    <3>4. b.num_tokens \in 0 .. BUCKET_SIZE
          /\ client_buckets'[c] = [num_tokens |-> b.num_tokens, elapsed |-> since'[c]]
      BY <2>5, <3>1, <3>2, <3>3, SMT DEF Bucket
    <3>5. since'[c] \in 0 .. full
      BY <2>6, <3>3
    <3>6. QED
      BY <2>1, <3>4, <3>5, SMT DEF Bucket
  <2>8. client_buckets' \in [DOMAIN client_buckets' -> Bucket]
    BY <1>2, <2>2, <2>7 DEF TimePasses
  <2>9. QED
    BY <2>1, <2>2, <2>6, <2>7, <2>8 DEF LimiterInv, RateLimiterTypeOK, BucketsInv
<1>3. QED
  BY <1>1, <1>2

\* The time that fills an empty bucket fills every bucket.
LEMMA FilledInTime ==
    ASSUME NEW b \in Bucket, b.elapsed >= FILL_EMPTY_BUCKET
    PROVE  IsFull(b)
<1>1. PICK n \in 0 .. BUCKET_SIZE : n = b.num_tokens
  BY DEF Bucket
<1>2. b.elapsed = TOKEN_PERIOD * BUCKET_SIZE
  BY FillEmptyBucket, SMT DEF Bucket, FILL_EMPTY_BUCKET
<1>3. (TOKEN_PERIOD * BUCKET_SIZE) \div TOKEN_PERIOD = BUCKET_SIZE
  BY RateLimiterAssumption, SMT
<1>4. CapAt(n + BUCKET_SIZE, BUCKET_SIZE) = BUCKET_SIZE
  BY RateLimiterAssumption, SMT DEF CapAt
<1>5. FillBucket(b).num_tokens = CapAt(b.num_tokens + b.elapsed \div TOKEN_PERIOD, BUCKET_SIZE)
  BY SMT DEF FillBucket, Bucket
<1>6. QED
  BY <1>1, <1>2, <1>3, <1>4, <1>5 DEF IsFull

\* A bucket that clean_buckets leaves has been used within the time that fills a bucket.
LEMMA CleanedRecently ==
    ASSUME LimiterInv, NEW c \in Clients, c \notin DOMAIN client_buckets
    PROVE  DOMAIN Cleaned \subseteq RecentlyServed(c)
<1> SUFFICES ASSUME NEW d \in DOMAIN Cleaned
             PROVE  d \in RecentlyServed(c)
  OBVIOUS
<1>1. d \in DOMAIN client_buckets /\ ~IsFull(client_buckets[d])
  BY DEF Cleaned
<1>2. /\ d \in Clients /\ d # c /\ client_buckets[d] \in Bucket
      /\ client_buckets[d].elapsed = since[d]
  BY <1>1 DEF LimiterInv, RateLimiterTypeOK, BucketsInv
<1>3. ~(since[d] >= FILL_EMPTY_BUCKET)
  BY <1>1, <1>2, FilledInTime
<1>4. since[d] \in 0 .. FILL_EMPTY_BUCKET
  BY <1>2 DEF LimiterInv, RateLimiterTypeOK
<1>5. since[d] < FILL_EMPTY_BUCKET
  BY <1>3, <1>4, FillEmptyBucket, SMT
<1>6. QED
  BY <1>2, <1>5 DEF RecentlyServed

\* The limit is lifted one token period after the last request that got through, for a client
\* with a bucket because it has a token again, and for one without unless the table is full.
LEMMA LimiterInvLifts == LimiterInv => LimitIsLifted
<1> SUFFICES ASSUME LimiterInv, NEW c \in Clients, since[c] >= TOKEN_PERIOD,
                    ShouldRateLimitClient(c)
             PROVE  Cardinality(RecentlyServed(c)) >= MAX_CLIENTS
  BY DEF LimitIsLifted
<1>1. c \notin DOMAIN client_buckets
  <2> SUFFICES ASSUME c \in DOMAIN client_buckets
               PROVE  FALSE
    OBVIOUS
  <2>1. client_buckets[c] \in Bucket /\ client_buckets[c].elapsed = since[c]
    BY DEF LimiterInv, RateLimiterTypeOK, BucketsInv
  <2>2. CanRemoveToken(client_buckets[c])
    BY <2>1, Buckets
  <2>3. QED
    BY <2>2 DEF ShouldRateLimitClient
<1>2. Cardinality(DOMAIN Cleaned) >= MAX_CLIENTS
  BY <1>1 DEF ShouldRateLimitClient
<1>3. RecentlyServed(c) \subseteq Clients
  BY DEF RecentlyServed
<1>4. IsFiniteSet(RecentlyServed(c))
  BY <1>3, RateLimiterAssumption, FS_Subset
<1>5. DOMAIN Cleaned \subseteq RecentlyServed(c)
  BY <1>1, CleanedRecently
<1>6. IsFiniteSet(DOMAIN Cleaned) /\ Cardinality(DOMAIN Cleaned) <= Cardinality(RecentlyServed(c))
  BY <1>4, <1>5, FS_Subset
<1>7. Cardinality(DOMAIN Cleaned) \in Nat /\ Cardinality(RecentlyServed(c)) \in Nat
  BY <1>4, <1>6, FS_CardinalityType
<1>8. QED
  BY <1>2, <1>6, <1>7, RateLimiterAssumption, SMT

-----------------------------------------------------------------------------
(***************************************************************************)
(* The onion requests.                                                     *)
(***************************************************************************)

\* The hop numbers of one request are as HopsInv has them.
Counted(p) ==
    \A i \in 2 .. Len(p) : p[i] >= i - 1 /\ (i < Len(p) => p[i] <= MAX_ONION_HOPS)

\* The paths are well formed, and their hop numbers count the nodes.
OnionInv == OnionTypeOK /\ HopsInv

\* OnionInv speaks of each request by itself.
LEMMA SetOnionKeeps ==
    ASSUME OnionInv, NEW o \in Onions, NEW p \in Seq(Int), NEW s \in Doing \cup Status,
           path' = [path EXCEPT ![o] = p], last' = [last EXCEPT ![o] = s],
           Counted(p), s # "none" => p # <<>>
    PROVE  OnionInv'
<1>1. OnionTypeOK'
  BY DEF OnionInv, OnionTypeOK
<1>2. \A q \in Onions : IF q = o THEN path'[q] = p /\ last'[q] = s
                                 ELSE path'[q] = path[q] /\ last'[q] = last[q]
  BY DEF OnionInv, OnionTypeOK
<1>3. HopsInv'
  BY <1>2 DEF OnionInv, HopsInv, Counted
<1>4. QED
  BY <1>1, <1>3 DEF OnionInv

\* What OnionInv says of one request.
LEMMA OnionInvOf ==
    ASSUME OnionInv, NEW o \in Onions
    PROVE  /\ path[o] \in Seq(Int) /\ last[o] \in Doing \cup Status /\ Counted(path[o])
           /\ last[o] # "none" => path[o] # <<>>
           /\ path = [path EXCEPT ![o] = path[o]] /\ last = [last EXCEPT ![o] = last[o]]
BY DEF OnionInv, OnionTypeOK, HopsInv, Counted

\* A node answers: its path stays.
LEMMA AnswerKeeps ==
    ASSUME OnionInv, NEW o \in Onions, last[o] # "none",
           NEW s \in (Doing \cup Status) \ {"none"}, Answer(o, s)
    PROVE  OnionInv'
<1>1. path' = [path EXCEPT ![o] = path[o]] /\ last' = [last EXCEPT ![o] = s]
  BY OnionInvOf DEF Answer
<1>2. path[o] \in Seq(Int) /\ Counted(path[o]) /\ path[o] # <<>>
  BY OnionInvOf
<1>3. QED
  BY <1>1, <1>2, SetOnionKeeps

\* A relay sends on: the next hop number is larger unless it wraps, which only the edge node's
\* can, and the relay's own is within the limit unless it is the edge node.
LEMMA SendsOnKeeps ==
    ASSUME OnionInv, NEW o \in Onions, last[o] # "none", ~TooManyHops(o),
           path' = [path EXCEPT ![o] = Append(path[o], SentHopNo(o))], last' = last
    PROVE  OnionInv'
<1>1. PICK p : p = path[o] /\ p \in Seq(Int) /\ p # <<>> /\ Counted(p)
  BY OnionInvOf
<1>2. Len(p) \in Nat \ {0} /\ p[Len(p)] \in Int
  BY <1>1, SMT
<1>3. PICK n : n = HopNo(o) /\ n = p[Len(p)] /\ n \in Int
  BY <1>1, <1>2 DEF HopNo
<1>4. PICK h : h = SentHopNo(o)
  OBVIOUS
<1>5. h \in Int /\ h >= 1 /\ (n < INT_MAX => h >= n + 1)
  <2>1. PICK k : k = Incremented(n)
    OBVIOUS
  <2>2. k \in Int /\ (n < INT_MAX => k = n + 1)
    BY <1>3, <2>1, OnionAssumption, SMT DEF Incremented
  <2>3. h = MaxWith(k, 1)
    BY <1>3, <1>4, <2>1 DEF SentHopNo
  <2>4. h \in Int /\ h >= 1 /\ h >= k
    BY <2>2, <2>3, SMT DEF MaxWith
  <2>5. QED
    BY <1>3, <2>2, <2>4
<1>6. Len(p) > 1 => (n >= Len(p) - 1 /\ n <= MAX_ONION_HOPS)
  <2>1. Len(p) > 1 => Len(p) \in 2 .. Len(p)
    BY <1>2, SMT
  <2>2. Len(p) > 1 => n >= Len(p) - 1
    BY <1>1, <1>3, <2>1 DEF Counted
  <2>3. Len(p) > 1 => ~(n > MAX_ONION_HOPS)
    BY <1>1, <1>3 DEF TooManyHops
  <2>4. QED
    BY <1>3, <2>2, <2>3, OnionAssumption, SMT
<1>7. PICK q : q = Append(p, h) /\ q \in Seq(Int) /\ Len(q) = Len(p) + 1 /\ q[Len(p) + 1] = h
               /\ q # <<>> /\ \A i \in 1 .. Len(p) : q[i] = p[i]
  <2>1. PICK q : q = Append(p, h)
    OBVIOUS
  <2>2. q \in Seq(Int) /\ Len(q) = Len(p) + 1
    BY <1>1, <1>5, <2>1, SMT
  <2>3. q[Len(p) + 1] = h /\ \A i \in 1 .. Len(p) : q[i] = p[i]
    BY <1>1, <1>5, <2>1, SMT
  <2>4. q # <<>>
    BY <1>2, <2>2, SMT
  <2>5. QED
    BY <2>1, <2>2, <2>3, <2>4
<1>8. Counted(q)
  <2> SUFFICES ASSUME NEW i \in 2 .. Len(q)
               PROVE  q[i] >= i - 1 /\ (i < Len(q) => q[i] <= MAX_ONION_HOPS)
    BY DEF Counted
  <2>1. CASE i = Len(p) + 1
    <3>1. h >= Len(p)
      BY <1>2, <1>3, <1>5, <1>6, OnionAssumption, SMT
    <3>2. QED
      BY <1>2, <1>5, <1>7, <2>1, <3>1, SMT
  <2>2. CASE i = Len(p)
    BY <1>2, <1>3, <1>6, <1>7, <2>2, SMT
  <2>3. CASE i < Len(p)
    <3>1. i \in 2 .. Len(p) /\ i \in 1 .. Len(p) /\ i < Len(p)
      BY <1>2, <2>3, SMT
    <3>2. QED
      BY <1>1, <1>7, <3>1 DEF Counted
  <2>4. QED
    BY <1>2, <1>7, <2>1, <2>2, <2>3, SMT
<1>9. path' = [path EXCEPT ![o] = q] /\ last' = [last EXCEPT ![o] = last[o]]
  BY <1>1, <1>4, <1>7, OnionInvOf
<1>10. QED
  BY <1>7, <1>8, <1>9, OnionInvOf, SetOnionKeeps

\* A relay answers for the nodes behind it, which are forgotten.
LEMMA ShortensKeeps ==
    ASSUME OnionInv, NEW o \in Onions, NEW n \in Nat \ {0}, n < Len(path[o]),
           NEW s \in Doing \cup Status,
           path' = [path EXCEPT ![o] = SubSeq(path[o], 1, n)], last' = [last EXCEPT ![o] = s]
    PROVE  OnionInv'
<1>1. PICK p : p = path[o] /\ p \in Seq(Int) /\ Counted(p)
  BY OnionInvOf
<1>2. PICK q : q = SubSeq(p, 1, n)
  OBVIOUS
<1>3. q \in Seq(Int) /\ Len(q) = n /\ \A i \in 1 .. n : q[i] = p[i]
  BY <1>1, <1>2, SMT
<1>4. Counted(q)
  <2> SUFFICES ASSUME NEW i \in 2 .. n
               PROVE  q[i] >= i - 1 /\ (i < n => q[i] <= MAX_ONION_HOPS)
    BY <1>3 DEF Counted
  <2>1. i \in 2 .. Len(p) /\ i \in 1 .. n /\ i < Len(p)
    BY <1>1, SMT
  <2>2. QED
    BY <1>1, <1>3, <2>1 DEF Counted
<1>5. q # <<>>
  BY <1>3
<1>6. QED
  BY <1>1, <1>2, <1>3, <1>4, <1>5, SetOnionKeeps

\* One node less than two or more.
LEMMA OneLess ==
    ASSUME NEW k \in Nat, k > 1
    PROVE  k - 1 \in Nat \ {0} /\ k - 1 < k
BY SMT

\* The steps of a node that works on the request, of the edge node at its start and its end.
LEMMA OnionKeeps ==
    ASSUME OnionInv, NEW o \in Onions,
           OnionStep(o) \/ EndOnion(o) \/ \E given \in FirstHops : StartOnion(o, given)
    PROVE  OnionInv'
<1> USE DEF Doing, Status
<1>1. CASE ProcessOnionReq(o)
  <2>1. last[o] # "none"
    BY <1>1 DEF ProcessOnionReq
  <2>2. CASE \E s \in {"200", "400", "50x", "destination", "proxy", "lost"} : Answer(o, s)
    BY <2>1, <2>2, AnswerKeeps
  <2>3. CASE ~TooManyHops(o) /\ path' = [path EXCEPT ![o] = Append(@, SentHopNo(o))]
             /\ UNCHANGED last
    BY <2>1, <2>3, SendsOnKeeps
  <2>4. QED
    BY <1>1, <2>2, <2>3 DEF ProcessOnionReq, AtDestination, AtProxy, AtRelay, AtError, Throws,
                            WrapProxyResponse
<1>2. CASE DestinationAnswers(o)
  <2>1. last[o] # "none" /\ \E s \in {"200", "lost"} : Answer(o, s)
    BY <1>2 DEF DestinationAnswers, WrapProxyResponse
  <2>2. QED
    BY <2>1, AnswerKeeps
<1>3. CASE ProxyAnswers(o)
  <2>1. last[o] # "none" /\ \E status \in {"200", "50x"} : Answer(o, status)
    BY <1>3 DEF ProxyAnswers
  <2>2. QED
    BY <2>1, AnswerKeeps
<1>4. CASE RelayAnswers(o)
  <2>1. PICK n : n = Len(path[o]) - 1 /\ n \in Nat \ {0} /\ n < Len(path[o])
    <3>1. Len(path[o]) \in Nat /\ Len(path[o]) > 1
      BY <1>4, OnionInvOf, SMT DEF RelayAnswers
    <3>2. QED
      BY <3>1, OneLess
  <2>2. PICK s \in {last[o], "50x"} : last' = [last EXCEPT ![o] = s]
    <3>1. CASE UNCHANGED last
      <4>1. last = [last EXCEPT ![o] = last[o]]
        BY OnionInvOf
      <4>2. last' = [last EXCEPT ![o] = last[o]]
        BY <3>1, <4>1
      <4>3. QED
        BY <4>2
    <3>2. CASE last' = [last EXCEPT ![o] = "50x"]
      BY <3>2
    <3>3. QED
      BY <1>4, <3>1, <3>2 DEF RelayAnswers
  <2>3. path' = [path EXCEPT ![o] = SubSeq(path[o], 1, n)] /\ s \in Doing \cup Status
    BY <1>4, <2>1, <2>2, OnionInvOf DEF RelayAnswers
  <2>4. QED
    BY <2>1, <2>2, <2>3, ShortensKeeps
<1>5. CASE \E i \in DOMAIN path[o] : RelayTimesOut(o, i)
  <2>1. PICK i \in DOMAIN path[o] : RelayTimesOut(o, i)
    BY <1>5
  <2>2. i \in Nat \ {0}
    BY <2>1, OnionInvOf, SMT
  <2>3. QED
    BY <2>1, <2>2, ShortensKeeps DEF RelayTimesOut
<1>6. CASE EndOnion(o)
  <2>1. <<>> \in Seq(Int) /\ Counted(<<>>) /\ "none" \in Doing \cup Status
    BY SMT DEF Counted
  <2>2. QED
    BY <1>6, <2>1, SetOnionKeeps DEF EndOnion
<1>7. CASE \E given \in FirstHops : StartOnion(o, given)
  <2>1. PICK given \in FirstHops : StartOnion(o, given)
    BY <1>7
  <2>2. EdgeHopNo(given) \in Int
    BY <2>1, OnionAssumption, SMT DEF EdgeHopNo, MaxWith
  <2>3. <<EdgeHopNo(given)>> \in Seq(Int) /\ Counted(<<EdgeHopNo(given)>>)
        /\ <<EdgeHopNo(given)>> # <<>>
    BY <2>2, SMT DEF Counted
  <2>4. QED
    BY <2>1, <2>3, SetOnionKeeps DEF StartOnion
<1>8. QED
  BY <1>1, <1>2, <1>3, <1>4, <1>5, <1>6, <1>7 DEF OnionStep

\* The last hop number but one counts the nodes and is within the limit.
LEMMA OnionInvBounds == OnionInv => HopsBounded
<1> SUFFICES ASSUME OnionInv, NEW o \in Onions
             PROVE  Len(path[o]) <= MAX_ONION_HOPS + 2
  BY DEF HopsBounded
<1>1. PICK p : p = path[o] /\ p \in Seq(Int) /\ Counted(p)
  BY OnionInvOf
<1>2. PICK n : n = Len(p) /\ n = Len(path[o]) /\ n \in Nat
  BY <1>1, SMT
<1>3. CASE n <= 2
  BY <1>2, <1>3, OnionAssumption, SMT
<1>4. CASE n > 2
  <2>1. n - 1 \in 2 .. Len(p) /\ n - 1 < Len(p) /\ n - 1 \in 1 .. Len(p)
    BY <1>2, <1>4, SMT
  <2>2. p[n - 1] \in Int /\ p[n - 1] >= n - 1 - 1 /\ p[n - 1] <= MAX_ONION_HOPS
    BY <1>1, <2>1, SMT DEF Counted
  <2>3. QED
    BY <1>2, <2>2, OnionAssumption, SMT
<1>5. QED
  BY <1>2, <1>3, <1>4, SMT

-----------------------------------------------------------------------------
(***************************************************************************)
(* The HTTP requests.                                                      *)
(***************************************************************************)
Connections == {"reading", "waiting", "idle", "none", "closed"}
Jobs == {"none", "queued", "dropped", "pending", "lost", "done"}

HttpTypeOK ==
    /\ conn \in [Requests -> Connections] /\ job \in [Requests -> Jobs]
    /\ replied \in [Requests -> BOOLEAN] /\ aborted \in [Requests -> BOOLEAN]
    /\ deferred \in [Requests -> BOOLEAN] /\ ends \in [Requests -> 0 .. 2]

\* What RepliesInv says of one request.
RequestInv(r) ==
    /\ conn[r] \in {"none", "reading"} =>
          (job[r] = "none" /\ ~aborted[r] /\ ~replied[r] /\ ends[r] = 0)
    /\ (job[r] \in {"queued", "pending"} /\ ~aborted[r]) => (conn[r] = "waiting" /\ ends[r] = 0)
    /\ deferred[r] => replied[r]
    /\ replied[r] => job[r] = "done"
    /\ (deferred[r] /\ ~aborted[r]) => (conn[r] = "waiting" /\ ends[r] = 0)

HttpInv == HttpTypeOK /\ RepliesInv

\* A response that is written is the only one, on an open connection.
EndsRight(r) == ends'[r] # ends[r] => (ends[r] = 0 /\ conn[r] \in {"none", "waiting"})

\* A step of r leaves another request alone, but may take over the connection that it left.
Leaves(q) ==
    /\ conn'[q] = conn[q] \/ (conn[q] = "idle" /\ conn'[q] = "closed")
    /\ job'[q] = job[q] /\ replied'[q] = replied[q] /\ aborted'[q] = aborted[q]
    /\ deferred'[q] = deferred[q] /\ ends'[q] = ends[q]

\* HttpInv speaks of each request by itself.
LEMMA HttpInvOf ==
    ASSUME HttpInv, NEW r \in Requests
    PROVE  /\ RequestInv(r)
           /\ conn[r] \in Connections /\ job[r] \in Jobs /\ replied[r] \in BOOLEAN
           /\ aborted[r] \in BOOLEAN /\ deferred[r] \in BOOLEAN /\ ends[r] \in 0 .. 2
BY DEF HttpInv, HttpTypeOK, RepliesInv, RequestInv

\* A step of one request keeps HttpInv if it does so for that request.
LEMMA OneRequest ==
    ASSUME HttpInv, NEW r \in Requests, HttpTypeOK', RequestInv(r)', EndsRight(r),
           \A q \in Requests \ {r} : Leaves(q)
    PROVE  HttpInv' /\ \A q \in Requests : EndsRight(q)
<1>1. ASSUME NEW q \in Requests
      PROVE  RequestInv(q)' /\ EndsRight(q)
  <2>1. CASE q = r
    BY <2>1
  <2>2. CASE q # r
    <3>1. Leaves(q) /\ RequestInv(q)
      BY <2>2, HttpInvOf
    <3>2. EndsRight(q)
      BY <3>1 DEF Leaves, EndsRight
    <3>3. CASE conn'[q] = conn[q]
      BY <3>1, <3>2, <3>3, Zenon DEF Leaves, RequestInv
    <3>4. CASE conn[q] = "idle" /\ conn'[q] = "closed"
      <4>1. ~(conn[q] = "waiting") /\ ~(conn'[q] \in {"none", "reading"})
        BY <3>4
      <4>2. QED
        BY <3>1, <3>2, <4>1, Zenon DEF Leaves, RequestInv
    <3>5. QED
      BY <3>1, <3>2, <3>3, <3>4 DEF Leaves
  <2>3. QED
    BY <2>1, <2>2
<1>2. RepliesInv'
  BY <1>1 DEF RepliesInv, RequestInv
<1>3. QED
  BY <1>1, <1>2 DEF HttpInv

\* The connection of a request that comes.
LEMMA Connecting ==
    ASSUME HttpInv, NEW r \in Requests, NEW state \in Connections, ConnectsTo(r, state)
    PROVE  /\ conn[r] = "none" /\ conn'[r] = state /\ conn' \in [Requests -> Connections]
           /\ \A q \in Requests \ {r} :
                 conn'[q] = conn[q] \/ (conn[q] = "idle" /\ conn'[q] = "closed")
           /\ job[r] = "none" /\ ~aborted[r] /\ ~replied[r] /\ ~deferred[r] /\ ends[r] = 0
<1>1. conn[r] = "none" /\ conn \in [Requests -> Connections]
  BY DEF ConnectsTo, HttpInv, HttpTypeOK
<1>2. /\ conn'[r] = state /\ conn' \in [Requests -> Connections]
      /\ \A q \in Requests \ {r} :
            conn'[q] = conn[q] \/ (conn[q] = "idle" /\ conn'[q] = "closed")
  <2>1. CASE conn' = [conn EXCEPT ![r] = state]
    BY <1>1, <2>1
  <2>2. CASE \E kept \in Requests :
                conn[kept] = "idle" /\ conn' = [conn EXCEPT ![kept] = "closed", ![r] = state]
    <3>1. PICK kept \in Requests :
              conn[kept] = "idle" /\ conn' = [conn EXCEPT ![kept] = "closed", ![r] = state]
      BY <2>2
    <3>2. kept # r /\ "closed" \in Connections
      BY <1>1, <3>1 DEF Connections
    <3>3. QED
      BY <1>1, <3>1, <3>2
  <2>3. QED
    BY <2>1, <2>2 DEF ConnectsTo
<1>3. job[r] = "none" /\ ~aborted[r] /\ ~replied[r] /\ ends[r] = 0 /\ (deferred[r] => replied[r])
  BY <1>1, HttpInvOf, Zenon DEF RequestInv
<1>4. QED
  BY <1>1, <1>2, <1>3

\* The conclusion of every lemma about a step.
HttpKept == HttpInv' /\ \A q \in Requests : EndsRight(q)

\* Answers at once, from the event loop.
LEMMA RespondAtOnceKeeps ==
    ASSUME HttpInv, NEW r \in Requests, RespondAtOnce(r)
    PROVE  HttpKept
<1>1. PICK state \in {"closed", "idle"} : ConnectsTo(r, state)
  BY DEF RespondAtOnce, AfterEnd
<1>2. state \in Connections /\ ~(state \in {"none", "reading"})
  BY <1>1 DEF Connections
<1>3. /\ conn[r] = "none" /\ conn'[r] = state /\ conn' \in [Requests -> Connections]
      /\ \A q \in Requests \ {r} :
            conn'[q] = conn[q] \/ (conn[q] = "idle" /\ conn'[q] = "closed")
      /\ job[r] = "none" /\ ~aborted[r] /\ ~replied[r] /\ ~deferred[r] /\ ends[r] = 0
  BY <1>1, <1>2, Connecting
<1>4. ends' \in [Requests -> 0 .. 2] /\ \A q \in Requests \ {r} : ends'[q] = ends[q]
  BY <1>3, SMT DEF RespondAtOnce, HttpInv, HttpTypeOK
<1>5. job' = job /\ replied' = replied /\ aborted' = aborted /\ deferred' = deferred
  BY DEF RespondAtOnce
<1>6. HttpTypeOK' /\ \A q \in Requests \ {r} : Leaves(q)
  BY <1>3, <1>4, <1>5 DEF HttpInv, HttpTypeOK, Leaves
<1>7. RequestInv(r)'
  <2>1. job'[r] = "none" /\ ~replied'[r] /\ ~deferred'[r] /\ ~(conn'[r] \in {"none", "reading"})
    BY <1>2, <1>3, <1>5
  <2>2. ~(job'[r] \in {"queued", "pending"})
    BY <2>1
  <2>3. QED
    BY <2>1, <2>2, Zenon DEF RequestInv
<1>8. EndsRight(r)
  BY <1>3 DEF EndsRight
<1>9. QED
  BY <1>6, <1>7, <1>8, OneRequest DEF HttpKept

\* A request with a body that is to come.
LEMMA HandleRequestKeeps ==
    ASSUME HttpInv, NEW r \in Requests, HandleRequest(r)
    PROVE  HttpKept
<1>1. ConnectsTo(r, "reading") /\ "reading" \in Connections
  BY DEF HandleRequest, Connections
<1>2. /\ conn[r] = "none" /\ conn'[r] = "reading" /\ conn' \in [Requests -> Connections]
      /\ \A q \in Requests \ {r} :
            conn'[q] = conn[q] \/ (conn[q] = "idle" /\ conn'[q] = "closed")
      /\ job[r] = "none" /\ ~aborted[r] /\ ~replied[r] /\ ~deferred[r] /\ ends[r] = 0
  BY <1>1, Connecting
<1>3. job' = job /\ replied' = replied /\ aborted' = aborted /\ deferred' = deferred
      /\ ends' = ends
  BY DEF HandleRequest
<1>4. HttpTypeOK' /\ \A q \in Requests \ {r} : Leaves(q)
  BY <1>2, <1>3 DEF HttpInv, HttpTypeOK, Leaves
<1>5. RequestInv(r)'
  <2>1. job'[r] = "none" /\ ~replied'[r] /\ ~deferred'[r] /\ ~aborted'[r] /\ ends'[r] = 0
    BY <1>2, <1>3
  <2>2. ~(job'[r] \in {"queued", "pending"})
    BY <2>1
  <2>3. QED
    BY <2>1, <2>2, Zenon DEF RequestInv
<1>6. EndsRight(r)
  BY <1>3 DEF EndsRight
<1>7. QED
  BY <1>4, <1>5, <1>6, OneRequest DEF HttpKept

\* A request whose length is refused: aborted, so that its task does nothing.
LEMMA HandleBadLengthKeeps ==
    ASSUME HttpInv, NEW r \in Requests, HandleBadLength(r)
    PROVE  HttpKept
<1>1. ConnectsTo(r, "closed") /\ "closed" \in Connections
  BY DEF HandleBadLength, Connections
<1>2. /\ conn[r] = "none" /\ conn'[r] = "closed" /\ conn' \in [Requests -> Connections]
      /\ \A q \in Requests \ {r} :
            conn'[q] = conn[q] \/ (conn[q] = "idle" /\ conn'[q] = "closed")
      /\ job[r] = "none" /\ ~aborted[r] /\ ~replied[r] /\ ~deferred[r] /\ ends[r] = 0
  BY <1>1, Connecting
<1>3. ends' \in [Requests -> 0 .. 2] /\ \A q \in Requests \ {r} : ends'[q] = ends[q]
  BY <1>2, SMT DEF HandleBadLength, HttpInv, HttpTypeOK
<1>4. /\ aborted' \in [Requests -> BOOLEAN] /\ aborted'[r]
      /\ \A q \in Requests \ {r} : aborted'[q] = aborted[q]
  BY DEF HandleBadLength, HttpInv, HttpTypeOK
<1>5. /\ job' \in [Requests -> Jobs]
      /\ \A q \in Requests \ {r} : job'[q] = job[q]
  BY DEF HandleBadLength, HttpInv, HttpTypeOK, InjectTask, Jobs
<1>6. replied' = replied /\ deferred' = deferred
  BY DEF HandleBadLength
<1>7. HttpTypeOK' /\ \A q \in Requests \ {r} : Leaves(q)
  BY <1>2, <1>3, <1>4, <1>5, <1>6 DEF HttpInv, HttpTypeOK, Leaves
<1>8. RequestInv(r)'
  <2>1. ~replied'[r] /\ ~deferred'[r] /\ ~(conn'[r] \in {"none", "reading"})
    BY <1>2, <1>6
  <2>2. QED
    BY <1>4, <2>1, Zenon DEF RequestInv
<1>9. EndsRight(r)
  BY <1>2 DEF EndsRight
<1>10. QED
  BY <1>7, <1>8, <1>9, OneRequest DEF HttpKept

\* The other steps of the event loop.
LEMMA EventLoopKeeps ==
    ASSUME HttpInv, NEW r \in Requests,
           BodyArrives(r) \/ Abort(r) \/ IdleTimeout(r) \/ RunDeferred(r)
    PROVE  HttpKept
<1>0. HttpTypeOK /\ RequestInv(r) /\ conn[r] \in Connections /\ ends[r] \in 0 .. 2
  BY HttpInvOf DEF HttpInv
<1>1. CASE BodyArrives(r)
  <2>1. conn[r] = "reading" /\ conn' = [conn EXCEPT ![r] = "waiting"]
        /\ job' = [job EXCEPT ![r] = InjectTask] /\ UNCHANGED <<replied, aborted, deferred, ends>>
    BY <1>1 DEF BodyArrives
  <2>2. HttpTypeOK' /\ \A q \in Requests \ {r} : Leaves(q)
    BY <1>0, <2>1 DEF HttpTypeOK, Leaves, InjectTask, Jobs, Connections
  <2>3. ~aborted[r] /\ ~replied[r] /\ ends[r] = 0 /\ (deferred[r] => replied[r])
    BY <1>0, <2>1, Zenon DEF RequestInv
  <2>4. ~aborted'[r] /\ ~replied'[r] /\ ends'[r] = 0 /\ ~deferred'[r] /\ conn'[r] = "waiting"
    BY <1>0, <2>1, <2>3 DEF HttpTypeOK
  <2>5. ~(conn'[r] \in {"none", "reading"})
    BY <2>4
  <2>6. RequestInv(r)'
    BY <2>4, <2>5, Zenon DEF RequestInv
  <2>7. EndsRight(r)
    BY <2>1 DEF EndsRight
  <2>8. QED
    BY <2>2, <2>6, <2>7, OneRequest DEF HttpKept
<1>2. CASE Abort(r)
  <2>1. conn' = [conn EXCEPT ![r] = "closed"] /\ aborted' = [aborted EXCEPT ![r] = TRUE]
        /\ UNCHANGED <<job, replied, deferred, ends>>
    BY <1>2 DEF Abort
  <2>2. HttpTypeOK' /\ \A q \in Requests \ {r} : Leaves(q)
    BY <1>0, <2>1 DEF HttpTypeOK, Leaves, Connections
  <2>3. conn'[r] = "closed" /\ aborted'[r] /\ job'[r] = job[r] /\ replied'[r] = replied[r]
        /\ deferred'[r] = deferred[r]
    BY <1>0, <2>1 DEF HttpTypeOK
  <2>4. ~(conn'[r] \in {"none", "reading"})
    BY <2>3
  <2>5. RequestInv(r)'
    BY <1>0, <2>3, <2>4, Zenon DEF RequestInv
  <2>6. EndsRight(r)
    BY <2>1 DEF EndsRight
  <2>7. QED
    BY <2>2, <2>5, <2>6, OneRequest DEF HttpKept
<1>3. CASE IdleTimeout(r)
  <2>1. conn[r] \in {"reading", "idle"} /\ conn' = [conn EXCEPT ![r] = "closed"]
        /\ aborted' = [aborted EXCEPT ![r] = aborted[r] \/ conn[r] = "reading"]
        /\ UNCHANGED <<job, replied, deferred, ends>>
    BY <1>3 DEF IdleTimeout
  <2>2. HttpTypeOK' /\ \A q \in Requests \ {r} : Leaves(q)
    BY <1>0, <2>1 DEF HttpTypeOK, Leaves, Connections
  <2>3. conn'[r] = "closed" /\ (aborted'[r] <=> (aborted[r] \/ conn[r] = "reading"))
    BY <1>0, <2>1 DEF HttpTypeOK
  <2>4. job'[r] = job[r] /\ replied'[r] = replied[r] /\ deferred'[r] = deferred[r]
    BY <2>1
  <2>5. ~(conn'[r] \in {"none", "reading"}) /\ ~(conn[r] = "waiting")
    BY <2>1, <2>3
  <2>6. RequestInv(r)'
    BY <1>0, <2>3, <2>4, <2>5, Zenon DEF RequestInv
  <2>7. EndsRight(r)
    BY <2>1 DEF EndsRight
  <2>8. QED
    BY <2>2, <2>6, <2>7, OneRequest DEF HttpKept
<1>4. CASE RunDeferred(r)
  <2>1. deferred[r] /\ deferred' = [deferred EXCEPT ![r] = FALSE]
        /\ UNCHANGED <<job, replied, aborted>>
    BY <1>4 DEF RunDeferred
  <2>2. replied[r] /\ job[r] = "done"
    BY <1>0, <2>1, Zenon DEF RequestInv
  <2>3. job'[r] = "done" /\ replied'[r] /\ ~deferred'[r]
    BY <1>0, <2>1, <2>2 DEF HttpTypeOK
  <2>4. ~(job'[r] \in {"queued", "pending"})
    BY <2>3
  <2>5. /\ HttpTypeOK' /\ (\A q \in Requests \ {r} : Leaves(q)) /\ EndsRight(r)
        /\ ~(conn'[r] \in {"none", "reading"})
    <3>1. CASE aborted[r]
      <4>1. UNCHANGED <<conn, ends>>
        BY <1>4, <3>1 DEF RunDeferred
      <4>2. ~(conn[r] \in {"none", "reading"})
        BY <1>0, <3>1, Zenon DEF RequestInv
      <4>3. QED
        BY <1>0, <2>1, <4>1, <4>2 DEF HttpTypeOK, Leaves, EndsRight
    <3>2. CASE ~aborted[r]
      <4>1. conn[r] = "waiting" /\ ends[r] = 0
        BY <1>0, <2>1, <3>2, Zenon DEF RequestInv
      <4>2. conn' = [conn EXCEPT ![r] = AfterEnd] /\ ends' = [ends EXCEPT ![r] = ends[r] + 1]
        BY <1>4, <3>2 DEF RunDeferred
      <4>3. AfterEnd \in Connections /\ ~(AfterEnd \in {"none", "reading"})
        BY DEF AfterEnd, Connections
      <4>4. conn' \in [Requests -> Connections] /\ conn'[r] = AfterEnd
            /\ \A q \in Requests \ {r} : conn'[q] = conn[q]
        BY <1>0, <4>2, <4>3 DEF HttpTypeOK
      <4>5. ends' \in [Requests -> 0 .. 2] /\ \A q \in Requests \ {r} : ends'[q] = ends[q]
        BY <1>0, <4>1, <4>2, SMT DEF HttpTypeOK
      <4>6. QED
        BY <1>0, <2>1, <4>1, <4>3, <4>4, <4>5 DEF HttpTypeOK, Leaves, EndsRight
    <3>3. QED
      BY <3>1, <3>2
  <2>6. RequestInv(r)'
    BY <2>3, <2>4, <2>5, Zenon DEF RequestInv
  <2>7. QED
    BY <2>5, <2>6, OneRequest DEF HttpKept
<1>5. QED
  BY <1>1, <1>2, <1>3, <1>4

\* The tasks and the callbacks: a reply is queued at most once, and only for a task that is over.
LEMMA TaskKeeps ==
    ASSUME HttpInv, NEW r \in Requests, job[r] \in {"queued", "pending"},
           UNCHANGED <<conn, aborted, ends>>,
           \/ Finishes(r) /\ UNCHANGED <<replied, deferred>>
           \/ Finishes(r) /\ QueueResponse(r)
           \/ /\ \E state \in {"pending", "lost"} : job' = [job EXCEPT ![r] = state]
              /\ UNCHANGED <<replied, deferred>>
    PROVE  HttpKept
<1>0. HttpTypeOK /\ RequestInv(r)
  BY HttpInvOf DEF HttpInv
<1>1. job[r] # "none" /\ job[r] # "done"
  OBVIOUS
<1>2. ~replied[r] /\ ~deferred[r] /\ ~(conn[r] \in {"none", "reading"})
  BY <1>0, <1>1, Zenon DEF RequestInv
<1>3. ~aborted[r] => (conn[r] = "waiting" /\ ends[r] = 0)
  BY <1>0, Zenon DEF RequestInv
<1>4. conn'[r] = conn[r] /\ aborted'[r] = aborted[r] /\ ends'[r] = ends[r]
  OBVIOUS
<1>5. CASE Finishes(r) /\ QueueResponse(r)
  <2>1. replied' = [replied EXCEPT ![r] = TRUE] /\ deferred' = [deferred EXCEPT ![r] = TRUE]
    BY <1>2, <1>5 DEF QueueResponse
  <2>2. HttpTypeOK' /\ \A q \in Requests \ {r} : Leaves(q)
    BY <1>0, <1>5, <2>1 DEF HttpTypeOK, Leaves, Finishes, Jobs
  <2>3. job'[r] = "done" /\ replied'[r] /\ deferred'[r]
    BY <1>0, <1>5, <2>1 DEF HttpTypeOK, Finishes
  <2>4. ~(job'[r] \in {"queued", "pending"})
    BY <2>3
  <2>5. RequestInv(r)'
    BY <1>2, <1>3, <1>4, <2>3, <2>4, Zenon DEF RequestInv
  <2>6. EndsRight(r)
    BY <1>4 DEF EndsRight
  <2>7. QED
    BY <2>2, <2>5, <2>6, OneRequest DEF HttpKept
<1>6. CASE /\ UNCHANGED <<replied, deferred>>
           /\ \E state \in {"done", "pending", "lost"} : job' = [job EXCEPT ![r] = state]
  <2>1. HttpTypeOK' /\ \A q \in Requests \ {r} : Leaves(q)
    BY <1>0, <1>6 DEF HttpTypeOK, Leaves, Finishes, Jobs
  <2>2. ~replied'[r] /\ ~deferred'[r]
    BY <1>2, <1>6
  <2>3. RequestInv(r)'
    BY <1>2, <1>3, <1>4, <2>2, Zenon DEF RequestInv
  <2>4. EndsRight(r)
    BY <1>4 DEF EndsRight
  <2>5. QED
    BY <2>1, <2>3, <2>4, OneRequest DEF HttpKept
<1>7. QED
  BY <1>5, <1>6 DEF Finishes

\* Steps that are not of a request leave it as it is.
LEMMA HttpUnchanged ==
    ASSUME HttpInv, UNCHANGED httpVars
    PROVE  HttpKept
BY DEF HttpInv, HttpTypeOK, RepliesInv, EndsRight, HttpKept, httpVars

\* The steps that leave the limiter or the onion requests as they are.
LEMMA OthersUnchanged ==
    /\ LimiterInv /\ UNCHANGED limiterVars => LimiterInv'
    /\ OnionInv /\ UNCHANGED onionVars => OnionInv'
<1>1. LimiterInv /\ UNCHANGED limiterVars => LimiterInv'
  BY DEF LimiterInv, RateLimiterTypeOK, BucketsInv, limiterVars
<1>2. OnionInv /\ UNCHANGED onionVars => OnionInv'
  BY DEF OnionInv, OnionTypeOK, HopsInv, onionVars
<1>3. QED
  BY <1>1, <1>2

-----------------------------------------------------------------------------
(***************************************************************************)
(* The whole server.                                                       *)
(***************************************************************************)
MainTypeOK ==
    /\ main \in {"keys", "init", "start", "serving", "joining", "exited"}
    /\ signalled \in BOOLEAN /\ shutting_down \in BOOLEAN /\ closing \in BOOLEAN

\* The parts share no state but where main() is: their invariants are kept side by side.
ServerInv == LimiterInv /\ OnionInv /\ HttpInv /\ MainTypeOK

\* The server starts in the invariant.
LEMMA InitServer == Init => ServerInv
<1> SUFFICES ASSUME Init PROVE ServerInv
  OBVIOUS
<1>1. LimiterInv
  BY FillEmptyBucket, SMT DEF Init, RateLimiterInit, NoBuckets, LimiterInv, RateLimiterTypeOK,
                         BucketsInv
<1>2. OnionInv
  BY SMT DEF Init, OnionInit, OnionInv, OnionTypeOK, HopsInv, Doing
<1>3. HttpTypeOK
  BY SMT DEF Init, HttpTypeOK, Connections, Jobs
<1>4. RepliesInv
  BY DEF Init, RepliesInv
<1>5. QED
  BY <1>1, <1>2, <1>3, <1>4 DEF ServerInv, HttpInv, MainTypeOK, Init

\* A step of one request.
LEMMA RequestStepKeeps ==
    ASSUME ServerInv, NEW r \in Requests, RequestStep(r)
    PROVE  LimiterInv' /\ OnionInv' /\ HttpKept /\ MainTypeOK'
<1>0. LimiterInv /\ OnionInv /\ HttpInv
  BY DEF ServerInv
<1>1. MainTypeOK'
  <2>1. UNCHANGED mainVars
    BY DEF RequestStep, RespondWithoutTask, ProcessStorageRpcReq, ProcessOnionReqV2, BodyArrives,
           Abort, IdleTimeout, RunDeferred, RunTask, RunOnionTask, Callback, LoseCallback
  <2>2. QED
    BY <2>1 DEF mainVars, ServerInv, MainTypeOK
<1>2. CASE RespondWithoutTask(r)
  BY <1>0, <1>1, <1>2, RespondAtOnceKeeps, OthersUnchanged DEF RespondWithoutTask
<1>3. CASE ProcessStorageRpcReq(r)
  <2>1. OnionInv'
    BY <1>0, <1>3, OthersUnchanged DEF ProcessStorageRpcReq
  <2>2. HttpKept
    BY <1>0, <1>3, RespondAtOnceKeeps, HandleRequestKeeps, HandleBadLengthKeeps
       DEF ProcessStorageRpcReq
  <2>3. LimiterInv'
    <3>1. CASE UNCHANGED limiterVars
      BY <1>0, <3>1, OthersUnchanged
    <3>2. CASE ClientOf[r] # IPV6 /\ CountRequest(ClientOf[r])
      <4>1. ClientOf[r] \in Clients
        BY <3>2, HttpsAssumption
      <4>2. QED
        BY <1>0, <3>2, <4>1, CountRequestKeeps
    <3>3. QED
      BY <1>3, <3>1, <3>2 DEF ProcessStorageRpcReq
  <2>4. QED
    BY <1>1, <2>1, <2>2, <2>3
<1>4. CASE ProcessOnionReqV2(r)
  <2>1. HttpKept
    BY <1>0, <1>4, HandleRequestKeeps, HandleBadLengthKeeps DEF ProcessOnionReqV2
  <2>2. QED
    BY <1>0, <1>1, <1>4, <2>1, OthersUnchanged DEF ProcessOnionReqV2
<1>5. CASE BodyArrives(r) \/ Abort(r) \/ IdleTimeout(r) \/ RunDeferred(r)
  <2>1. UNCHANGED limiterVars /\ UNCHANGED onionVars
    BY <1>5 DEF BodyArrives, Abort, IdleTimeout, RunDeferred
  <2>2. QED
    BY <1>0, <1>1, <1>5, <2>1, EventLoopKeeps, OthersUnchanged
<1>6. CASE RunTask(r) \/ RunOnionTask(r) \/ Callback(r) \/ LoseCallback(r)
  <2>1. /\ job[r] \in {"queued", "pending"} /\ UNCHANGED <<conn, aborted, ends>>
        /\ \/ Finishes(r) /\ UNCHANGED <<replied, deferred>>
           \/ Finishes(r) /\ QueueResponse(r)
           \/ /\ \E state \in {"pending", "lost"} : job' = [job EXCEPT ![r] = state]
              /\ UNCHANGED <<replied, deferred>>
    BY <1>6 DEF RunTask, RunOnionTask, Callback, LoseCallback
  <2>2. HttpKept
    BY <1>0, <2>1, TaskKeeps
  <2>3. UNCHANGED limiterVars
    BY <1>6 DEF RunTask, RunOnionTask, Callback, LoseCallback
  <2>4. OnionInv'
    <3>1. \/ UNCHANGED onionVars
          \/ r \in Onions /\ (EndOnion(r) \/ \E hop_no \in FirstHops : StartOnion(r, hop_no))
      BY <1>6 DEF RunTask, RunOnionTask, Callback, LoseCallback
    <3>2. QED
      BY <1>0, <3>1, OnionKeeps, OthersUnchanged
  <2>5. QED
    BY <1>0, <1>1, <2>2, <2>3, <2>4, OthersUnchanged
<1>7. QED
  BY <1>2, <1>3, <1>4, <1>5, <1>6 DEF RequestStep

\* Every step keeps the invariant and writes responses as EndedOnce has it.
LEMMA StepServer ==
    ASSUME ServerInv, [Next]_vars
    PROVE  ServerInv' /\ \A q \in Requests : EndsRight(q)
<1>0. LimiterInv /\ OnionInv /\ HttpInv /\ MainTypeOK
  BY DEF ServerInv
<1> SUFFICES LimiterInv' /\ OnionInv' /\ HttpKept /\ MainTypeOK'
  BY DEF ServerInv, HttpKept
<1>1. CASE Signal \/ GetKeys \/ InitOmq \/ Start \/ Stop \/ CloseSockets \/ Join
  <2>1. UNCHANGED limiterVars /\ UNCHANGED onionVars /\ UNCHANGED httpVars
    BY <1>1 DEF Signal, GetKeys, InitOmq, Start, Stop, CloseSockets, Join
  <2>2. MainTypeOK'
    BY <1>0, <1>1 DEF Signal, GetKeys, InitOmq, Start, Stop, CloseSockets, Join, MainTypeOK
  <2>3. QED
    BY <1>0, <2>1, <2>2, HttpUnchanged, OthersUnchanged
<1>2. CASE \E r \in Requests : RequestStep(r)
  BY <1>2, RequestStepKeeps
<1>3. CASE \E r \in Onions : OnionRequest(r)
  <2>1. PICK r \in Onions : OnionRequest(r)
    BY <1>3
  <2>2. UNCHANGED limiterVars /\ UNCHANGED mainVars /\ UNCHANGED httpVars
    BY <2>1 DEF OnionRequest
  <2>3. OnionInv'
    BY <1>0, <2>1, OnionKeeps DEF OnionRequest
  <2>4. MainTypeOK'
    BY <1>0, <2>2 DEF mainVars, MainTypeOK
  <2>5. QED
    BY <1>0, <2>2, <2>3, <2>4, HttpUnchanged, OthersUnchanged
<1>4. CASE (\E ip \in Clients : OmqClientRequest(ip)) \/ LimiterTimer
  <2>1. UNCHANGED onionVars /\ UNCHANGED mainVars /\ UNCHANGED httpVars
    BY <1>4 DEF OmqClientRequest, LimiterTimer
  <2>2. LimiterInv'
    BY <1>0, <1>4, CountRequestKeeps, LimiterTimerKeeps DEF OmqClientRequest, LimiterTimer
  <2>3. MainTypeOK'
    BY <1>0, <2>1 DEF mainVars, MainTypeOK
  <2>4. QED
    BY <1>0, <2>1, <2>2, <2>3, HttpUnchanged, OthersUnchanged
<1>5. CASE UNCHANGED vars
  <2>1. /\ UNCHANGED limiterVars /\ UNCHANGED onionVars /\ UNCHANGED mainVars
        /\ UNCHANGED httpVars
    BY <1>5 DEF vars
  <2>2. MainTypeOK'
    BY <1>0, <2>1 DEF mainVars, MainTypeOK
  <2>3. QED
    BY <1>0, <2>1, <2>2, HttpUnchanged, OthersUnchanged
<1>6. QED
  BY <1>1, <1>2, <1>3, <1>4, <1>5 DEF Next

\* The invariant holds in every state.
LEMMA ServerInvariant == Spec => []ServerInv
<1>1. Init => ServerInv
  BY InitServer
<1>2. ServerInv /\ [Next]_vars => ServerInv'
  BY StepServer
<1>3. QED
  BY <1>1, <1>2, PTL DEF Spec

\* The server's state is well formed: no request is answered more than the type allows, no
\* bucket overflows and no request is in a state that the code does not have.
THEOREM ServerTypeCorrect == Spec => []TypeOK
<1>1. ServerInv => TypeOK
  BY DEF ServerInv, LimiterInv, OnionInv, HttpInv, HttpTypeOK, MainTypeOK, TypeOK, Connections,
         Jobs, Open
<1>2. QED
  BY <1>1, ServerInvariant, PTL

\* No onion request visits more nodes than its limit allows (send_onion_to_sn, decode_onion_data
\* and handle_onion_request), whatever hop number its client gave to the edge node.
THEOREM OnionsEnd == Spec => []HopsBounded
<1>1. ServerInv => HopsBounded
  BY OnionInvBounds DEF ServerInv
<1>2. QED
  BY <1>1, ServerInvariant, PTL

\* A client gets through again one token period after its last request that did (fill_bucket,
\* remove_token and clean_buckets of the rate limiter), with its bucket or without, unless
\* MAX_CLIENTS others have used their tokens within the time that fills a bucket.
THEOREM LimitsEnd == Spec => []LimitIsLifted
<1>1. ServerInv => LimitIsLifted
  BY LimiterInvLifts DEF ServerInv
<1>2. QED
  BY <1>1, ServerInvariant, PTL

\* The response of a request is written once, to a connection that is open (queue_response and
\* its lambda on the event loop), whatever comes in between.
THEOREM RespondsOnce == Spec => EndedOnce
<1>1. ServerInv /\ [Next]_vars
      => [\A r \in Requests :
             ends'[r] # ends[r] => (ends[r] = 0 /\ conn[r] \in {"none", "waiting"})]_vars
  BY StepServer DEF EndsRight
<1>2. QED
  BY <1>1, ServerInvariant, PTL DEF Spec, EndedOnce

=============================================================================
