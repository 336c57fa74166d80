------------------------------ MODULE Database ------------------------------
(***************************************************************************)
(* The message database of one storage server (oxenss/storage/database.cpp)*)
(* at the level of its SQL: the tables owners, messages and                *)
(* revoked_subkeys, their triggers, and one action per public operation    *)
(* that changes them.  Every operation is one SQL statement or one         *)
(* transaction.  A row is a record; a table is a set of rows.              *)
(*                                                                         *)
(* Row ids are SQLite's (INTEGER PRIMARY KEY without AUTOINCREMENT): the   *)
(* next id is one more than the largest id in the table, so the ids of     *)
(* deleted rows are used again.  A message's hash covers its owner's       *)
(* pubkey (computeMessageHash), hence the constant HashOwner.              *)
(***************************************************************************)
EXTENDS Integers, FiniteSets, FiniteSetsExt

CONSTANTS
    Pubkeys,      \* account pubkeys (type and pubkey bytes together)
    Namespaces,   \* namespace_id values
    Hashes,       \* message hashes
    Subkeys,      \* subkey tags
    HashOwner,    \* the pubkey that a hash was computed over
    Attributes,   \* what a message brings along: [ns, timestamp, expiry]
    MaxTime,      \* bound on the clock and on every timestamp and expiry
    MaxId,        \* bound on row ids
    MaxRows,      \* how many messages fit in SIZE_LIMIT
    SubkeyLimit   \* revocations kept per owner (50 in the schema)

ASSUME HashOwnerAssumption == HashOwner \in [Hashes -> Pubkeys]
ASSUME BoundsAssumption == /\ MaxTime \in Nat
                           /\ MaxId \in Nat
                           /\ MaxRows \in Nat
                           /\ SubkeyLimit \in Nat \ {0}
ASSUME AttributesAssumption ==
    Attributes \subseteq [ns : Namespaces, timestamp : 0 .. MaxTime, expiry : 0 .. MaxTime]

VARIABLES
    owners,            \* rows [id, pubkey]
    messages,          \* rows [id, hash, owner, ns, timestamp, expiry]
    revoked_subkeys,   \* rows [owner, subkey, timestamp]; owner NULL allowed
    now                \* the system clock

dbVars == <<owners, messages, revoked_subkeys, now>>

Time == 0 .. MaxTime
RowId == 1 .. MaxId

\* SQL's NULL as an owner id; row ids start at 1.
NULL == 0

OwnerRow == [id : RowId, pubkey : Pubkeys]
MessageRow == [id : RowId, hash : Hashes, owner : RowId, ns : Namespaces,
               timestamp : Time, expiry : Time]
RevokedRow == [owner : RowId \cup {NULL}, subkey : Subkeys, timestamp : Time]

\* Mutant of Expired: the comparison with the clock is the wrong way round.
ExpiredReversed(t) == {m \in messages : m.expiry >= t}

\* What clean_expired removes at time t.
Expired(t) == {m \in messages : m.expiry <= t}

\* Mutant of OwnedBy: the owner is left out of the WHERE clause.
OwnedByAnyone(pk) == messages

\* WHERE owner = (SELECT id FROM owners WHERE pubkey = ? AND type = ?)
OwnedBy(pk) == {m \in messages : \E o \in owners : o.id = m.owner /\ o.pubkey = pk}

IsStored(h) == \E m \in messages : m.hash = h

OwnerIdSet == {o.id : o \in owners}
MessageIdSet == {m.id : m \in messages}

\* Mutant of NextRowId: ids count the rows.
NextRowIdByCount(S) == Cardinality(S) + 1

\* Mutant of NextRowId: the lowest id that is free.
NextRowIdFirstFree(S) == Min((1 .. Cardinality(S) + 1) \ S)

\* The id SQLite gives to the next row of a table whose ids are S.
NextRowId(S) == IF S = {} THEN 1 ELSE Max(S) + 1

Init ==
    /\ owners = {}
    /\ messages = {}
    /\ revoked_subkeys = {}
    /\ now = 0

(***************************************************************************)
(* Inserting.  Ids of new rows follow the ids in use without a gap; which  *)
(* new row comes first depends on the order of the batch.                  *)
(***************************************************************************)
FreshIds(S, used) ==
    {f \in [S -> RowId] :
        /\ \A x, y \in S : f[x] = f[y] => x = y
        /\ \A x \in S : /\ f[x] >= NextRowId(used)
                        /\ f[x] = NextRowId(used) \/ \E y \in S : f[y] = f[x] - 1}

\* Adds the messages H, none of them stored, with the attributes attr, and the
\* owners among them that have no row.
InsertMessages(H, attr) ==
    LET missing == {HashOwner[h] : h \in H} \ {o.pubkey : o \in owners}
    IN  \E oid \in FreshIds(missing, OwnerIdSet), mid \in FreshIds(H, MessageIdSet) :
            /\ owners' = owners \cup {[id |-> oid[pk], pubkey |-> pk] : pk \in missing}
            /\ messages' = messages \cup
                   {[id |-> mid[h], hash |-> h,
                     owner |-> (CHOOSE o \in owners' : o.pubkey = HashOwner[h]).id,
                     ns |-> attr[h].ns, timestamp |-> attr[h].timestamp,
                     expiry |-> attr[h].expiry] : h \in H}
            /\ UNCHANGED <<revoked_subkeys, now>>

\* store of a message that is not there yet (answers true).
StoreNew(h, a) ==
    /\ ~IsStored(h)
    /\ Cardinality(messages) < MaxRows
    /\ InsertMessages({h}, [x \in {h} |-> a])

\* store of a message whose hash is in the table: SQLITE_CONSTRAINT undoes the
\* owner the trigger may have inserted (answers false).  store of a message that
\* does not fit: SQLITE_FULL (answers nullopt).
StoreRefused(h) ==
    /\ IsStored(h) \/ Cardinality(messages) >= MaxRows
    /\ UNCHANGED dbVars

\* One transaction: messages that conflict are left out, and the whole batch is
\* rolled back when it does not fit.
BulkStore(H, attr) ==
    LET new == {h \in H : ~IsStored(h)}
    IN  IF Cardinality(messages) + Cardinality(new) <= MaxRows
        THEN InsertMessages(new, attr)
        ELSE UNCHANGED dbVars

(***************************************************************************)
(* Deleting.  The trigger owner_autoclean removes an owner with its last   *)
(* message, and ON DELETE CASCADE the revocations recorded for it.         *)
(***************************************************************************)
\* Mutant of Orphaned: the trigger owner_autoclean is not installed.
OrphanedNever(S) == {}

\* Mutant of Orphaned: owner_autoclean without its WHEN NOT EXISTS clause.
OrphanedEagerly(S) == {o \in owners : \E m \in S : m.owner = o.id}

Orphaned(S) ==
    {o \in owners : /\ \E m \in S : m.owner = o.id
                    /\ \A m \in messages \ S : m.owner # o.id}

\* Mutant of DeleteMessages: revoked_subkeys without ON DELETE CASCADE.
DeleteWithoutCascade(S) ==
    /\ messages' = messages \ S
    /\ owners' = owners \ Orphaned(S)
    /\ UNCHANGED <<revoked_subkeys, now>>

DeleteMessages(S) ==
    /\ messages' = messages \ S
    /\ owners' = owners \ Orphaned(S)
    /\ revoked_subkeys' =
           {r \in revoked_subkeys : \A o \in Orphaned(S) : r.owner # o.id}
    /\ UNCHANGED now

CleanExpired == DeleteMessages(Expired(now))

\* delete_all, for one namespace or for all of them (N = Namespaces).
DeleteAll(pk, N) == DeleteMessages({m \in OwnedBy(pk) : m.ns \in N})

DeleteByHash(pk, H) == DeleteMessages({m \in OwnedBy(pk) : m.hash \in H})

DeleteByTimestamp(pk, N, t) ==
    DeleteMessages({m \in OwnedBy(pk) : m.ns \in N /\ m.timestamp <= t})

(***************************************************************************)
(* Changing expiries.                                                      *)
(***************************************************************************)
\* Mutant of SetExpiry: the new expiry is taken for a time to live.
SetExpiryRelative(S, e) ==
    /\ messages' = (messages \ S) \cup {[m EXCEPT !.expiry = now + e] : m \in S}
    /\ UNCHANGED <<owners, revoked_subkeys, now>>

SetExpiry(S, e) ==
    /\ messages' = (messages \ S) \cup {[m EXCEPT !.expiry = e] : m \in S}
    /\ UNCHANGED <<owners, revoked_subkeys, now>>

ExpiryModes == {"any", "extend_only", "shorten_only"}

UpdateExpiry(pk, H, e, mode) ==
    SetExpiry({m \in OwnedBy(pk) : /\ m.hash \in H
                                   /\ mode = "extend_only" => m.expiry < e
                                   /\ mode = "shorten_only" => m.expiry > e}, e)

UpdateAllExpiries(pk, N, e) ==
    SetExpiry({m \in OwnedBy(pk) : m.ns \in N /\ m.expiry > e}, e)

(***************************************************************************)
(* Revoking a subkey.  The subselect yields NULL for an account without    *)
(* messages; NULL never conflicts and never matches in subkey_autoclean.   *)
(* A subkey already revoked for the owner keeps its old timestamp.         *)
(***************************************************************************)
OwnerOrNull(pk) ==
    IF \E o \in owners : o.pubkey = pk
    THEN (CHOOSE o \in owners : o.pubkey = pk).id
    ELSE NULL

\* subkey_autoclean: the SubkeyLimit most recent rows of an owner stay.
Recent(rows) ==
    {K \in SUBSET rows :
        /\ Cardinality(K) = IF Cardinality(rows) > SubkeyLimit
                            THEN SubkeyLimit ELSE Cardinality(rows)
        /\ \A k \in K, r \in rows \ K : r.timestamp <= k.timestamp}

\* Mutant of RevokeSubkey: subkey_autoclean deletes without looking at the owner.
RevokeSubkeyUnscoped(pk, sk) ==
    LET id == OwnerOrNull(pk)
        mine == {r \in revoked_subkeys : r.owner = id}
        row == [owner |-> id, subkey |-> sk, timestamp |-> now]
    IN  /\ id # NULL /\ \A r \in mine : r.subkey # sk
        /\ \E K \in Recent(mine \cup {row}) :
               revoked_subkeys' = {r \in revoked_subkeys \cup {row} :
                                      \/ Cardinality(mine) < SubkeyLimit
                                      \/ \E k \in K : k.subkey = r.subkey}
        /\ UNCHANGED <<owners, messages, now>>

RevokeSubkey(pk, sk) ==
    LET id == OwnerOrNull(pk)
        others == {r \in revoked_subkeys : r.owner # id}
        mine == {r \in revoked_subkeys : r.owner = id}
        row == [owner |-> id, subkey |-> sk, timestamp |-> now]
    IN  /\ IF id = NULL
           THEN revoked_subkeys' = revoked_subkeys \cup {row}
           ELSE IF \E r \in mine : r.subkey = sk
           THEN UNCHANGED revoked_subkeys
           ELSE \E K \in Recent(mine \cup {row}) : revoked_subkeys' = others \cup K
        /\ UNCHANGED <<owners, messages, now>>

\* subkey_revoked: whoever the owner is.
SubkeyRevoked(sk) == \E r \in revoked_subkeys : r.subkey = sk

Tick == /\ now < MaxTime
        /\ now' = now + 1
        /\ UNCHANGED <<owners, messages, revoked_subkeys>>

NamespaceArgs == {Namespaces} \cup {{n} : n \in Namespaces}

Next ==
    \/ \E h \in Hashes, a \in Attributes : StoreNew(h, a)
    \/ \E h \in Hashes : StoreRefused(h)
    \/ \E H \in SUBSET Hashes : \E attr \in [H -> Attributes] : BulkStore(H, attr)
    \/ CleanExpired
    \/ \E pk \in Pubkeys, N \in NamespaceArgs : DeleteAll(pk, N)
    \/ \E pk \in Pubkeys, H \in SUBSET Hashes : DeleteByHash(pk, H)
    \/ \E pk \in Pubkeys, N \in NamespaceArgs, t \in Time : DeleteByTimestamp(pk, N, t)
    \/ \E pk \in Pubkeys, H \in SUBSET Hashes, e \in Time, mode \in ExpiryModes :
           UpdateExpiry(pk, H, e, mode)
    \/ \E pk \in Pubkeys, N \in NamespaceArgs, e \in Time : UpdateAllExpiries(pk, N, e)
    \/ \E pk \in Pubkeys, sk \in Subkeys : RevokeSubkey(pk, sk)
    \/ Tick

\* clean_expired runs from a timer every CLEANUP_PERIOD.
Spec == Init /\ [][Next]_dbVars /\ WF_dbVars(CleanExpired)

-----------------------------------------------------------------------------
(***************************************************************************)
(* Properties.                                                             *)
(***************************************************************************)

TypeOK ==
    /\ owners \subseteq OwnerRow
    /\ messages \subseteq MessageRow
    /\ revoked_subkeys \subseteq RevokedRow
    /\ now \in Time

\* The uniqueness constraints of the schema: they are SQLite's to enforce, and
\* the other properties rest on them.
KeysUnique ==
    /\ \A m, n \in messages : m.id = n.id \/ m.hash = n.hash => m = n
    /\ \A o, p \in owners : o.id = p.id \/ o.pubkey = p.pubkey => o = p

\* owner REFERENCES owners(id), kept by the triggers' order of deletions.
ReferencesHold ==
    /\ \A m \in messages : \E o \in owners : o.id = m.owner
    /\ \A r \in revoked_subkeys : r.owner = NULL \/ \E o \in owners : o.id = r.owner

\* An owner row lives exactly as long as the account has messages: get_owner_count
\* "Returns the number of distinct owner pubkeys with stored messages".  Neither
\* bulk_store's early insertion of owners nor any order of deletions leaves an
\* owner without messages behind.
OwnersHaveMessages == \A o \in owners : \E m \in messages : m.owner = o.id

\* Although owner ids are used again after owner_autoclean, a message is never
\* attributed to an account other than the one it was stored for.
MessagesKeepOwner ==
    \A m \in messages, o \in owners : m.owner = o.id => o.pubkey = HashOwner[m.hash]

\* The invariant behind the others: keys are unique and references hold, so an
\* owner row and the messages that name its id always speak of one account.
IInv ==
    /\ TypeOK
    /\ KeysUnique
    /\ ReferencesHold
    /\ OwnersHaveMessages
    /\ MessagesKeepOwner

\* What the revocation table keeps, step by step: a revocation goes only together
\* with the owner row it hangs on, or when SubkeyLimit revocations of the same
\* owner that are at least as recent push it out.  One that was made while the account
\* had no messages hangs on no owner, and never goes.
RevocationKept ==
    [][\A r \in revoked_subkeys \ revoked_subkeys' :
          /\ r.owner # NULL
          /\ \/ \A o \in owners' : o.id # r.owner
             \/ Cardinality({q \in revoked_subkeys' :
                    q.owner = r.owner /\ q.timestamp >= r.timestamp}) >= SubkeyLimit]_dbVars

\* A message past its expiry does not stay expired in the table for ever: the
\* cleanup removes it unless its expiry is moved first.
ExpiredGoes ==
    \A h \in Hashes : (\E m \in messages : m.hash = h /\ m.expiry <= now)
                          ~> ~(\E m \in messages : m.hash = h /\ m.expiry <= now)

\* The mailbox that the tables represent: row ids and owner ids are forgotten,
\* since the hash names the account.
ItemOf(m) == [hash |-> m.hash, ns |-> m.ns, timestamp |-> m.timestamp, expiry |-> m.expiry]
Stored == {ItemOf(m) : m \in messages}

MB == INSTANCE Mailbox WITH stored <- Stored

\* The tables, triggers and reused row ids implement the mailbox of database.hpp:
\* no operation on one account touches another's messages, expiry removes exactly
\* what has expired, and nothing of a message but its expiry ever changes.
ImplementsMailbox == MB!Spec
=============================================================================
