--------------------------- MODULE DatabaseProofs ---------------------------
(***************************************************************************)
(* Proofs about Database and about Retrieve, a client that pages through   *)
(* it, for every choice of their constants.                                *)
(***************************************************************************)
EXTENDS Retrieve, WellFoundedInduction, FiniteSetTheorems, TLAPS

\* The prover of every leaf that does not name another.
USE Zenon

(***************************************************************************)
(* SQLite's choice of a row id.                                            *)
(***************************************************************************)

\* A set of row ids that is not empty has a largest element: the ids are bounded
\* by MaxId, and the smallest distance from MaxId belongs to the largest id.
LEMMA MaxRowId ==
    ASSUME NEW S \in SUBSET RowId, S # {}
    PROVE  Max(S) \in S /\ \A i \in S : i <= Max(S)
<1> DEFINE T == {n \in Nat : \E i \in S : n = MaxId - i}
<1>1. T \subseteq Nat /\ T # {}
  <2>1. PICK i \in S : TRUE
    OBVIOUS
  <2>2. MaxId - i \in Nat
    BY BoundsAssumption, SMT DEF RowId
  <2>3. MaxId - i \in T
    BY <2>2
  <2>4. QED
    BY <2>3
<1>2. PICK x \in T : \A y \in T : ~(<<y, x>> \in OpToRel(<, Nat))
  BY <1>1, NatLessThanWellFounded, WFMin
<1>3. \A y \in T : ~(y < x)
  BY <1>1, <1>2 DEF OpToRel
<1>4. PICK i \in S : x = MaxId - i
  OBVIOUS
<1>5. \A j \in S : i >= j
  BY <1>3, <1>4, BoundsAssumption, SMT DEF RowId
<1>6. QED
  BY <1>5 DEF Max, RowId

\* A new row's id is larger than every id in the table (rowids are reused only from
\* the top), whatever rows were deleted before.
LEMMA NextRowIdAbove ==
    ASSUME NEW S \in SUBSET RowId
    PROVE  /\ NextRowId(S) \in Nat \ {0}
           /\ \A i \in S : i < NextRowId(S)
<1>1. CASE S = {}
  BY <1>1, SMT DEF NextRowId
<1>2. CASE S # {}
  <2>1. Max(S) \in S /\ \A i \in S : i <= Max(S)
    BY <1>2, MaxRowId
  <2>2. NextRowId(S) = Max(S) + 1
    BY <1>2 DEF NextRowId
  <2>3. \A i \in S : i \in Int /\ i >= 1
    BY BoundsAssumption, SMT DEF RowId
  <2>4. Max(S) + 1 \in Nat \ {0} /\ \A i \in S : i < Max(S) + 1
    BY <2>1, <2>3, SMT
  <2>5. QED
    BY <2>2, <2>4
<1>3. QED
  BY <1>1, <1>2

(***************************************************************************)
(* The statements that change the tables preserve the invariant.           *)
(***************************************************************************)

\* Inserting (store, bulk_store): new ids are fresh, and every new message names
\* the row of the account its hash was computed over.
LEMMA InsertPreserves ==
    ASSUME IInv, NEW H \in SUBSET Hashes, \A h \in H : ~IsStored(h),
           NEW attr, \A h \in H : attr[h] \in Attributes,
           InsertMessages(H, attr)
    PROVE  IInv'
<1> USE DEF IInv
<1> DEFINE missing == {HashOwner[h] : h \in H} \ {o.pubkey : o \in owners}
<1>1. PICK oid \in FreshIds(missing, OwnerIdSet), mid \in FreshIds(H, MessageIdSet) :
          /\ owners' = owners \cup {[id |-> oid[pk], pubkey |-> pk] : pk \in missing}
          /\ messages' = messages \cup
                 {[id |-> mid[h], hash |-> h,
                   owner |-> (CHOOSE o \in owners' : o.pubkey = HashOwner[h]).id,
                   ns |-> attr[h].ns, timestamp |-> attr[h].timestamp,
                   expiry |-> attr[h].expiry] : h \in H}
          /\ UNCHANGED <<revoked_subkeys, now>>
  BY DEF InsertMessages
<1> DEFINE OwnerOf(h) == CHOOSE o \in owners' : o.pubkey = HashOwner[h]
           Row(h) == [id |-> mid[h], hash |-> h, owner |-> OwnerOf(h).id,
                      ns |-> attr[h].ns, timestamp |-> attr[h].timestamp,
                      expiry |-> attr[h].expiry]
<1>2. missing \subseteq Pubkeys
  BY HashOwnerAssumption
<1>3. /\ oid \in [missing -> RowId]
      /\ \A x, y \in missing : oid[x] = oid[y] => x = y
      /\ \A x \in missing, o \in owners : o.id < oid[x]
  <2>1. OwnerIdSet \in SUBSET RowId
    BY DEF OwnerIdSet, TypeOK, OwnerRow
  <2>2. \A i \in OwnerIdSet : i < NextRowId(OwnerIdSet)
    BY <2>1, NextRowIdAbove
  <2>3. NextRowId(OwnerIdSet) \in Nat
    BY <2>1, NextRowIdAbove
  <2>4. /\ oid \in [missing -> RowId]
        /\ \A x, y \in missing : oid[x] = oid[y] => x = y
        /\ \A x \in missing : oid[x] >= NextRowId(OwnerIdSet)
    BY <1>1 DEF FreshIds
  <2>5. \A o \in owners : o.id \in OwnerIdSet
    BY DEF OwnerIdSet
  <2>6. \A i \in RowId : i \in Int
    BY BoundsAssumption, SMT DEF RowId
  <2>7. \A x \in missing, i \in OwnerIdSet : i < oid[x]
    BY <2>1, <2>2, <2>3, <2>4, <2>6, SMT
  <2>8. QED
    BY <2>4, <2>5, <2>7
<1>4. /\ mid \in [H -> RowId]
      /\ \A x, y \in H : mid[x] = mid[y] => x = y
      /\ \A x \in H, m \in messages : m.id < mid[x]
  <2>1. MessageIdSet \in SUBSET RowId
    BY DEF MessageIdSet, TypeOK, MessageRow
  <2>2. \A i \in MessageIdSet : i < NextRowId(MessageIdSet)
    BY <2>1, NextRowIdAbove
  <2>3. NextRowId(MessageIdSet) \in Nat
    BY <2>1, NextRowIdAbove
  <2>4. /\ mid \in [H -> RowId]
        /\ \A x, y \in H : mid[x] = mid[y] => x = y
        /\ \A x \in H : mid[x] >= NextRowId(MessageIdSet)
    BY <1>1 DEF FreshIds
  <2>5. \A m \in messages : m.id \in MessageIdSet
    BY DEF MessageIdSet
  <2>6. \A i \in RowId : i \in Int
    BY BoundsAssumption, SMT DEF RowId
  <2>7. \A x \in H, i \in MessageIdSet : i < mid[x]
    BY <2>1, <2>2, <2>3, <2>4, <2>6, SMT
  <2>8. QED
    BY <2>4, <2>5, <2>7
<1>5. owners' \subseteq OwnerRow
  BY <1>1, <1>2, <1>3, SMT DEF TypeOK, OwnerRow
<1>6. \A o, p \in owners' : o.id = p.id \/ o.pubkey = p.pubkey => o = p
  <2> SUFFICES ASSUME NEW o \in owners', NEW p \in owners',
                      o.id = p.id \/ o.pubkey = p.pubkey
               PROVE  o = p
    OBVIOUS
  <2>1. CASE o \in owners /\ p \in owners
    BY <2>1 DEF KeysUnique
  <2>2. CASE o \in owners /\ p \notin owners
    BY <2>2, <1>1, <1>3, SMT DEF TypeOK, OwnerRow, RowId
  <2>3. CASE o \notin owners /\ p \in owners
    BY <2>3, <1>1, <1>3, SMT DEF TypeOK, OwnerRow, RowId
  <2>4. CASE o \notin owners /\ p \notin owners
    BY <2>4, <1>1, <1>3, SMT
  <2>5. QED
    BY <2>1, <2>2, <2>3, <2>4
<1>7. \A h \in H : OwnerOf(h) \in owners' /\ OwnerOf(h).pubkey = HashOwner[h]
  <2> SUFFICES ASSUME NEW h \in H
               PROVE  \E o \in owners' : o.pubkey = HashOwner[h]
    OBVIOUS
  <2>1. CASE HashOwner[h] \in missing
    <3>1. [id |-> oid[HashOwner[h]], pubkey |-> HashOwner[h]] \in owners'
      BY <2>1, <1>1
    <3>2. QED
      BY <3>1
  <2>2. CASE HashOwner[h] \notin missing
    BY <2>2, <1>1
  <2>3. QED
    BY <2>1, <2>2
<1>8. messages' = messages \cup {Row(h) : h \in H}
  BY <1>1
<1> HIDE DEF OwnerOf
<1>9. \A h \in H : Row(h) \in MessageRow
  BY <1>4, <1>5, <1>7, AttributesAssumption DEF MessageRow, OwnerRow, Time
<1>10. TypeOK'
  BY <1>1, <1>5, <1>8, <1>9 DEF TypeOK
<1>11. \A m, n \in messages' : m.id = n.id \/ m.hash = n.hash => m = n
  <2> SUFFICES ASSUME NEW m \in messages', NEW n \in messages',
                      m.id = n.id \/ m.hash = n.hash
               PROVE  m = n
    OBVIOUS
  <2>1. CASE m \in messages /\ n \in messages
    BY <2>1 DEF KeysUnique
  <2>2. CASE m \in messages /\ n \notin messages
    BY <2>2, <1>4, <1>8, SMT DEF TypeOK, MessageRow, RowId, IsStored
  <2>3. CASE m \notin messages /\ n \in messages
    BY <2>3, <1>4, <1>8, SMT DEF TypeOK, MessageRow, RowId, IsStored
  <2>4. CASE m \notin messages /\ n \notin messages
    BY <2>4, <1>4, <1>8, SMT
  <2>5. QED
    BY <2>1, <2>2, <2>3, <2>4
<1>12. ReferencesHold'
  BY <1>1, <1>7, <1>8, SMT DEF ReferencesHold
<1>13. OwnersHaveMessages'
  <2> SUFFICES ASSUME NEW o \in owners'
               PROVE  \E m \in messages' : m.owner = o.id
    BY DEF OwnersHaveMessages
  <2>1. CASE o \in owners
    BY <2>1, <1>8 DEF OwnersHaveMessages
  <2>2. CASE o \notin owners
    <3>1. PICK pk \in missing : o = [id |-> oid[pk], pubkey |-> pk]
      BY <2>2, <1>1
    <3>2. PICK h \in H : HashOwner[h] = pk
      OBVIOUS
    <3>3. OwnerOf(h) = o
      BY <3>1, <3>2, <1>6, <1>7
    <3>4. Row(h) \in messages' /\ Row(h).owner = o.id
      BY <3>3, <1>8
    <3>5. QED
      BY <3>4
  <2>3. QED
    BY <2>1, <2>2
<1>14. MessagesKeepOwner'
  <2> SUFFICES ASSUME NEW m \in messages', NEW o \in owners', m.owner = o.id
               PROVE  o.pubkey = HashOwner[m.hash]
    BY DEF MessagesKeepOwner
  <2>1. CASE m \in messages
    <3>1. PICK p \in owners : p.id = m.owner
      BY <2>1 DEF ReferencesHold
    <3>2. p = o
      BY <3>1, <1>1, <1>6
    <3>3. QED
      BY <2>1, <3>1, <3>2 DEF MessagesKeepOwner
  <2>2. CASE m \notin messages
    <3>1. PICK h \in H : m = Row(h)
      BY <2>2, <1>8
    <3>2. OwnerOf(h) = o
      BY <3>1, <1>6, <1>7
    <3>3. QED
      BY <3>1, <3>2, <1>7
  <2>3. QED
    BY <2>1, <2>2
<1>15. QED
  BY <1>6, <1>10, <1>11, <1>12, <1>13, <1>14 DEF KeysUnique

\* Deleting (clean_expired, delete_all, delete_by_hash, delete_by_timestamp): an
\* owner goes exactly with its last message.
LEMMA DeletePreserves ==
    ASSUME IInv, NEW S \in SUBSET messages, DeleteMessages(S)
    PROVE  IInv'
<1> USE DEF IInv
<1>1. /\ messages' = messages \ S
      /\ owners' = owners \ Orphaned(S)
      /\ revoked_subkeys' =
             {r \in revoked_subkeys : \A o \in Orphaned(S) : r.owner # o.id}
      /\ now' = now
  BY DEF DeleteMessages
<1>2. TypeOK'
  BY <1>1 DEF TypeOK
<1>3. KeysUnique'
  BY <1>1 DEF KeysUnique
<1>4. \A m \in messages' : \E o \in owners' : o.id = m.owner
  BY <1>1 DEF ReferencesHold, Orphaned
<1>5. ReferencesHold'
  BY <1>1, <1>4 DEF ReferencesHold
<1>6. OwnersHaveMessages'
  BY <1>1 DEF OwnersHaveMessages, Orphaned
<1>7. MessagesKeepOwner'
  BY <1>1 DEF MessagesKeepOwner
<1>8. QED
  BY <1>2, <1>3, <1>5, <1>6, <1>7

\* Updating expiries (update_expiry, update_all_expiries) leaves ids, hashes and
\* owners alone.
LEMMA SetExpiryPreserves ==
    ASSUME IInv, NEW S \in SUBSET messages, NEW e \in Time, SetExpiry(S, e)
    PROVE  IInv'
<1> USE DEF IInv
<1>1. /\ messages' = (messages \ S) \cup {[m EXCEPT !.expiry = e] : m \in S}
      /\ UNCHANGED <<owners, revoked_subkeys, now>>
  BY DEF SetExpiry
<1>2. \A m \in messages' : \E r \in messages :
          /\ m.id = r.id
          /\ m.hash = r.hash
          /\ m.owner = r.owner
          /\ m = IF r \in S THEN [r EXCEPT !.expiry = e] ELSE r
  <2> SUFFICES ASSUME NEW m \in messages'
               PROVE  \E r \in messages :
                          /\ m.id = r.id
                          /\ m.hash = r.hash
                          /\ m.owner = r.owner
                          /\ m = IF r \in S THEN [r EXCEPT !.expiry = e] ELSE r
    OBVIOUS
  <2>1. CASE m \in messages \ S
    BY <2>1
  <2>2. CASE m \notin messages \ S
    <3>1. PICK r \in S : m = [r EXCEPT !.expiry = e]
      BY <2>2, <1>1
    <3>2. r \in MessageRow
      BY DEF TypeOK
    <3>3. QED
      BY <3>1, <3>2 DEF MessageRow
  <2>3. QED
    BY <2>1, <2>2
<1>3. \A r \in messages : \E m \in messages' : m.owner = r.owner
  <2> SUFFICES ASSUME NEW r \in messages
               PROVE  \E m \in messages' : m.owner = r.owner
    OBVIOUS
  <2>1. CASE r \in S
    <3>1. [r EXCEPT !.expiry = e] \in messages'
      BY <2>1, <1>1
    <3>2. [r EXCEPT !.expiry = e].owner = r.owner
      BY DEF TypeOK, MessageRow
    <3>3. QED
      BY <3>1, <3>2
  <2>2. CASE r \notin S
    BY <2>2, <1>1
  <2>3. QED
    BY <2>1, <2>2
<1>4. TypeOK'
  <2>1. messages' \subseteq MessageRow
    BY <1>2, SMT DEF TypeOK, MessageRow
  <2>2. QED
    BY <1>1, <2>1 DEF TypeOK
<1>5. KeysUnique'
  BY <1>1, <1>2, SMT DEF KeysUnique
<1>6. ReferencesHold'
  BY <1>1, <1>2, SMT DEF ReferencesHold
<1>7. OwnersHaveMessages'
  BY <1>1, <1>3, ZenonT(60) DEF OwnersHaveMessages
<1>8. MessagesKeepOwner'
  BY <1>1, <1>2, SMT DEF MessagesKeepOwner
<1>9. QED
  BY <1>4, <1>5, <1>6, <1>7, <1>8

\* Revoking a subkey touches only revoked_subkeys, and records the id of an owner
\* row that exists, or NULL.
LEMMA RevokePreserves ==
    ASSUME IInv, NEW pk \in Pubkeys, NEW sk \in Subkeys, RevokeSubkey(pk, sk)
    PROVE  IInv'
<1> USE DEF IInv
<1> DEFINE id == OwnerOrNull(pk)
           row == [owner |-> id, subkey |-> sk, timestamp |-> now]
<1>1. id = NULL \/ \E o \in owners : o.id = id
  BY DEF OwnerOrNull
<1>2. row \in RevokedRow
  BY <1>1 DEF TypeOK, RevokedRow, OwnerRow
<1>3. revoked_subkeys' \subseteq revoked_subkeys \cup {row}
  BY DEF RevokeSubkey, Recent
<1>4. UNCHANGED <<owners, messages, now>>
  BY DEF RevokeSubkey
<1>5. TypeOK'
  BY <1>2, <1>3, <1>4 DEF TypeOK
<1>6. ReferencesHold'
  BY <1>1, <1>3, <1>4, SMT DEF ReferencesHold
<1>7. KeysUnique' /\ OwnersHaveMessages' /\ MessagesKeepOwner'
  BY <1>4 DEF KeysUnique, OwnersHaveMessages, MessagesKeepOwner
<1>8. QED
  BY <1>5, <1>6, <1>7

-----------------------------------------------------------------------------
(***************************************************************************)
(* The invariant holds in every state.                                     *)
(***************************************************************************)

\* An empty database satisfies the invariant.
LEMMA InitEstablishes == Init => IInv
BY BoundsAssumption, SMT DEF Init, IInv, TypeOK, KeysUnique, ReferencesHold,
    OwnersHaveMessages, MessagesKeepOwner, Time

\* Every operation of the database keeps the invariant.
LEMMA NextPreserves ==
    ASSUME IInv, [Next]_dbVars
    PROVE  IInv'
<1>1. ASSUME NEW h \in Hashes, NEW a \in Attributes, StoreNew(h, a)
      PROVE  IInv'
  <2> DEFINE attr == [x \in {h} |-> a]
  <2>1. InsertMessages({h}, attr) /\ \A x \in {h} : ~IsStored(x)
    BY <1>1 DEF StoreNew
  <2>2. \A x \in {h} : attr[x] \in Attributes
    OBVIOUS
  <2>3. QED
    BY <2>1, <2>2, InsertPreserves
<1>2. ASSUME NEW H \in SUBSET Hashes, NEW attr \in [H -> Attributes], BulkStore(H, attr)
      PROVE  IInv'
  <2> DEFINE new == {h \in H : ~IsStored(h)}
  <2>1. CASE InsertMessages(new, attr)
    BY <2>1, InsertPreserves
  <2>2. CASE UNCHANGED dbVars
    BY <2>2 DEF IInv, TypeOK, KeysUnique, ReferencesHold, OwnersHaveMessages,
        MessagesKeepOwner, dbVars
  <2>3. QED
    BY <1>2, <2>1, <2>2 DEF BulkStore
<1>3. ASSUME CleanExpired
      PROVE  IInv'
  BY <1>3, DeletePreserves DEF CleanExpired, Expired
<1>4. ASSUME NEW pk \in Pubkeys, NEW N \in NamespaceArgs, DeleteAll(pk, N)
      PROVE  IInv'
  BY <1>4, DeletePreserves DEF DeleteAll, OwnedBy
<1>5. ASSUME NEW pk \in Pubkeys, NEW H \in SUBSET Hashes, DeleteByHash(pk, H)
      PROVE  IInv'
  BY <1>5, DeletePreserves DEF DeleteByHash, OwnedBy
<1>6. ASSUME NEW pk \in Pubkeys, NEW N \in NamespaceArgs, NEW t \in Time,
             DeleteByTimestamp(pk, N, t)
      PROVE  IInv'
  BY <1>6, DeletePreserves DEF DeleteByTimestamp, OwnedBy
<1>7. ASSUME NEW pk \in Pubkeys, NEW H \in SUBSET Hashes, NEW e \in Time,
             NEW mode \in ExpiryModes, UpdateExpiry(pk, H, e, mode)
      PROVE  IInv'
  BY <1>7, SetExpiryPreserves DEF UpdateExpiry, OwnedBy
<1>8. ASSUME NEW pk \in Pubkeys, NEW N \in NamespaceArgs, NEW e \in Time,
             UpdateAllExpiries(pk, N, e)
      PROVE  IInv'
  BY <1>8, SetExpiryPreserves DEF UpdateAllExpiries, OwnedBy
<1>9. ASSUME NEW pk \in Pubkeys, NEW sk \in Subkeys, RevokeSubkey(pk, sk)
      PROVE  IInv'
  BY <1>9, RevokePreserves
<1>10. ASSUME Tick
       PROVE  IInv'
  <2>1. now' \in Time
    BY <1>10, BoundsAssumption, SMT DEF Tick, IInv, TypeOK, Time
  <2>2. QED
    BY <1>10, <2>1 DEF Tick, IInv, TypeOK, KeysUnique, ReferencesHold,
        OwnersHaveMessages, MessagesKeepOwner
<1>11. ASSUME UNCHANGED dbVars
       PROVE  IInv'
  BY <1>11 DEF IInv, TypeOK, KeysUnique, ReferencesHold, OwnersHaveMessages,
      MessagesKeepOwner, dbVars
<1>12. QED
  BY <1>1, <1>2, <1>3, <1>4, <1>5, <1>6, <1>7, <1>8, <1>9, <1>10, <1>11
     DEF Next, StoreRefused

\* In every reachable state of the database, for any sets of accounts, messages and
\* namespaces and any limits, the tables are well-formed: keys are unique,
\* references hold, owners are exactly the accounts with messages, and a message's
\* owner row is the row of the account it was stored for.
THEOREM DatabaseInvariant == Spec => []IInv
<1>1. Init => IInv
  BY InitEstablishes
<1>2. IInv /\ [Next]_dbVars => IInv'
  BY NextPreserves
<1>3. QED
  BY <1>1, <1>2, PTL DEF Spec

\* The rows of the three tables always have the columns and ranges of the schema.
THEOREM TypeCorrect == Spec => []TypeOK
<1>1. IInv => TypeOK
  BY DEF IInv
<1>2. QED
  BY <1>1, DatabaseInvariant, PTL

\* get_owner_count counts accounts with messages: no owner row is ever left behind.
THEOREM OwnersAlwaysHaveMessages == Spec => []OwnersHaveMessages
<1>1. IInv => OwnersHaveMessages
  BY DEF IInv
<1>2. QED
  BY <1>1, DatabaseInvariant, PTL

\* Reused owner ids never attribute a message to another account.
THEOREM MessagesAlwaysKeepOwner == Spec => []MessagesKeepOwner
<1>1. IInv => MessagesKeepOwner
  BY DEF IInv
<1>2. QED
  BY <1>1, DatabaseInvariant, PTL

-----------------------------------------------------------------------------
(***************************************************************************)
(* The tables implement the abstract mailbox.                              *)
(***************************************************************************)

\* What an account's WHERE clause selects belongs to the account in the mailbox.
LEMMA OwnedBelongs ==
    ASSUME IInv, NEW pk \in Pubkeys
    PROVE  /\ OwnedBy(pk) \subseteq messages
           /\ \A m \in OwnedBy(pk) : ItemOf(m) \in MB!BelongingTo(pk)
BY DEF OwnedBy, IInv, MessagesKeepOwner, MB!BelongingTo, Stored, ItemOf

\* Insertions are deposits.
LEMMA InsertDeposits ==
    ASSUME IInv', NEW H, NEW attr, InsertMessages(H, attr)
    PROVE  MB!Deposit
<1>1. messages \subseteq messages' /\ now' = now
  BY DEF InsertMessages
<1>2. Stored \subseteq Stored'
  BY <1>1 DEF Stored, ItemOf
<1>3. Stored' \subseteq MB!Item
  BY SMT DEF IInv, TypeOK, MessageRow, Stored, ItemOf, MB!Item, Time
<1>4. \A i, j \in Stored' : i.hash = j.hash => i = j
  BY SMT DEF IInv, KeysUnique, Stored, ItemOf
<1>5. QED
  BY <1>1, <1>2, <1>3, <1>4 DEF MB!Deposit

\* Deletions by an account remove messages of that account only.
LEMMA DeleteRefines ==
    ASSUME IInv, NEW pk \in Pubkeys, NEW S \in SUBSET OwnedBy(pk), DeleteMessages(S)
    PROVE  MB!Delete(pk)
<1>1. messages' = messages \ S /\ now' = now
  BY DEF DeleteMessages
<1>2. Stored' \subseteq Stored
  BY <1>1 DEF Stored
<1>3. Stored \ Stored' \subseteq MB!BelongingTo(pk)
  <2> SUFFICES ASSUME NEW i \in Stored, i \notin Stored'
               PROVE  i \in MB!BelongingTo(pk)
    OBVIOUS
  <2>1. PICK m \in messages : i = ItemOf(m)
    BY DEF Stored
  <2>2. m \in S
    BY <1>1, <2>1 DEF Stored, ItemOf
  <2>3. QED
    BY <2>1, <2>2, OwnedBelongs
<1>4. QED
  BY <1>1, <1>2, <1>3 DEF MB!Delete

\* clean_expired removes exactly what has expired.
LEMMA CleanRefines ==
    ASSUME IInv, CleanExpired
    PROVE  MB!Expire
<1>1. messages' = {m \in messages : ~(m.expiry <= now)} /\ now' = now
  BY DEF CleanExpired, DeleteMessages, Expired
<1>2. \A m \in messages : m.expiry > now <=> ~(m.expiry <= now)
  BY BoundsAssumption, SMT DEF IInv, TypeOK, MessageRow, Time
<1>3. Stored' = {i \in Stored : i.expiry > now}
  BY <1>1, <1>2, SMT DEF Stored, ItemOf
<1>4. QED
  BY <1>1, <1>3 DEF MB!Expire

\* Updating expiries changes nothing else, and only for the account that asks.
LEMMA SetExpiryRefines ==
    ASSUME IInv, NEW pk \in Pubkeys, NEW e \in Time,
           NEW S \in SUBSET OwnedBy(pk), SetExpiry(S, e)
    PROVE  MB!Retime(pk, e)
<1> DEFINE T == {ItemOf(m) : m \in S}
<1>1. messages' = (messages \ S) \cup {[m EXCEPT !.expiry = e] : m \in S} /\ now' = now
  BY DEF SetExpiry
<1>2. S \subseteq messages /\ T \subseteq MB!BelongingTo(pk)
  BY OwnedBelongs
<1>3. \A m, n \in messages : ItemOf(m) = ItemOf(n) => m = n
  BY DEF IInv, KeysUnique, ItemOf
<1>4. \A m \in S : ItemOf([m EXCEPT !.expiry = e]) = [ItemOf(m) EXCEPT !.expiry = e]
  BY <1>2, SMT DEF IInv, TypeOK, MessageRow, ItemOf
<1>5. Stored' = {ItemOf(m) : m \in messages \ S} \cup {ItemOf([m EXCEPT !.expiry = e]) : m \in S}
  BY <1>1 DEF Stored
<1>6. {ItemOf(m) : m \in messages \ S} = Stored \ T
  BY <1>2, <1>3 DEF Stored
<1>7. {ItemOf([m EXCEPT !.expiry = e]) : m \in S} = {[i EXCEPT !.expiry = e] : i \in T}
  BY <1>4, ZenonT(60)
<1>8. QED
  BY <1>1, <1>2, <1>5, <1>6, <1>7 DEF MB!Retime

\* Every step of the tables is a step of the mailbox or leaves it alone.
LEMMA StepRefines ==
    ASSUME IInv, IInv', [Next]_dbVars
    PROVE  [MB!Next]_(MB!mailboxVars)
<1>1. ASSUME NEW h \in Hashes, NEW a \in Attributes, StoreNew(h, a)
      PROVE  MB!Next
  BY <1>1, InsertDeposits DEF StoreNew, MB!Next
<1>2. ASSUME NEW H \in SUBSET Hashes, NEW attr \in [H -> Attributes], BulkStore(H, attr)
      PROVE  MB!Next \/ UNCHANGED dbVars
  BY <1>2, InsertDeposits DEF BulkStore, MB!Next
<1>3. ASSUME CleanExpired
      PROVE  MB!Next
  BY <1>3, CleanRefines DEF MB!Next
<1>4. ASSUME NEW pk \in Pubkeys, NEW S \in SUBSET OwnedBy(pk), DeleteMessages(S)
      PROVE  MB!Next
  BY <1>4, DeleteRefines DEF MB!Next
<1>5. ASSUME NEW pk \in Pubkeys, NEW e \in Time, NEW S \in SUBSET OwnedBy(pk),
             SetExpiry(S, e)
      PROVE  MB!Next
  BY <1>5, SetExpiryRefines DEF MB!Next, Time
<1>6. ASSUME NEW pk \in Pubkeys, NEW sk \in Subkeys, RevokeSubkey(pk, sk)
      PROVE  UNCHANGED <<messages, now>>
  BY <1>6 DEF RevokeSubkey
<1>7. ASSUME Tick
      PROVE  MB!Next
  BY <1>7 DEF Tick, MB!Tick, MB!Next, Stored
<1>8. UNCHANGED <<messages, now>> => UNCHANGED MB!mailboxVars
  BY DEF MB!mailboxVars, Stored
<1>9. UNCHANGED dbVars => UNCHANGED <<messages, now>>
  BY DEF dbVars
<1>10. ASSUME NEW pk \in Pubkeys, NEW N \in NamespaceArgs, DeleteAll(pk, N)
       PROVE  MB!Next
  BY <1>4, <1>10 DEF DeleteAll
<1>11. ASSUME NEW pk \in Pubkeys, NEW H \in SUBSET Hashes, DeleteByHash(pk, H)
       PROVE  MB!Next
  BY <1>4, <1>11 DEF DeleteByHash
<1>12. ASSUME NEW pk \in Pubkeys, NEW N \in NamespaceArgs, NEW t \in Time,
              DeleteByTimestamp(pk, N, t)
       PROVE  MB!Next
  BY <1>4, <1>12 DEF DeleteByTimestamp
<1>13. ASSUME NEW pk \in Pubkeys, NEW H \in SUBSET Hashes, NEW e \in Time,
              NEW mode \in ExpiryModes, UpdateExpiry(pk, H, e, mode)
       PROVE  MB!Next
  BY <1>5, <1>13 DEF UpdateExpiry
<1>14. ASSUME NEW pk \in Pubkeys, NEW N \in NamespaceArgs, NEW e \in Time,
              UpdateAllExpiries(pk, N, e)
       PROVE  MB!Next
  BY <1>5, <1>14 DEF UpdateAllExpiries
<1>15. QED
  BY <1>1, <1>2, <1>3, <1>6, <1>7, <1>8, <1>9, <1>10, <1>11, <1>12, <1>13, <1>14
     DEF Next, StoreRefused

\* The database implements the abstract mailbox: whatever accounts share it and in
\* whatever order they call, an operation affects only the messages of the account
\* it names, nothing but an expiry changes, and cleaning removes what has expired.
THEOREM DatabaseImplementsMailbox == Spec => ImplementsMailbox
<1>1. Init => MB!Init
  BY DEF Init, MB!Init, Stored
<1>2. IInv /\ IInv' /\ [Next]_dbVars => [MB!Next]_(MB!mailboxVars)
  BY StepRefines
<1>3. QED
  BY <1>1, <1>2, DatabaseInvariant, PTL DEF Spec, ImplementsMailbox, MB!Spec

-----------------------------------------------------------------------------
(***************************************************************************)
(* Revocations.                                                            *)
(***************************************************************************)

\* The table of revocations is finite, so that subkey_autoclean can count its rows.
RevokedFinite == IsFiniteSet(revoked_subkeys)

\* What subkey_autoclean leaves: everything while the limit is not exceeded, and
\* otherwise SubkeyLimit rows that are at least as recent as each row it removes.
LEMMA RecentKeeps ==
    ASSUME NEW rows, IsFiniteSet(rows), NEW K \in Recent(rows), NEW r \in rows \ K
    PROVE  /\ Cardinality(K) = SubkeyLimit
           /\ \A k \in K : r.timestamp <= k.timestamp
<1>1. K \in SUBSET rows /\ \A k \in K, q \in rows \ K : q.timestamp <= k.timestamp
  BY DEF Recent
<1>2. K # rows
  OBVIOUS
<1>3. Cardinality(rows) # Cardinality(K)
  BY <1>1, <1>2, FS_Subset
<1>4. Cardinality(K) = IF Cardinality(rows) > SubkeyLimit THEN SubkeyLimit ELSE Cardinality(rows)
  BY DEF Recent
<1>5. Cardinality(K) = SubkeyLimit
  BY <1>3, <1>4
<1>6. QED
  BY <1>1, <1>5

\* Every operation leaves finitely many revocations.
LEMMA RevokedStaysFinite ==
    ASSUME RevokedFinite, [Next]_dbVars
    PROVE  RevokedFinite'
<1>1. ASSUME NEW row, revoked_subkeys' \subseteq revoked_subkeys \cup {row}
      PROVE  RevokedFinite'
  <2>1. IsFiniteSet(revoked_subkeys \cup {row})
    BY FS_AddElement DEF RevokedFinite
  <2>2. QED
    BY <1>1, <2>1, FS_Subset DEF RevokedFinite
<1>2. ASSUME revoked_subkeys' \subseteq revoked_subkeys
      PROVE  RevokedFinite'
  BY <1>2, FS_Subset DEF RevokedFinite
<1>3. ASSUME NEW pk \in Pubkeys, NEW sk \in Subkeys, RevokeSubkey(pk, sk)
      PROVE  RevokedFinite'
  <2> DEFINE row == [owner |-> OwnerOrNull(pk), subkey |-> sk, timestamp |-> now]
  <2>1. revoked_subkeys' \subseteq revoked_subkeys \cup {row}
    BY <1>3 DEF RevokeSubkey, Recent
  <2>2. QED
    BY <1>1, <2>1
<1>4. ASSUME NEW H, NEW attr, InsertMessages(H, attr)
      PROVE  revoked_subkeys' = revoked_subkeys
  BY <1>4 DEF InsertMessages
<1>5. ASSUME NEW S, DeleteMessages(S)
      PROVE  revoked_subkeys' \subseteq revoked_subkeys
  BY <1>5 DEF DeleteMessages
<1>6. ASSUME NEW S, NEW e, SetExpiry(S, e)
      PROVE  revoked_subkeys' = revoked_subkeys
  BY <1>6 DEF SetExpiry
<1>7. QED
  BY <1>2, <1>3, <1>4, <1>5, <1>6 DEF Next, dbVars, StoreNew, StoreRefused, BulkStore,
     CleanExpired, DeleteAll, DeleteByHash, DeleteByTimestamp, UpdateExpiry,
     UpdateAllExpiries, Tick

\* What a revocation that leaves the table in a step has met: its owner row is gone,
\* or SubkeyLimit revocations of its owner that are no older are left.
Displaced(r) ==
    /\ r.owner # NULL
    /\ \/ \A o \in owners' : o.id # r.owner
       \/ Cardinality({q \in revoked_subkeys' :
              q.owner = r.owner /\ q.timestamp >= r.timestamp}) >= SubkeyLimit

\* ON DELETE CASCADE removes the revocations of the owners that owner_autoclean
\* removes, and no others.
LEMMA CascadeDisplaces ==
    ASSUME IInv, NEW S, DeleteMessages(S), NEW r \in revoked_subkeys \ revoked_subkeys'
    PROVE  Displaced(r)
<1>1. PICK o \in Orphaned(S) : r.owner = o.id
  BY DEF DeleteMessages
<1>2. o \in owners /\ o \notin owners'
  BY DEF DeleteMessages, Orphaned
<1>3. \A p \in owners' : p \in owners /\ p # o
  BY <1>2 DEF DeleteMessages
<1>4. \A p \in owners' : p.id # o.id
  BY <1>2, <1>3 DEF IInv, KeysUnique
<1>5. o.id # NULL
  BY <1>2, BoundsAssumption, SMT DEF IInv, TypeOK, OwnerRow, RowId, NULL
<1>6. QED
  BY <1>1, <1>4, <1>5 DEF Displaced

\* subkey_autoclean removes a revocation only for SubkeyLimit others of its owner.
LEMMA RevokeDisplaces ==
    ASSUME IInv, IInv', RevokedFinite, RevokedFinite',
           NEW pk \in Pubkeys, NEW sk \in Subkeys, RevokeSubkey(pk, sk),
           NEW r \in revoked_subkeys \ revoked_subkeys'
    PROVE  Displaced(r)
<1> DEFINE id == OwnerOrNull(pk)
           others == {q \in revoked_subkeys : q.owner # id}
           mine == {q \in revoked_subkeys : q.owner = id}
           row == [owner |-> id, subkey |-> sk, timestamp |-> now]
<1>0. id # NULL
  BY DEF RevokeSubkey
<1>1. PICK K \in Recent(mine \cup {row}) : revoked_subkeys' = others \cup K
  BY DEF RevokeSubkey
<1>2. r \in (mine \cup {row}) \ K /\ r.owner = id
  BY <1>1
<1>3. IsFiniteSet(mine \cup {row})
  <2>1. IsFiniteSet(mine)
    BY FS_Subset DEF RevokedFinite
  <2>2. QED
    BY <2>1, FS_AddElement
<1>4. K \subseteq mine \cup {row}
  BY <1>1 DEF Recent
<1>5. \A k \in K : k.owner = id /\ k \in revoked_subkeys'
  BY <1>1, <1>4, SMT
<1>6. Cardinality(K) = SubkeyLimit /\ \A k \in K : r.timestamp <= k.timestamp
  BY <1>1, <1>2, <1>3, RecentKeeps
<1>7. r.timestamp \in Int /\ \A k \in K : k.timestamp \in Int
  BY <1>5, BoundsAssumption, SMT DEF IInv, TypeOK, RevokedRow, Time
<1> DEFINE Q == {q \in revoked_subkeys' : q.owner = r.owner /\ q.timestamp >= r.timestamp}
<1>8. K \in SUBSET Q
  BY <1>2, <1>5, <1>6, <1>7
<1>9. IsFiniteSet(Q)
  BY FS_Subset DEF RevokedFinite
<1>10. Cardinality(K) <= Cardinality(Q) /\ Cardinality(Q) \in Nat
  BY <1>8, <1>9, FS_Subset, FS_CardinalityType
<1>11. Cardinality(Q) >= SubkeyLimit
  BY <1>6, <1>10, BoundsAssumption
<1>12. QED
  BY <1>0, <1>2, <1>11 DEF Displaced

\* No operation drops a revocation for another reason.
LEMMA StepDisplaces ==
    ASSUME IInv, IInv', RevokedFinite, RevokedFinite', [Next]_dbVars,
           NEW r \in revoked_subkeys \ revoked_subkeys'
    PROVE  Displaced(r)
<1>1. ASSUME NEW pk \in Pubkeys, NEW sk \in Subkeys, RevokeSubkey(pk, sk)
      PROVE  Displaced(r)
  BY <1>1, RevokeDisplaces
<1>2. ASSUME NEW H, NEW attr, InsertMessages(H, attr)
      PROVE  FALSE
  BY <1>2 DEF InsertMessages
<1>3. ASSUME NEW S, DeleteMessages(S)
      PROVE  Displaced(r)
  BY <1>3, CascadeDisplaces
<1>4. ASSUME NEW S, NEW e, SetExpiry(S, e)
      PROVE  FALSE
  BY <1>4 DEF SetExpiry
<1>5. QED
  BY <1>1, <1>2, <1>3, <1>4 DEF Next, dbVars, StoreNew, StoreRefused, BulkStore,
     CleanExpired, DeleteAll, DeleteByHash, DeleteByTimestamp, UpdateExpiry,
     UpdateAllExpiries, Tick

\* Whatever accounts revoke and delete, a revocation goes only with the owner row it
\* hangs on (ON DELETE CASCADE) or when SubkeyLimit revocations of the same owner
\* that are at least as recent remain (subkey_autoclean), and never without an owner.
THEOREM RevocationsKept == Spec => RevocationKept
<1>1. Init => RevokedFinite
  BY FS_EmptySet DEF Init, RevokedFinite
<1>2. RevokedFinite /\ [Next]_dbVars => RevokedFinite'
  BY RevokedStaysFinite
<1>3. Spec => []RevokedFinite
  BY <1>1, <1>2, PTL DEF Spec
<1>4. IInv /\ IInv' /\ RevokedFinite /\ RevokedFinite' /\ [Next]_dbVars
          => [\A r \in revoked_subkeys \ revoked_subkeys' :
                /\ r.owner # NULL
                /\ \/ \A o \in owners' : o.id # r.owner
                   \/ Cardinality({q \in revoked_subkeys' :
                          q.owner = r.owner /\ q.timestamp >= r.timestamp}) >= SubkeyLimit]_dbVars
  BY StepDisplaces DEF Displaced
<1>5. QED
  BY <1>3, <1>4, DatabaseInvariant, PTL DEF Spec, RevocationKept

-----------------------------------------------------------------------------
(***************************************************************************)
(* Paging by last_hash.                                                    *)
(***************************************************************************)

\* A row after an operation: it was there before, with the same id, hash and
\* namespace, or it is new, with an id above and a hash unlike all that were there.
Traced(m) ==
    \/ \E r \in messages : r.id = m.id /\ r.hash = m.hash /\ r.ns = m.ns
    \/ \A r \in messages : r.id < m.id /\ r.hash # m.hash

\* store and bulk_store put new rows above the old ones.
LEMMA InsertTraced ==
    ASSUME IInv, NEW H \in SUBSET Hashes, \A h \in H : ~IsStored(h),
           NEW attr, InsertMessages(H, attr), NEW m \in messages'
    PROVE  Traced(m)
<1>1. PICK mid \in FreshIds(H, MessageIdSet) :
          m \in messages \/ \E h \in H : m.id = mid[h] /\ m.hash = h
  BY SMT DEF InsertMessages
<1>2. CASE m \in messages
  BY <1>2 DEF Traced
<1>3. ASSUME NEW h \in H, m.id = mid[h], m.hash = h
      PROVE  Traced(m)
  <2>1. MessageIdSet \in SUBSET RowId
    BY DEF IInv, MessageIdSet, TypeOK, MessageRow
  <2>2. NextRowId(MessageIdSet) \in Nat
    BY <2>1, NextRowIdAbove
  <2>3. \A i \in MessageIdSet : i < NextRowId(MessageIdSet)
    BY <2>1, NextRowIdAbove
  <2>4. mid[h] \in RowId /\ mid[h] >= NextRowId(MessageIdSet)
    BY DEF FreshIds
  <2>5. \A i \in RowId : i \in Int
    BY BoundsAssumption, SMT DEF RowId
  <2>6. \A i \in MessageIdSet : i < mid[h]
    BY <2>1, <2>2, <2>3, <2>4, <2>5, SMT
  <2>7. \A r \in messages : r.id \in MessageIdSet /\ r.hash # h
    BY DEF MessageIdSet, IsStored
  <2>8. QED
    BY <1>3, <2>6, <2>7 DEF Traced
<1>4. QED
  BY <1>1, <1>2, <1>3

\* update_expiry and update_all_expiries keep id, hash and namespace.
LEMMA SetExpiryTraced ==
    ASSUME IInv, NEW S \in SUBSET messages, NEW e, SetExpiry(S, e), NEW m \in messages'
    PROVE  Traced(m)
<1>1. CASE m \in messages
  BY <1>1 DEF Traced
<1>2. CASE m \notin messages
  <2>1. PICK r \in S : m = [r EXCEPT !.expiry = e]
    BY <1>2 DEF SetExpiry
  <2>2. r \in messages /\ r \in MessageRow
    BY DEF IInv, TypeOK
  <2>3. m.id = r.id /\ m.hash = r.hash /\ m.ns = r.ns
    BY <2>1, <2>2 DEF MessageRow
  <2>4. QED
    BY <2>2, <2>3 DEF Traced
<1>3. QED
  BY <1>1, <1>2

\* No operation gives a row that stays another id, or a new row an id below one that
\* is in use: this is what a cursor made of row ids rests on.
LEMMA StepTraced ==
    ASSUME IInv, [Next]_dbVars, NEW m \in messages'
    PROVE  Traced(m)
<1>1. ASSUME messages' \subseteq messages
      PROVE  Traced(m)
  BY <1>1 DEF Traced
<1>2. ASSUME NEW h \in Hashes, NEW a \in Attributes, StoreNew(h, a)
      PROVE  Traced(m)
  BY <1>2, InsertTraced DEF StoreNew
<1>3. ASSUME NEW H \in SUBSET Hashes, NEW attr \in [H -> Attributes], BulkStore(H, attr)
      PROVE  Traced(m)
  <2> DEFINE new == {h \in H : ~IsStored(h)}
  <2>1. new \in SUBSET Hashes /\ \A h \in new : ~IsStored(h)
    OBVIOUS
  <2>2. CASE InsertMessages(new, attr)
    BY <2>1, <2>2, InsertTraced
  <2>3. CASE UNCHANGED dbVars
    BY <2>3, <1>1 DEF dbVars
  <2>4. QED
    BY <1>3, <2>2, <2>3 DEF BulkStore
<1>4. ASSUME NEW S, DeleteMessages(S)
      PROVE  Traced(m)
  BY <1>1, <1>4 DEF DeleteMessages
<1>5. ASSUME NEW S \in SUBSET messages, NEW e \in Time, SetExpiry(S, e)
      PROVE  Traced(m)
  BY <1>5, SetExpiryTraced
<1>6. ASSUME NEW pk \in Pubkeys, NEW H \in SUBSET Hashes, NEW e \in Time,
             NEW mode \in ExpiryModes, UpdateExpiry(pk, H, e, mode)
      PROVE  Traced(m)
  BY <1>5, <1>6 DEF UpdateExpiry, OwnedBy
<1>7. ASSUME NEW pk \in Pubkeys, NEW N \in NamespaceArgs, NEW e \in Time,
             UpdateAllExpiries(pk, N, e)
      PROVE  Traced(m)
  BY <1>5, <1>7 DEF UpdateAllExpiries, OwnedBy
<1>8. QED
  BY <1>1, <1>2, <1>3, <1>4, <1>6, <1>7 DEF Next, dbVars, StoreRefused, CleanExpired,
     DeleteAll, DeleteByHash, DeleteByTimestamp, RevokeSubkey, Tick

\* The subselect on owners picks out the rows whose hash names the account: which
\* box a row is in never changes.
LEMMA BoxByHash ==
    ASSUME IInv
    PROVE  Box = {m \in messages : HashOwner[m.hash] = ClientPubkey /\ m.ns = ClientNamespace}
BY DEF IInv, Box, OwnedBy, MessagesKeepOwner, ReferencesHold

\* The same in the state after a step.
LEMMA BoxByHashNext ==
    ASSUME IInv'
    PROVE  Box' = {m \in messages' : HashOwner[m.hash] = ClientPubkey /\ m.ns = ClientNamespace}
BY DEF IInv, Box, OwnedBy, MessagesKeepOwner, ReferencesHold

\* The cursor's row c decides what `retrieve` selects: the rows of the box above it.
LEMMA CursorSelects ==
    ASSUME IInv, NEW c \in Box, c.hash = last
    PROVE  CursorIds = {c.id} /\ Selected = {m \in Box : m.id > c.id}
<1>1. \A r \in Box : r.hash = last => r = c
  BY DEF IInv, KeysUnique, Box, OwnedBy
<1>2. CursorIds = {c.id}
  BY <1>1 DEF CursorIds
<1>3. QED
  BY <1>2 DEF Selected

\* The same in the state after a step.
LEMMA CursorSelectsNext ==
    ASSUME IInv', NEW c \in Box', c.hash = last'
    PROVE  CursorIds' = {c.id} /\ Selected' = {m \in Box' : m.id > c.id}
<1>1. \A r \in Box' : r.hash = last' => r = c
  BY DEF IInv, KeysUnique, Box, OwnedBy
<1>2. CursorIds' = {c.id}
  BY <1>1 DEF CursorIds
<1>3. QED
  BY <1>2 DEF Selected

\* Storing, deleting, expiring and reusing ids: what an intact cursor excludes has
\* been received all the same.
LEMMA DatabaseStepKeepsCursor ==
    ASSUME PollInv, IInv', DatabaseStep
    PROVE  PollInv'
<1>1. ASSUME intact'
      PROVE  /\ \E c \in Box' : c.hash = last'
             /\ \A m \in Box' \ Selected' : m.hash \in seen'
  <2>1. intact /\ last' = last /\ seen' = seen /\ Next
    BY <1>1 DEF DatabaseStep
  <2>2. PICK c \in Box : c.hash = last
    BY <2>1 DEF PollInv
  <2>3. PICK d \in messages' : d.hash = last
    BY <1>1 DEF DatabaseStep
  <2>4. IInv /\ c \in messages
    BY DEF PollInv, Box, OwnedBy
  <2>5. Traced(d)
    BY <2>1, <2>4, StepTraced
  <2>6. PICK r \in messages : r.id = d.id /\ r.hash = d.hash /\ r.ns = d.ns
    BY <2>2, <2>3, <2>4, <2>5 DEF Traced
  <2>7. r = c
    BY <2>2, <2>3, <2>4, <2>6, SMT DEF IInv, KeysUnique
  <2>8. d \in Box' /\ d.id = c.id
    BY <2>3, <2>4, <2>6, <2>7, BoxByHash, BoxByHashNext
  <2>9. Selected = {m \in Box : m.id > c.id}
    BY <2>2, <2>4, CursorSelects
  <2>10. Selected' = {m \in Box' : m.id > c.id}
    BY <2>1, <2>3, <2>8, CursorSelectsNext
  <2>11. ASSUME NEW m \in Box', m \notin Selected'
         PROVE  m.hash \in seen'
    <3>1. m \in messages' /\ ~(m.id > c.id)
      BY <2>10, <2>11 DEF Box, OwnedBy
    <3>2. Traced(m)
      BY <2>1, <2>4, <3>1, StepTraced
    <3>3. m.id \in Int /\ c.id \in Int
      BY <2>4, <3>1, BoundsAssumption, SMT DEF IInv, TypeOK, MessageRow, RowId
    <3>4. ~(c.id < m.id)
      BY <3>1, <3>3
    <3>5. PICK q \in messages : q.id = m.id /\ q.hash = m.hash /\ q.ns = m.ns
      BY <2>4, <3>2, <3>4 DEF Traced
    <3>6. q \in Box
      BY <2>4, <2>11, <3>5, BoxByHash, BoxByHashNext
    <3>7. q \notin Selected
      BY <2>9, <3>1, <3>5
    <3>8. q.hash \in seen
      BY <2>1, <3>6, <3>7 DEF PollInv, SkippedWereSeen
    <3>9. QED
      BY <2>1, <3>5, <3>8
  <2>12. QED
    BY <2>1, <2>3, <2>8, <2>11
<1>2. QED
  BY <1>1 DEF PollInv, SkippedWereSeen

\* A page that is not empty has a last message, and it has the page's largest id.
LEMMA LastOfPage ==
    ASSUME IInv, NEW P \in SUBSET Selected, P # {}
    PROVE  LET z == CHOOSE m \in P : \A r \in P : r.id <= m.id
           IN  z \in P /\ \A r \in P : r.id <= z.id
<1> DEFINE S == {m.id : m \in P}
<1>1. P \subseteq messages
  BY DEF Selected, Box, OwnedBy
<1>2. S \in SUBSET RowId /\ S # {}
  BY <1>1 DEF IInv, TypeOK, MessageRow
<1>3. Max(S) \in S /\ \A i \in S : i <= Max(S)
  BY <1>2, MaxRowId
<1>4. PICK x \in P : x.id = Max(S)
  BY <1>3
<1>5. \A r \in P : r.id <= x.id
  BY <1>3, <1>4
<1>6. QED
  BY <1>5

\* A poll moves the cursor over what it has just handed out, and over nothing else.
LEMMA PollKeepsCursor ==
    ASSUME PollInv, NEW c \in MaxCounts, Poll(c)
    PROVE  PollInv'
<1>1. PICK P \in Pages(c) :
        /\ seen' = seen \cup {m.hash : m \in P}
        /\ IF P = {}
           THEN UNCHANGED <<last, intact>>
           ELSE /\ last' = (CHOOSE m \in P : \A r \in P : r.id <= m.id).hash
                /\ intact' = (intact \/ CursorIds = {})
        /\ UNCHANGED dbVars
  BY DEF Poll
<1>2. Box' = Box
  BY <1>1 DEF Box, OwnedBy, dbVars
<1>3. IInv /\ IInv'
  BY <1>1 DEF PollInv, IInv, TypeOK, KeysUnique, ReferencesHold, OwnersHaveMessages,
      MessagesKeepOwner, dbVars
<1>4. P \in SUBSET Selected /\ \A m \in P, r \in Selected \ P : m.id < r.id
  BY <1>1 DEF Pages
<1>5. CASE P = {}
  <2>1. last' = last /\ intact' = intact /\ seen \subseteq seen'
    BY <1>1, <1>5
  <2>2. Selected' = Selected
    BY <1>2, <2>1 DEF Selected, CursorIds
  <2>3. QED
    BY <1>2, <1>3, <2>1, <2>2 DEF PollInv, SkippedWereSeen
<1>6. CASE P # {}
  <2> DEFINE z == CHOOSE m \in P : \A r \in P : r.id <= m.id
  <2>1. z \in P /\ \A r \in P : r.id <= z.id
    BY <1>3, <1>4, <1>6, LastOfPage
  <2>2. last' = z.hash /\ intact' = (intact \/ CursorIds = {})
    BY <1>1, <1>6
  <2> HIDE DEF z
  <2>3. z \in Box'
    BY <1>2, <1>4, <2>1 DEF Selected
  <2>4. Selected' = {m \in Box' : m.id > z.id}
    BY <1>3, <2>2, <2>3, CursorSelectsNext
  <2>5. ASSUME intact', NEW m \in Box', m \notin Selected'
        PROVE  m.hash \in seen'
    <3>1. m \in Box /\ ~(m.id > z.id)
      BY <1>2, <2>4, <2>5
    <3>2. m.id \in Int /\ z.id \in Int
      BY <1>2, <1>3, <2>3, <3>1, BoundsAssumption, SMT
         DEF Box, OwnedBy, IInv, TypeOK, MessageRow, RowId
    <3>3. ~(z.id < m.id)
      BY <3>1, <3>2
    <3>4. CASE m \in Selected
      BY <1>1, <1>4, <2>1, <3>3, <3>4
    <3>5. CASE m \notin Selected
      <4>1. CursorIds # {}
        BY <3>1, <3>5 DEF Selected
      <4>2. m.hash \in seen
        BY <2>2, <2>5, <3>1, <3>5, <4>1 DEF PollInv, SkippedWereSeen
      <4>3. QED
        BY <1>1, <4>2
    <3>6. QED
      BY <3>4, <3>5
  <2>6. QED
    BY <1>3, <2>2, <2>3, <2>5 DEF PollInv, SkippedWereSeen
<1>7. QED
  BY <1>5, <1>6

\* Polling changes no table: the client and the database together keep the tables
\* well-formed.
LEMMA PollNextKeepsTables ==
    ASSUME IInv, [PollNext]_vars
    PROVE  IInv'
<1>1. [Next]_dbVars
  BY DEF PollNext, DatabaseStep, Poll, vars
<1>2. QED
  BY <1>1, NextPreserves

\* The invariant of polling holds while the database works and the client pages.
THEOREM PollingInvariant == PollSpec => []PollInv
<1>1. PollInit => PollInv
  BY InitEstablishes DEF PollInit, PollInv, SkippedWereSeen
<1>2. PollInv /\ [PollNext]_vars => PollInv'
  <2> SUFFICES ASSUME PollInv, [PollNext]_vars
               PROVE  PollInv'
    OBVIOUS
  <2>1. IInv'
    BY PollNextKeepsTables DEF PollInv
  <2>2. CASE DatabaseStep
    BY <2>1, <2>2, DatabaseStepKeepsCursor
  <2>3. ASSUME NEW c \in MaxCounts, Poll(c)
        PROVE  PollInv'
    BY <2>3, PollKeepsCursor
  <2>4. CASE UNCHANGED vars
    <3>1. Box' = Box /\ UNCHANGED <<last, seen, intact>>
      BY <2>4 DEF vars, dbVars, clientVars, Box, OwnedBy
    <3>2. Selected' = Selected
      BY <3>1 DEF Selected, CursorIds
    <3>3. QED
      BY <2>1, <3>1, <3>2 DEF PollInv, SkippedWereSeen
  <2>5. QED
    BY <2>2, <2>3, <2>4 DEF PollNext
<1>3. QED
  BY <1>1, <1>2, PTL DEF PollSpec

\* Paging by last_hash skips nothing, for any number of messages, any page sizes and
\* any row ids that come back into use: as long as the cursor's row has stayed, the
\* next retrieve leaves out only what the client has received.
THEOREM NothingIsSkipped == PollSpec => []SkippedWereSeen
<1>1. PollInv => SkippedWereSeen
  BY DEF PollInv
<1>2. QED
  BY <1>1, PollingInvariant, PTL

\* Row ids are unique and bounded, so what a query selects can be counted.
LEMMA SelectedFinite ==
    ASSUME IInv
    PROVE  IsFiniteSet(Selected)
<1> DEFINE f == [m \in Selected |-> m.id]
<1>1. Selected \subseteq messages
  BY DEF Selected, Box, OwnedBy
<1>2. f \in [Selected -> RowId]
  BY <1>1 DEF IInv, TypeOK, MessageRow
<1>3. \A m, n \in Selected : f[m] = f[n] => m = n
  BY <1>1 DEF IInv, KeysUnique
<1>4. f \in Injection(Selected, RowId)
  BY <1>2, <1>3 DEF Injection, IsInjective
<1>5. IsFiniteSet(RowId)
  BY FS_Interval, BoundsAssumption, SMT DEF RowId
<1>6. QED
  BY <1>4, <1>5, FS_Injection

\* An answer without "more" holds all the query selected, unless max_count was -1.
LEMMA NoMoreMeansAll ==
    ASSUME IInv, NEW c \in Int, c # -1, NEW P \in Pages(c),
           ~(Cardinality(P) < Fetched(c, Cardinality(Selected)))
    PROVE  P = Selected
<1> DEFINE n == Cardinality(Selected)
           p == Cardinality(P)
<1>1. P \in SUBSET Selected
  BY DEF Pages
<1>2. IsFiniteSet(Selected) /\ IsFiniteSet(P)
  BY <1>1, SelectedFinite, FS_Subset
<1>3. n \in Nat /\ p \in Nat /\ (n = p => P = Selected)
  BY <1>1, <1>2, FS_CardinalityType, FS_Subset
<1>4. p <= Fetched(c, n) /\ (c > 0 => p <= c)
  BY DEF Pages
<1> HIDE DEF n, p
<1>5. ~(p < Fetched(c, n))
  BY DEF n, p
<1>6. n = p
  BY <1>3, <1>4, <1>5, SMT DEF Fetched
<1>7. QED
  BY <1>3, <1>6

\* An answer without "more" means that the client has every message of its box,
\* provided no request asks for -1 messages: that max_count turns into LIMIT 0, and
\* the empty answer to it carries no "more" whatever the box holds.
THEOREM NoMoreMeansCaughtUp ==
    ASSUME -1 \notin MaxCounts
    PROVE  PollSpec => CaughtUp
<1>1. ASSUME PollInv, ~more', intact \/ CursorIds = {}, NEW c \in MaxCounts, Poll(c),
             NEW m \in Box
      PROVE  m.hash \in seen'
  <2>1. PICK P \in Pages(c) :
          /\ seen' = seen \cup {x.hash : x \in P}
          /\ more' = (Cardinality(P) < Fetched(c, Cardinality(Selected)))
    BY <1>1 DEF Poll
  <2>2. c \in Int /\ c # -1
    BY ClientAssumption
  <2>3. P = Selected
    BY <1>1, <2>1, <2>2, NoMoreMeansAll DEF PollInv
  <2>4. CASE m \in Selected
    BY <2>1, <2>3, <2>4
  <2>5. CASE m \notin Selected
    <3>1. CursorIds # {}
      BY <2>5 DEF Selected
    <3>2. m.hash \in seen
      BY <1>1, <2>5, <3>1 DEF PollInv, SkippedWereSeen
    <3>3. QED
      BY <2>1, <3>2
  <2>6. QED
    BY <2>4, <2>5
<1>2. PollInv /\ [PollNext]_vars
          => [~more' /\ (intact \/ CursorIds = {}) /\ (\E c \in MaxCounts : Poll(c))
                => \A m \in Box : m.hash \in seen']_vars
  BY <1>1
<1>3. QED
  BY <1>2, PollingInvariant, PTL DEF PollSpec, CaughtUp
=============================================================================
