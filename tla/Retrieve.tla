------------------------------ MODULE Retrieve ------------------------------
(***************************************************************************)
(* A client that polls one namespace of its account with the `retrieve`    *)
(* endpoint (Database::retrieve, RequestHandler's retrieve handler) while  *)
(* every other operation of Database goes on.  The client passes the hash  *)
(* of the last message it received as last_hash and collects what it gets. *)
(***************************************************************************)
EXTENDS Database

CONSTANTS
    ClientPubkey,      \* the account that polls
    ClientNamespace,   \* the namespace it polls
    MaxCounts,         \* the max_count values it uses (0 stands for none given)
    NoHash             \* an empty last_hash

ASSUME ClientAssumption == /\ ClientPubkey \in Pubkeys
                           /\ ClientNamespace \in Namespaces
                           /\ MaxCounts \subseteq Int
                           /\ NoHash \notin Hashes

VARIABLES
    last,     \* the last_hash the client sends next
    seen,     \* the hashes it has received
    more,     \* the "more" flag of the last answer
    intact    \* history: the cursor's row has been there since it was received, and
              \* so had each cursor before it when the client moved on

clientVars == <<last, seen, more, intact>>
vars == <<dbVars, clientVars>>

Box == {m \in OwnedBy(ClientPubkey) : m.ns = ClientNamespace}

\* ids of the cursor's row: none when last_hash is empty, deleted or expired, or
\* names a message of another account or namespace
CursorIds == {m.id : m \in {r \in Box : r.hash = last}}

\* Mutant of Selected: id > NULL when the cursor's row is gone.
SelectedNothing == {m \in Box : last = NoHash \/ \E i \in CursorIds : m.id > i}

\* The rows the query selects: everything when the cursor is not found.
Selected == {m \in Box : \A i \in CursorIds : m.id > i}

\* How many of n rows LIMIT lets through: max_count is an int, becomes a size_t, and
\* is cut back to an int before one is added.  SQLite reads a negative LIMIT as none.
Fetched(c, n) ==
    IF c = 0 \/ c + 1 < 0 \/ c + 1 > n THEN n ELSE c + 1

\* The answers to max_count c: rows in id order, stopping at the count or where
\* max_size is used up, but with one message at least if any row was fetched.
Pages(c) ==
    LET n == Fetched(c, Cardinality(Selected))
    IN  {P \in SUBSET Selected :
            /\ \A m \in P, r \in Selected \ P : m.id < r.id
            /\ Cardinality(P) <= n
            /\ c > 0 => Cardinality(P) <= c
            /\ n > 0 => P # {}}

Poll(c) ==
    \E P \in Pages(c) :
        /\ seen' = seen \cup {m.hash : m \in P}
        /\ more' = (Cardinality(P) < Fetched(c, Cardinality(Selected)))
        /\ IF P = {}
           THEN UNCHANGED <<last, intact>>
           ELSE /\ last' = (CHOOSE m \in P : \A r \in P : r.id <= m.id).hash
                /\ intact' = (intact \/ CursorIds = {})
        /\ UNCHANGED dbVars

\* A step of the database: the client only notices when its cursor's row goes.
DatabaseStep ==
    /\ Next
    /\ intact' = (intact /\ \E m \in messages' : m.hash = last)
    /\ UNCHANGED <<last, seen, more>>

PollInit == Init /\ last = NoHash /\ seen = {} /\ more = FALSE /\ intact = FALSE

PollNext == DatabaseStep \/ \E c \in MaxCounts : Poll(c)

PollSpec == PollInit /\ [][PollNext]_vars

-----------------------------------------------------------------------------
ClientTypeOK ==
    /\ TypeOK
    /\ last \in Hashes \cup {NoHash}
    /\ seen \subseteq Hashes
    /\ more \in BOOLEAN
    /\ intact \in BOOLEAN

\* Paging by last_hash skips nothing: as long as the cursor's row has stayed in the
\* table, every message of the box that the next poll will not select has been
\* received, in spite of deletions, expiries and row ids that are used again.
SkippedWereSeen == intact => \A m \in Box \ Selected : m.hash \in seen

\* An answer without "more" means that the client is up to date: it has received
\* every message now in the box (unless its cursor was deleted and stored again,
\* which makes older arrivals invisible to it).
CaughtUp ==
    [][~more' /\ (intact \/ CursorIds = {}) /\ (\E c \in MaxCounts : Poll(c))
          => \A m \in Box : m.hash \in seen']_vars

\* What carries SkippedWereSeen through the steps: an intact cursor names a row of
\* the box, and the tables are well-formed, so that only larger ids are given out.
PollInv ==
    /\ IInv
    /\ intact => \E c \in Box : c.hash = last
    /\ SkippedWereSeen
=============================================================================
