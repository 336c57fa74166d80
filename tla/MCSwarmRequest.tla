--------------------------- MODULE MCSwarmRequest ---------------------------
(***************************************************************************)
(* Small instances of SwarmRequest for TLC.                                *)
(***************************************************************************)
EXTENDS SwarmRequest

CONSTANTS n1, n2

Ask(endpoint, hash, expiry) == [endpoint |-> endpoint, hash |-> hash, expiry |-> expiry]

\* A single operation, where the question is only how its parts fail.
MCStoreOnly == {Ask("store", 1, 1)}

\* Every endpoint; two messages, and two expiries where the endpoint uses them.  What "expire"
\* asks for is beyond the limit of a node that grants no more than 1.
MCEveryEndpoint ==
    {Ask("store", 1, 1), Ask("store", 1, 2), Ask("store", 2, 2)}
        \cup {Ask(x, 1, 1) : x \in {"delete_all", "delete_msgs", "delete_before", "expire_all"}}
        \cup {Ask(x, 1, 2) : x \in {"expire_msgs", "extend_msgs", "shorten_msgs"}}
=============================================================================
