------------------------------ MODULE MCMonitor ------------------------------
(* Two connections that subscribe to namespaces on both sides of zero. *)
EXTENDS Monitor

CONSTANTS a1

MCNamespaces == {-1, 0, 2}

Asking(n, d, verifies) == [account |-> a1, n |-> n, d |-> d, verifies |-> verifies]

MCSubs ==
    {Asking(<<0>>, FALSE, TRUE), Asking(<<-1, 2>>, FALSE, TRUE), Asking(<<0, 2>>, TRUE, TRUE),
     Asking(<<2, 0>>, FALSE, TRUE), Asking(<<2>>, TRUE, FALSE)}
=============================================================================
