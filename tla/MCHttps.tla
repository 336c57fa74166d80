------------------------------- MODULE MCHttps -------------------------------
(* A storage request and an onion request at a server whose queue takes one task. *)
EXTENDS Https, TLC

CONSTANTS r1, r2, c1, c2

MCClientOf == r1 :> c1 @@ r2 :> c2
MCFirstHops == {-1, 3}
=============================================================================
