----------------------------- MODULE MCGateway -----------------------------
(* Two connections with up to two queries each, so that a KILL can come     *)
(* late, under limits of one (the second connection may be turned away) and *)
(* two.                                                                     *)
EXTENDS Gateway

CONSTANTS c1, c2

MCConns == {c1, c2}
=============================================================================
