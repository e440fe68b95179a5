-------------------------- MODULE MCWebsocketServer --------------------------
(* WebsocketServer for TLC: two connections. *)
EXTENDS WebsocketServer, TLC

CONSTANTS c1, c2

MCSymmetry == Permutations(Clients)
=============================================================================
