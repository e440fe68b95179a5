-------------------------- MODULE MCSystemRegistry --------------------------
(* SystemRegistry for TLC: two participants of a system with a name, one of   *)
(* the system without.                                                        *)
EXTENDS SystemRegistry

CONSTANTS p1, p2, q1, demo

MCHome == [p \in Participants |-> IF p = q1 THEN Unnamed ELSE demo]
=============================================================================
