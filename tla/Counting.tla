------------------------------- MODULE Counting -------------------------------
(* How many elements of a sequence belong to a set: the lines of an input that *)
(* are commands.                                                               *)
EXTENDS Naturals, Sequences, FiniteSets

Count(s, X) == Cardinality({i \in DOMAIN s : s[i] \in X})
=============================================================================
