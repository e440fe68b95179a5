--------------------------- MODULE MCSessionOutput ---------------------------
(* SessionOutput for TLC: two log threads, two systems, listings of up to two. *)
EXTENDS SessionOutput, TLC

CONSTANTS l1, l2, s1, s2

MCSymmetry == Permutations(LogThreads) \cup Permutations(Systems)
=============================================================================
