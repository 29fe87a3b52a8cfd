---------------------------- MODULE MCSessionStore ----------------------------
(* Instances of SessionStore for TLC.                                       *)
EXTENDS SessionStore, TLC

TightConfig == [enabled |-> TRUE, ttl |-> 1, max_entries |-> 2, threshold |-> 2]

Symmetry == Permutations(SessionIds) \cup Permutations(Labels)
================================================================================
