----------------------------- MODULE MCReviewStore -----------------------------
(* Instances of ReviewStore for TLC.                                        *)
EXTENDS ReviewStore, TLC

Symmetry == Permutations(TicketIds) \cup Permutations(Fingerprints)
================================================================================
