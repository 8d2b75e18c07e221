----------------------------- MODULE MCTracker -----------------------------
(* Small instances of Tracker for TLC. *)
EXTENDS Tracker, TLC

CONSTANTS a1, a2, a3, l1, l2, p1, m1, c1, c2, q1

\* requests and clicks of a kind are interchangeable, ids are drawn in any order
Interchangeable == Permutations(Apps) \cup Permutations(Clicks) \cup Permutations(LeadIds)
=============================================================================
