----------------------------- MODULE MCAlertSend -----------------------------
(* Small instances of AlertSend and RunBooks for TLC. *)
EXTENDS RunBooks, TLC

CONSTANTS c1, p1, p2, p3, r1, r2, r3

MCBoardOf == [p \in Postings |-> c1]
MCYears == [p \in Postings |-> Unstated]
MCPostedAt == [p \in Postings |-> Undated]
Symmetry == Permutations(Postings) \cup Permutations(Runs)
=============================================================================
