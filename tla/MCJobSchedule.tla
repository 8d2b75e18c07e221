--------------------------- MODULE MCJobSchedule ---------------------------
(* Small instances of JobSchedule for TLC. *)
EXTENDS JobSchedule, TLC

CONSTANTS r1, r2, r3

MCEnv == [start |-> 7, end |-> 23, step |-> 3, times |-> {<<9, 0>>}]
\* a night window, and a scan a day: no window, step 24
MCPlans == {[start |-> 22, end |-> 6, step |-> 3, times |-> {<<9, 0>>, <<18, 30>>}],
            [start |-> 7, end |-> 7, step |-> 24, times |-> {<<9, 0>>}]}
Interchangeable == Permutations(Requests)
=============================================================================
