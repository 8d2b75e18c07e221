--------------------------- MODULE MCMonitorCycle ---------------------------
(* Small instances of MonitorCycle for TLC. *)
EXTENDS MonitorCycle, TLC

CONSTANTS c1, c2, p1, p2, us, de

\* one board of all the postings
MCOneBoard == [p \in Postings |-> c1]

MCOldSenior == (p1 :> Undated) @@ (p2 :> 0)
MCDayZero == [p \in Postings |-> 0]
MCJuniorSenior == (p1 :> 2) @@ (p2 :> 5)

MCUs == [p \in Postings |-> us]
MCSenior == [p \in Postings |-> 5]
MCNoCountry == [p \in Postings |-> Unknown]
MCNoCountries == [c \in Companies |-> {}]
=============================================================================
