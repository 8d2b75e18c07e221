--------------------------- MODULE MCLeadPipeline ---------------------------
(* Small instances of LeadPipeline for TLC. *)
EXTENDS LeadPipeline, TLC

CONSTANTS d1

MCAlone == [h \in Hunts |-> 1]

MCNoMail == [d \in Domains |-> NoEmail]

MCCallers == Hunts \cup Retriers
=============================================================================
