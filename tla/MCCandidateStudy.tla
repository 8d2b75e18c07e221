-------------------------- MODULE MCCandidateStudy --------------------------
(* Small instances of CandidateStudy for TLC. *)
EXTENDS CandidateStudy, TLC

CONSTANTS d1, d2, u1, ann, abe, zoe

MCProviders == <<"hunter", "abstract", "apollo">>
=============================================================================
