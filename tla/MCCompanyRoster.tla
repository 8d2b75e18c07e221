-------------------------- MODULE MCCompanyRoster --------------------------
(* A small instance of CompanyRoster for TLC. *)
EXTENDS CompanyRoster, TLC

CONSTANTS ann, bob, cyd, twin, clerk, click, office, private

MCGrade == [a \in Addresses |-> IF a = office THEN "work" ELSE "personal"]
MCNameKey == [p \in People |-> IF p = twin THEN bob ELSE p]
MCListings == {<<ann, bob, clerk, twin, cyd>>}
=============================================================================
