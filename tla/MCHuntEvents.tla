---------------------------- MODULE MCHuntEvents ----------------------------
(* Small instances of HuntEvents for TLC. *)
EXTENDS HuntEvents, TLC

CONSTANTS h1, h2, p1
=============================================================================
