------------------------------ MODULE MCAccess ------------------------------
(* Two pages of one browser, and a token that is changed. *)
EXTENDS Access

CONSTANTS wall, desk, spring, autumn
=============================================================================
