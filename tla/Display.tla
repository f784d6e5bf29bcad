------------------------------- MODULE Display -------------------------------
(***************************************************************************)
(* What a live board promises: it shows some version of the state, which   *)
(* was current at some time, and only ever exchanges it for a later one.   *)
(***************************************************************************)
EXTENDS Naturals

VARIABLES version, shown

vars == <<version, shown>>

Init == version = 1 /\ shown = 0

Advance == version' = version + 1 /\ shown' = shown
Show    == version' = version /\ shown' \in shown..version

Next == Advance \/ Show
Spec == Init /\ [][Next]_vars
=============================================================================
