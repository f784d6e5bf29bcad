----------------------------- MODULE MCLiveView -----------------------------
(* One board for TLC, with another client at the server.                   *)
EXTENDS LiveView

CONSTANTS r1, r2, f1

OneRequest  == {r1}
TwoRequests == {r1, r2}
OneFetch    == {f1}
=============================================================================
