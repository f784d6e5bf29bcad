------------------------------ MODULE MCDeploy ------------------------------
(* Two commits of one version, as on the main branch, and of two schemas;   *)
(* each may be built in a second directory.                                 *)
EXTENDS Deploy

MCCommits == 1..2
MCSchemaOf == <<1, 2>>
MCVersionOf == <<"v1", "v1">>
=============================================================================
