--------------------------- MODULE AlertRefinement ---------------------------
(***************************************************************************)
(* AlertEngine implements AlertContract.  The book is what is in memory    *)
(* while the engine runs and what is in the database while it does not, so *)
(* a crash or a restart that lost or invented a debt would be a step the   *)
(* contract does not have.                                                 *)
(***************************************************************************)
EXTENDS AlertEngine

Line(e) == [severity |-> e.severity, notified |-> e.notified]

Book == IF phase = "down" THEN db ELSE [i \in Ids |-> Line(state[i])]

Policy == [ids        |-> {i \in Ids : Owner(i) \in conf.enabled},
           configured |-> conf.configured,
           floor      |-> conf.floor]

Contract == INSTANCE AlertContract WITH
  policy <- Policy, book <- Book, outbox <- batch, word <- heard

\* The engine keeps the contract's promises through every interleaving of
\* polls, deliveries, failures, mutes, crashes and restarts.
ContractKept == Contract!Spec
=============================================================================
