--------------------------- MODULE MCAlertEngine ---------------------------
(* Instances of the alert engine: a check of each kind, one or two collectors.  *)
EXTENDS AlertRefinement

CONSTANTS
  lab, edge,  \* collectors
  disk,       \* a check every poll of lab accounts for
  agent,      \* a check that exists only while something is wrong or watched
  task,       \* an event
  link        \* a check of the other collector

MCPanelOf == [c \in Checks |-> IF c = link THEN edge ELSE lab]

Posting(f) == [enabled |-> Panels, configured |-> TRUE, floor |-> f]

FloorWarning  == {Posting(WARNING)}
FloorCritical == {Posting(CRITICAL)}
\* A collector is disabled, and enabled again.
EdgeOnAndOff == {Posting(WARNING), [Posting(WARNING) EXCEPT !.enabled = {lab}]}
=============================================================================
