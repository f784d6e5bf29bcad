----------------------------- MODULE MCReadings -----------------------------
(* A check followed over a long time, one that may be unread, and a board. *)
EXTENDS Readings, TLC

CONSTANTS
  lab, edge, far,  \* collectors
  disk, agent,     \* checks of lab
  link,            \* the check of edge
  probe,           \* the check of far, which may be published unread
  gap

PanelOfCheck == (disk :> lab) @@ (agent :> lab) @@ (link :> edge) @@ (probe :> far)
ReportsOf    == (disk :> {OK, WARNING, UNKNOWN}) @@ (agent :> {OK, CRITICAL}) @@ (link :> {OK, CRITICAL})
                  @@ (probe :> {OK, UNKNOWN, CRITICAL})

Log       == [enabled |-> {edge}, followed |-> link, mutable |-> {}, until |-> 6]
UnreadLog == [enabled |-> {far}, followed |-> probe, mutable |-> {}, until |-> 5]
Board     == [enabled |-> {lab, edge}, followed |-> gap, mutable |-> {agent}, until |-> 4]

History     == {Log}
BoardAndLog == {Board, Log, UnreadLog}
=============================================================================
