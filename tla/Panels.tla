------------------------------- MODULE Panels -------------------------------
(***************************************************************************)
(* The shape of a collector's output (Panel in app/models.py): checks with *)
(* a severity each, the id prefixes this poll could not read, or an error  *)
(* instead of both; and what the engine infers of it.  The id of a check   *)
(* is the tuple of its parts, so a prefix of an id is a prefix of a tuple. *)
(***************************************************************************)
EXTENDS Severity, SequencesExt

Check(id, severity) == [id |-> id, severity |-> severity]

\* Collector.run: any exception of collect() becomes a panel that says nothing.
Failed == [error |-> TRUE, checks |-> {}, unread |-> {}]

\* One part of a panel: what was read, or the placeholder that was left.
Read(checks) == [checks |-> checks, unread |-> {}]
Skipped(prefixes) == [checks |-> {}, unread |-> prefixes]
NotRead(id, prefixes) == [checks |-> {Check(id, UNKNOWN)}, unread |-> prefixes]

\* The panel made of some parts.
Of(parts) ==
  [error  |-> FALSE,
   checks |-> UNION {p.checks : p \in parts},
   unread |-> UNION {p.unread : p \in parts}]

Published(panel) == {check.id : check \in panel.checks}

Reported(panel, i) == (CHOOSE check \in panel.checks : check.id = i).severity

\* Panel.resolve, without mutes: an error or nothing at all is `unknown'.
Resolved(panel) ==
  IF panel.error THEN UNKNOWN ELSE worst({check.severity : check \in panel.checks})

Covered(i, prefixes) == \E p \in prefixes : IsPrefix(p, i)

Ingested_IgnoresUnread(known, panel) ==  \* faulty: absence is always resolution
  IF panel.error THEN known ELSE [i \in Published(panel) |-> Reported(panel, i)]

\* What the engine holds of a collector after a poll: a failed one changes
\* nothing, any other forgets what is neither published nor unread.
Ingested(known, panel) ==
  IF panel.error THEN known
  ELSE LET retained == {i \in DOMAIN known \ Published(panel) : Covered(i, panel.unread)}
       IN  [i \in Published(panel) \cup retained |->
              IF i \in Published(panel) THEN Reported(panel, i) ELSE known[i]]
=============================================================================
