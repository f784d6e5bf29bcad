------------------------------ MODULE Severity ------------------------------
(***************************************************************************)
(* The severities a check is observed at, and their order.  `unknown'      *)
(* outranks `ok' on purpose: a check nobody could read is not healthy.     *)
(***************************************************************************)
EXTENDS Naturals

OK       == "ok"
UNKNOWN  == "unknown"
WARNING  == "warning"
CRITICAL == "critical"

Severities == {OK, UNKNOWN, WARNING, CRITICAL}

\* Severities that are a failure, and hence news on first sight.
BAD == {WARNING, CRITICAL}

rank(s) == CASE s = OK       -> 0
             [] s = UNKNOWN  -> 1
             [] s = WARNING  -> 2
             [] s = CRITICAL -> 3

\* The worst of a set of severities; of none, `unknown'.
worst(S) == IF S = {} THEN UNKNOWN
            ELSE CHOOSE s \in S : \A t \in S : rank(t) <= rank(s)

\* No severity at all: a NULL column, a key that was never set.
None == "none"
=============================================================================
