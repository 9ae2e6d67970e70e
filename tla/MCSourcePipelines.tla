------------------------- MODULE MCSourcePipelines -------------------------
(* A small instance of SourcePipelines. *)
EXTENDS SourcePipelines

CONSTANTS cron, cli

\* Both revisions are of the second source; the first cannot be reached.
OfSecond == [i \in Items |-> 2]
Routes == [i \in Items |-> IF i = 1 THEN "direct" ELSE "review"]

\* The scheduled workflow, and an operator.
Started ==
    [p \in Procs |-> IF p = cron THEN {"due"}
                     ELSE {"pipeline", "dry", "verification", "publisher"}]
=============================================================================
