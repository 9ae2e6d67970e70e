--------------------------- MODULE MCSourceRecords ---------------------------
(***************************************************************************)
(* What concurrent sessions write about one source and one advertisement:  *)
(* its discoveries, the notices of its monitors and the corrections of its *)
(* jobs.  The three are checked side by side: in each behaviour one part   *)
(* moves, the others keep their initial state.                             *)
(***************************************************************************)
EXTENDS Discovery, Monitoring, Maintenance, TLC

CONSTANTS s1, s2, c1, c2, x1, x2, t1, t2

VARIABLE part

\* Discovery: a worker reads the same fields from every document.  Clients submit
\* these of two versions of a document, or any fields of one version while the
\* endpoint stays enabled.
ReadBy == [d \in Documents |-> x1]
SameFields == \A s \in Writers : \A v \in txn[s].revisions : v.fields = x1
Reached(d) ==
    \/ document[d] # NoDocument
    \/ \E s \in Writers : d \in txn[s].todo \/ txn[s].saw[d] # "none"
OneVersion == enabled /\ Cardinality({d \in Documents : Reached(d)}) <= 1

\* Maintenance: a document with a Post, and one that is not split.
SomeReadings ==
    {[split |-> TRUE, facts |-> [closing |-> t1, plain |-> Missing, post |-> Missing]],
     [split |-> FALSE, facts |-> [closing |-> Missing, plain |-> t1, post |-> Missing]]}

RecordsInit ==
    /\ part \in {"discovery", "resubmission", "monitoring", "maintenance"}
    /\ DiscoveryInit /\ MonitoringInit /\ MaintenanceInit

RecordsNext ==
    \/ part = "discovery" /\ DiscoveryNext /\ SameFields'
       /\ UNCHANGED <<part, monitoringVars, maintenanceVars>>
    \/ part = "resubmission" /\ DiscoveryNext /\ OneVersion'
       /\ UNCHANGED <<part, monitoringVars, maintenanceVars>>
    \/ part = "monitoring" /\ MonitoringNext
       /\ UNCHANGED <<part, discoveryVars, maintenanceVars>>
    \/ part = "maintenance" /\ MaintenanceNext
       /\ UNCHANGED <<part, discoveryVars, monitoringVars>>

RecordsSpec ==
    RecordsInit /\ [][RecordsNext]_<<part, discoveryVars, monitoringVars, maintenanceVars>>

Symmetry == Permutations({s1, s2}) \cup Permutations({c1, c2})

----------------------------------------------------------------------------
\* discovery.py:113-196, monitoring.py:77-86: what was recorded of a document and
\* what an operator was told stays, whoever runs at the same time.
RecordsKept == HistoryKept /\ NoticesKept
=============================================================================
