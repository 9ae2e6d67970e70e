----------------------------- MODULE MCSessions -----------------------------
(***************************************************************************)
(* What concurrent sessions write of one source, its records as in         *)
(* MCSourceRecords or a verification run of a revision and a worker's run: *)
(* in each behaviour one of the parts moves, the others keep their initial *)
(* state.                                                                  *)
(***************************************************************************)
EXTENDS MCSourceRecords, VerificationRuns

CONSTANTS m, w, f1, f2, e1, e2

VARIABLE verifying

\* An official source, and one that only helps discovery.  Clients disagree
\* about the official source of f1; f2 has the weaker one.
Classed == (e1 :> "AUTHORITATIVE_OFFICIAL") @@ (e2 :> "SECONDARY_DISCOVERY_ONLY")
Questions == {<<f1, e1, "SUPPORTS">>, <<f1, e1, "CONTRADICTS">>, <<f2, e2, "SUPPORTS">>}
Linked == (f1 :> {e1}) @@ (f2 :> {e2})
Interpreter == [x \in {f1, f2} \X {e1, e2} |-> "SUPPORTS"]

recordVars == <<part, discoveryVars, monitoringVars, maintenanceVars>>

SessionsInit ==
    /\ verifying \in BOOLEAN /\ (verifying => part = "discovery")
    /\ RecordsInit /\ Init

SessionsNext ==
    \/ ~verifying /\ RecordsNext /\ UNCHANGED <<verifying, vars>>
    \/ verifying /\ Next /\ UNCHANGED <<verifying, recordVars>>

SessionsSpec == SessionsInit /\ [][SessionsNext]_<<verifying, vars, recordVars>>
=============================================================================
