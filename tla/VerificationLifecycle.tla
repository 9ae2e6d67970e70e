----------------------- MODULE VerificationLifecycle -----------------------
(***************************************************************************)
(* What a VerificationRun promises when its requests do not overlap:       *)
(* assessments and findings are only added while it is RUNNING, a finding  *)
(* is made once, from all assessments of its field, the counters are the   *)
(* findings by outcome, and a run ends once, in a status that says how     *)
(* many of its fields have a finding.                                      *)
(***************************************************************************)
EXTENDS VerificationPolicy

CONSTANTS Runs, Fields

VARIABLES
    status,     \* of each run
    basis,      \* the assessments of each field's Evidence
    result,     \* the finding of each field, NoResult while it has none
    tally,      \* the support and contradiction counts shown with it
    counter     \* the findings of the run by outcome

contract == <<status, basis, result, tally, counter>>

Made(found) == {f \in Fields : found[f] # NoResult}

\* The counters are the findings by outcome, at every moment.
ByOutcome(found) ==
    [o \in Outcomes |-> Cardinality({f \in Made(found) : found[f][1] = o})]

Init ==
    /\ status = [r \in Runs |-> "ABSENT"]
    /\ basis = [r \in Runs |-> [f \in Fields |-> Unassessed]]
    /\ result = [r \in Runs |-> [f \in Fields |-> NoResult]]
    /\ tally = [r \in Runs |-> [f \in Fields |-> Tally(Unassessed)]]
    /\ counter = [r \in Runs |-> ByOutcome(result[r])]

Move(r, from, to) ==
    /\ status[r] = from
    /\ status' = [status EXCEPT ![r] = to]
    /\ UNCHANGED <<basis, result, tally, counter>>

\* COMPLETED means every field, PARTIAL some and not all of them.
End(r) ==
    \/ Made(result[r]) = Fields /\ Move(r, "RUNNING", "COMPLETED")
    \/ Made(result[r]) \notin {{}, Fields} /\ Move(r, "RUNNING", "PARTIAL")
    \/ Move(r, "RUNNING", "FAILED")

Assess(r, f, e) ==
    /\ status[r] = "RUNNING" /\ result[r][f] = NoResult
    /\ basis[r][f][e] = "none"
    /\ \E a \in Assessments : basis' = [basis EXCEPT ![r][f][e] = a]
    /\ UNCHANGED <<status, result, tally, counter>>

Finalize(r, f) ==
    /\ status[r] = "RUNNING" /\ result[r][f] = NoResult
    /\ \E new \in Results :
          /\ Follows(new, basis[r][f])
          /\ result' = [result EXCEPT ![r][f] = new]
    /\ tally' = [tally EXCEPT ![r][f] = Tally(basis[r][f])]
    /\ counter' = [counter EXCEPT ![r] = ByOutcome(result'[r])]
    /\ UNCHANGED <<status, basis>>

\* The worker does all of it in one transaction.
Whole(r) ==
    /\ status[r] = "ABSENT"
    /\ status' = [status EXCEPT ![r] = "COMPLETED"]
    /\ basis' \in [Runs -> [Fields -> [Evidence -> Assessments \cup {"none"}]]]
    /\ result' \in [Runs -> [Fields -> Results]]
    /\ \A q \in Runs \ {r} : basis'[q] = basis[q] /\ result'[q] = result[q]
    /\ \A f \in Fields : Follows(result'[r][f], basis'[r][f])
    /\ tally' = [tally EXCEPT ![r] = [f \in Fields |-> Tally(basis'[r][f])]]
    /\ counter' = [counter EXCEPT ![r] = ByOutcome(result'[r])]

Next ==
    \E r \in Runs :
        \/ Move(r, "ABSENT", "PENDING") \/ Move(r, "PENDING", "RUNNING")
        \/ End(r) \/ Whole(r)
        \/ \E f \in Fields : Finalize(r, f) \/ \E e \in Evidence : Assess(r, f, e)

Spec == Init /\ [][Next]_contract
=============================================================================
