-------------------------- MODULE ReviewLifecycle --------------------------
(***************************************************************************)
(* The review lifecycle as ReviewService's own guards and the project's    *)
(* documents state it, one request at a time: a case goes from QUEUED to   *)
(* IN_REVIEW to RESOLVED, or is cancelled before that; only a case in      *)
(* review takes decisions; the decision of its last item resolves it; a    *)
(* resolved or cancelled case never changes again.                         *)
(***************************************************************************)
EXTENDS ReviewVocabulary

VARIABLES status, outcome, decision

vars == <<status, outcome, decision>>

Undecided == {i \in Items : decision[i] = None}

Init ==
    /\ status = None /\ outcome = None
    /\ decision = [i \in Items |-> None]

Open ==
    /\ status = None /\ status' = "QUEUED"
    /\ UNCHANGED <<outcome, decision>>

Start ==
    /\ status = "QUEUED" /\ status' = "IN_REVIEW"
    /\ UNCHANGED <<outcome, decision>>

Cancel ==
    /\ status \in {"QUEUED", "IN_REVIEW"} /\ status' = "CANCELLED"
    /\ UNCHANGED <<outcome, decision>>

\* One item, one form, or a quick approval, which also starts a queued case.
Decide ==
    /\ status \in {"QUEUED", "IN_REVIEW"}
    /\ \E S \in (SUBSET Undecided) \ {{}} :
       \E form \in [S -> Decisions] :
          /\ \A i \in S : form[i] \in Allowed(i)
          /\ status = "QUEUED" => \A i \in S : form[i] = "APPROVE_AS_IS"
          /\ decision' = [i \in Items |-> IF i \in S THEN form[i] ELSE decision[i]]
          /\ IF S = Undecided
             THEN status' = "RESOLVED" /\ outcome' = OutcomeOf({decision'[i] : i \in Items})
             ELSE status' = "IN_REVIEW" /\ UNCHANGED outcome

Next == Open \/ Start \/ Cancel \/ Decide

Spec == Init /\ [][Next]_vars
===========================================================================
