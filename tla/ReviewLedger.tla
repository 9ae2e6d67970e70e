--------------------------- MODULE ReviewLedger ---------------------------
(***************************************************************************)
(* What ReviewService keeps when its sessions overlap: a ledger in which   *)
(* each item's decision is written at most once, and only after the case   *)
(* was started, and a verdict that is the outcome of all the decisions and *)
(* is never taken back.  It promises less than ReviewLifecycle: the last   *)
(* decision may leave the case unresolved, and a cancellation may be       *)
(* followed by decisions and even by a verdict.                            *)
(***************************************************************************)
EXTENDS ReviewVocabulary

VARIABLES status, started, outcome, decision

vars == <<status, started, outcome, decision>>

AllDecided(d) == \A i \in Items : d[i] # None

Init ==
    /\ status = None /\ started = FALSE /\ outcome = None
    /\ decision = [i \in Items |-> None]

Open ==
    /\ status = None /\ status' = "QUEUED"
    /\ UNCHANGED <<started, outcome, decision>>

Start ==
    /\ status = "QUEUED" /\ status' = "IN_REVIEW"
    /\ started' = TRUE
    /\ UNCHANGED <<outcome, decision>>

Cancel ==
    /\ status \in {"QUEUED", "IN_REVIEW"} /\ status' = "CANCELLED"
    /\ UNCHANGED <<started, outcome, decision>>

\* Add decisions for undecided items of a started case, or of a queued one
\* that is started with them.
AddDecisions ==
    /\ started \/ status = "QUEUED"
    /\ started' = TRUE
    /\ decision' \in [Items -> Decisions \cup {None}]
    /\ \A i \in Items :
          \/ decision'[i] = decision[i]
          \/ decision[i] = None /\ decision'[i] \in Allowed(i)

Record ==
    /\ AddDecisions
    /\ status' = IF status = "QUEUED" THEN "IN_REVIEW" ELSE status
    /\ UNCHANGED outcome

\* The verdict, with the last decisions or after them.
Resolve ==
    /\ AddDecisions
    /\ outcome = None
    /\ AllDecided(decision')
    /\ status' = "RESOLVED"
    /\ outcome' = OutcomeOf({decision'[i] : i \in Items})

Next == Open \/ Start \/ Cancel \/ Record \/ Resolve

Spec == Init /\ [][Next]_vars
===========================================================================
