------------------------- MODULE ReviewVocabulary -------------------------
(***************************************************************************)
(* The data a human review is about, shared by every review module: the    *)
(* items of one ReviewCase, the Post each item belongs to, the decisions a *)
(* reviewer may record and the outcome a complete set of them produces.    *)
(*                                                                         *)
(* A candidate value, a note, a reviewer name and a timestamp are          *)
(* abstracted: no property tells two of them apart.  An item is RESOLVED   *)
(* exactly when its ReviewDecision row exists (the code writes both in one *)
(* flush), so the decision stands for both.                                *)
(***************************************************************************)
EXTENDS FiniteSets

CONSTANTS
    Items,          \* the ReviewItems of the case
    Posts,          \* the explicit Posts of the advertisement, {} if unsplit
    Shared,         \* the post key None: an advertisement or revision item
    PostOf,         \* the post key in an item's field path
    RevisionItems   \* the items whose scope is REVISION

ASSUME ItemsAssumption ==
    /\ Items # {} /\ IsFiniteSet(Items)
    /\ Shared \notin Posts
    /\ PostOf \in [Items -> Posts \cup {Shared}]
    /\ RevisionItems \subseteq {i \in Items : PostOf[i] = Shared}

Decisions == {"APPROVE_AS_IS", "CORRECT_AND_APPROVE", "REJECT",
              "REQUEST_REVERIFICATION"}

None == "NONE"      \* no decision row, a NULL outcome, a missing case

Outcomes == {"APPROVED", "APPROVED_WITH_CORRECTIONS", "REJECTED",
             "REVERIFICATION_REQUESTED"}

\* Only a FIELD item can be corrected.
Allowed(i) ==
    IF i \in RevisionItems THEN Decisions \ {"CORRECT_AND_APPROVE"} ELSE Decisions

\* Mutant: a correction outranks a rejection.
OutcomeOfCorrections(given) ==
    CASE "REQUEST_REVERIFICATION" \in given -> "REVERIFICATION_REQUESTED"
      [] /\ "REQUEST_REVERIFICATION" \notin given
         /\ "CORRECT_AND_APPROVE" \in given -> "APPROVED_WITH_CORRECTIONS"
      [] /\ given \cap {"REQUEST_REVERIFICATION", "CORRECT_AND_APPROVE"} = {}
         /\ "REJECT" \in given -> "REJECTED"
      [] OTHER -> "APPROVED"

\* What the decisions of all items say about the case, strongest first.
OutcomeOf(given) ==
    CASE "REQUEST_REVERIFICATION" \in given -> "REVERIFICATION_REQUESTED"
      [] "REQUEST_REVERIFICATION" \notin given /\ "REJECT" \in given -> "REJECTED"
      [] /\ given \cap {"REQUEST_REVERIFICATION", "REJECT"} = {}
         /\ "CORRECT_AND_APPROVE" \in given -> "APPROVED_WITH_CORRECTIONS"
      [] OTHER -> "APPROVED"

\* The items a review of post key k covers: its own and the shared ones.
ScopeOf(k) == {i \in Items : PostOf[i] \in {Shared, k}}
===========================================================================
