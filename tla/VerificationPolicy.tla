------------------------- MODULE VerificationPolicy -------------------------
(***************************************************************************)
(* The deterministic policy by which a field verification is finalized:    *)
(* the result that VerificationService computes from the assessments of a  *)
(* field's Evidence, and, as a reference, the relation between a result    *)
(* and the assessments it follows from.                                    *)
(***************************************************************************)
EXTENDS Naturals, FiniteSets

CONSTANTS
    Evidence,
    SourceClass     \* the class of the endpoint an Evidence comes from

SourceClasses ==
    {"AUTHORITATIVE_OFFICIAL", "OFFICIAL_SUPPORTING", "SECONDARY_DISCOVERY_ONLY"}
Stances == {"SUPPORTS", "CONTRADICTS"}
Assessments == Stances \cup {"CONTEXT_ONLY"}
Outcomes == {"CONFIRMED", "CONFLICT", "INSUFFICIENT_EVIDENCE", "NOT_APPLICABLE"}

ASSUME PolicyAssumption ==
    /\ IsFiniteSet(Evidence)
    /\ SourceClass \in [Evidence -> SourceClasses]

NoResult == <<"none", "none">>
Results ==
    {NoResult} \cup (Outcomes \X
        {"AUTHORITATIVE_CONFLICT", "AUTHORITATIVE_SUPPORT", "SOURCE_CONFLICT",
         "NO_EVIDENCE", "ONLY_SECONDARY_EVIDENCE", "INSUFFICIENT_SUPPORT",
         "MANUALLY_MARKED_NOT_APPLICABLE"})

----------------------------------------------------------------------------
(* What the service computes.  seen is the assessment of each Evidence. *)

Seen == [Evidence -> Assessments \cup {"none"}]
Unassessed == [e \in Evidence |-> "none"]

\* An assessment stays as it is.
Extends(seen, later) == \A e \in Evidence : seen[e] # "none" => later[e] = seen[e]

Tally(seen) ==
    [x \in SourceClasses \X Stances |->
        Cardinality({e \in Evidence : SourceClass[e] = x[1] /\ seen[e] = x[2]})]

Evaluated(seen) == Cardinality({e \in Evidence : seen[e] # "none"})

\* Support and contradiction by sources that are not authoritative.
Weaker(t, k) ==
    t[<<"OFFICIAL_SUPPORTING", k>>] + t[<<"SECONDARY_DISCOVERY_ONLY", k>>]

\* _determine_outcome of a field that was not marked as not applicable.
Determined(t, n) ==
    CASE t[<<"AUTHORITATIVE_OFFICIAL", "CONTRADICTS">>] > 0 ->
            <<"CONFLICT", "AUTHORITATIVE_CONFLICT">>
      [] t[<<"AUTHORITATIVE_OFFICIAL", "CONTRADICTS">>] = 0
         /\ t[<<"AUTHORITATIVE_OFFICIAL", "SUPPORTS">>] > 0 ->
            <<"CONFIRMED", "AUTHORITATIVE_SUPPORT">>
      [] OTHER ->
            IF Weaker(t, "SUPPORTS") > 0 /\ Weaker(t, "CONTRADICTS") > 0
            THEN <<"CONFLICT", "SOURCE_CONFLICT">>
            ELSE <<"INSUFFICIENT_EVIDENCE",
                   IF n = 0 THEN "NO_EVIDENCE"
                   ELSE IF /\ t[<<"SECONDARY_DISCOVERY_ONLY", "SUPPORTS">>] > 0
                           /\ t[<<"OFFICIAL_SUPPORTING", "SUPPORTS">>] = 0
                           /\ Weaker(t, "CONTRADICTS") = 0
                        THEN "ONLY_SECONDARY_EVIDENCE"
                        ELSE "INSUFFICIENT_SUPPORT">>

ResultOf(seen, notApplicable) ==
    IF notApplicable THEN <<"NOT_APPLICABLE", "MANUALLY_MARKED_NOT_APPLICABLE">>
    ELSE Determined(Tally(seen), Evaluated(seen))

----------------------------------------------------------------------------
(* What it is to mean. *)

\* The policy as a relation between a result and the assessments it is made of.
Says(seen, stance, classes) ==
    \E e \in Evidence : seen[e] = stance /\ SourceClass[e] \in classes
Official == {"AUTHORITATIVE_OFFICIAL"}
Other == SourceClasses \ Official

Follows(result, seen) ==
    CASE result[2] = "AUTHORITATIVE_CONFLICT" ->
            result[1] = "CONFLICT" /\ Says(seen, "CONTRADICTS", Official)
      [] result[2] = "AUTHORITATIVE_SUPPORT" ->
            /\ result[1] = "CONFIRMED" /\ Says(seen, "SUPPORTS", Official)
            /\ ~Says(seen, "CONTRADICTS", Official)
      [] result[2] = "SOURCE_CONFLICT" ->
            /\ result[1] = "CONFLICT" /\ \A e \in Evidence :
                    seen[e] \in Stances => SourceClass[e] \in Other
            /\ Says(seen, "SUPPORTS", Other) /\ Says(seen, "CONTRADICTS", Other)
      [] result[2] = "NO_EVIDENCE" ->
            result[1] = "INSUFFICIENT_EVIDENCE" /\ seen = Unassessed
      [] result[2] = "ONLY_SECONDARY_EVIDENCE" ->
            /\ result[1] = "INSUFFICIENT_EVIDENCE" /\ Says(seen, "SUPPORTS", Other)
            /\ \A e \in Evidence : seen[e] \in Stances =>
                    seen[e] = "SUPPORTS" /\ SourceClass[e] = "SECONDARY_DISCOVERY_ONLY"
      [] result[2] = "INSUFFICIENT_SUPPORT" ->
            /\ result[1] = "INSUFFICIENT_EVIDENCE" /\ seen # Unassessed
            /\ \A e \in Evidence : seen[e] \in Stances => SourceClass[e] \in Other
            /\ ~(Says(seen, "SUPPORTS", Other) /\ Says(seen, "CONTRADICTS", Other))
      [] OTHER -> result[1] = "NOT_APPLICABLE"
=============================================================================
