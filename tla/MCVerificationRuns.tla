------------------------- MODULE MCVerificationRuns -------------------------
(* Small instances of VerificationRuns. *)
EXTENDS VerificationRuns, TLC

CONSTANTS s1, s2, m, w, f1, f2, e1, e2, e3

\* An official source, one that only helps discovery, one that supports.
Classes ==
    [e \in Evidence |-> CASE e = e1 -> "AUTHORITATIVE_OFFICIAL"
                          [] e = e2 -> "SECONDARY_DISCOVERY_ONLY"
                          [] e = e3 -> "OFFICIAL_SUPPORTING"]

\* Clients disagree about the official source of f1; f2 has a weaker one.
Questions ==
    {<<f1, e1, "SUPPORTS">>, <<f1, e1, "CONTRADICTS">>, <<f2, e2, "SUPPORTS">>}

Linked == [f \in Fields |-> {e \in Evidence : \E a \in Stances : <<f, e, a>> \in Questions}]
Interpreter ==
    [x \in Fields \X Evidence |-> IF x[2] = e3 THEN "CONTRADICTS" ELSE "SUPPORTS"]

SessionSymmetry == Permutations({s1, s2})
=============================================================================
