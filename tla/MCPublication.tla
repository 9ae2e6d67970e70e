--------------------------- MODULE MCPublication ---------------------------
(* Small instances of Publication. *)
EXTENDS Publication, TLC

CONSTANTS s1, s2, r1, r2, A, B

\* What a revision holds of a key: a correction changes it, and the fields
\* of a Post are the same in all revisions.
Contents == {"old", "new", "corrected"}
SameContent ==
    [x \in Revisions \X Keys \X BOOLEAN |-> IF x[3] THEN "corrected" ELSE "old"]

\* The second revision changes one key.
Changed(key) ==
    [x \in DOMAIN SameContent |->
        IF x = <<r2, key, FALSE>> THEN "new" ELSE SameContent[x]]
ChangedPost == Changed(A)

Reviewed == [r \in Revisions |-> "V2"]
Direct == [r \in Revisions |-> "DIRECT"]
Mixed == [r \in Revisions |-> IF r = r1 THEN "V2" ELSE "DIRECT"]

\* The first revision is verified first.
Times == [r \in Revisions |-> IF r = r1 THEN 1 ELSE 2]

SessionSymmetry == Permutations({s1, s2})
=============================================================================
