--------------------------- MODULE MCReviewCases ---------------------------
(* Small instances of ReviewCases. *)
EXTENDS ReviewCases, TLC

CONSTANTS s1, s2, a, b, sh, A, B

\* One Post with an item of its own and one of the advertisement.
OnePost == (a :> A) @@ (sh :> Shared)

SessionSymmetry == Permutations({s1, s2})
=============================================================================
