\* Two sessions publish a reviewed and an unreviewed revision.
SPECIFICATION Spec
CONSTANTS
    s1 = s1  s2 = s2  r1 = r1  r2 = r2  A = A  B = B
    Shared = Shared
    Full = Full
    Sessions = {s1, s2}
    Revisions = {r1, r2}
    Posts = {A}
    Policy <- Mixed
    VerifiedAt <- Times
    Values <- Contents
    Content <- ChangedPost
SYMMETRY SessionSymmetry
PROPERTIES
    UnchangedRefreshes
