\* Two sessions publish the two Posts of one reviewed revision.
SPECIFICATION LiveSpec
CONSTANTS
    s1 = s1  s2 = s2  r1 = r1  r2 = r2  A = A  B = B
    Shared = Shared
    Full = Full
    Sessions = {s1, s2}
    Revisions = {r1}
    Posts = {A, B}
    Policy <- Reviewed
    VerifiedAt <- Times
    Values <- Contents
    Content <- SameContent
INVARIANTS
    TypeOK
    ApprovedOnly
    FullReplays
PROPERTIES
    PublicationsEnd
