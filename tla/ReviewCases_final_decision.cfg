\* Two overlapping sessions against what the documents say.
SPECIFICATION Spec
CONSTANTS
    s1 = s1  s2 = s2 
    a = a  b = b  sh = sh  A = A  B = B
    Shared = Shared
    NoSession = NoSession
    Sessions = {s1, s2}
    Items = {a, sh}
    Posts = {A}
    PostOf <- OnePost
    RevisionItems = {sh}
INVARIANTS
    FinalDecisionResolves
