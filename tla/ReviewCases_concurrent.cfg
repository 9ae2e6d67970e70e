\* Two sessions on a Post's item and a shared item.
SPECIFICATION LiveSpec
CONSTANTS
    s1 = s1  s2 = s2
    a = a  b = b  sh = sh  A = A  B = B
    Shared = Shared
    NoSession = NoSession
    Sessions = {s1, s2}
    Items = {a, sh}
    Posts = {A}
    PostOf <- OnePost
    RevisionItems = {}
INVARIANTS
    TypeOK
    OutcomeFollowsDecisions
    ProjectionsAgree
    QuickCommits
PROPERTIES
    DecisionsFinal
    ResolvedFinal
    LedgerSpec
    RequestsEnd
