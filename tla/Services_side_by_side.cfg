\* One part moves in each behaviour; several of them may stop.
SPECIFICATION ServicesSpec
CONSTANTS
    s1 = s1  s2 = s2  e1 = e1  e2 = e2  e3 = e3  f1 = f1  f2 = f2
    A = A  B = B  m = m  wk = wk  z = z  r1 = r1  r2 = r2  r3 = r3
    Revisions = {r1, r2, r3}
    Posts = {A}
    Shared = "shared"
    Full = "full"
    Policy <- Policies
    VerifiedAt <- Verifications
    Values = {"old", "new", "corrected"}
    Content <- Contents
    Sessions = {s1, s2}
    Fields = {f1, f2}
    Evidence = {e1, e2, e3}
    SourceClass <- Classified
    EndpointOf <- Endpoint
    Critical = {f1}
    Threshold <- Thresholds
    Found <- FoundFew
    PostReadings <- FewReadings
    Links <- LinkOnes
    Late <- LateOnes
    Rules <- SomeRules
    Applicants <- People
    NotStated = NotStated
    Text = Text
    Masters = {1, 2}
    MasterRevisions <- SomeRevisions
    Today = 400
    RecentDays = 30
    Year = 365
    Pages = {p1, p2}
    Attachments = {d1, d2}
    MaxListed = 5
    MaxVisits = 4
    MaxDetails = 3
    MaxNotices = 1
    Retries = 1
    TableRows <- SomeRows
    Tables <- SomeTables
    Trades <- SomeTrades
    Statements <- SomeStatements
    Unknown = Unknown
    MaxStatements = 2
    PublicClients = {g1, g2, g3}
    Overflow = overflow
    MaxRequests = 2
    Window = 3
    MaxBuckets = 2
CHECK_DEADLOCK FALSE
INVARIANTS
    EventsSound
    MasterWhole
    ScoringSound
    AnswersSound
    PublicSound
    SourcesSound
PROPERTIES
    CatalogueSpec
    SerialContracts
    WindowsKept
