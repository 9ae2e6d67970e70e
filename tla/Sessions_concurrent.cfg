\* Two sessions; one part moves in each behaviour.  Maintenance may stop, and
\* so may verification: a run that has ended takes no request.
SPECIFICATION SessionsSpec
CONSTANTS
    s1 = s1  s2 = s2  c1 = c1  c2 = c2  x1 = x1  x2 = x2  t1 = t1  t2 = t2
    m = m  w = w  f1 = f1  f2 = f2  e1 = e1  e2 = e2
    ApiRuns = {r1}
    CrawlRuns = {r2}
    Urls = {u}
    Contents = {c1, c2}
    FieldSets = {x1, x2}
    FieldsOf <- ReadBy
    Clients = {s1, s2}
    Workers = {s1, s2}
    Monitors = {s1, s2}
    Channels = {1}
    MaxHistory = 2
    MaxLost = 1
    MaxFailed = 1
    Operators = {s1, s2}
    ManualRuns = {m}
    WorkerRuns = {w}
    Fields = {f1, f2}
    Evidence = {e1, e2}
    SourceClass <- Classed
    Asked <- Questions
    Links <- Linked
    Interpretation <- Interpreter
    Sessions = {s1, s2}
    Texts = {t1, t2}
    Missing = Missing
    Readings <- SomeReadings
    MaxRevisions = 3
    MaxDocuments = 1
CHECK_DEADLOCK FALSE
INVARIANTS
    DiscoveryTypeOK
    DiscoverySound
    NoticesSound
    MaintenanceSound
    RunsTypeOK
    CompletedWhole
    FindingsJustified
    OutcomesCounted
    WorkerExact
PROPERTIES
    RecordsKept
    RunsKept
SYMMETRY Symmetry
