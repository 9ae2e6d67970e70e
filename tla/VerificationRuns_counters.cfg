\* Two sessions finalize the two fields of one run at once.
\* A run that has ended takes no request, so the system may stop.
SPECIFICATION Spec
CONSTANTS
    s1 = s1  s2 = s2  m = m  w = w  f1 = f1  f2 = f2  e1 = e1  e2 = e2  e3 = e3
    ManualRuns = {m}
    WorkerRuns = {w}
    Fields = {f1, f2}
    Evidence = {e1, e2}
    SourceClass <- Classes
    Asked <- Questions
    Links <- Linked
    Interpretation <- Interpreter
    Sessions = {s1, s2}
SYMMETRY SessionSymmetry
CHECK_DEADLOCK FALSE
INVARIANTS
    CountersExact
