------------------------- MODULE VerificationProofs -------------------------
(***************************************************************************)
(* Proofs about VerificationRuns, for any runs, fields, Evidence, sources  *)
(* and sessions.                                                           *)
(***************************************************************************)
EXTENDS VerificationRuns, PolicyProofs, FiniteSetTheorems, TLAPS

LEMMA RunsApart == \A r \in ManualRuns, q \in WorkerRuns : r # q
BY VerificationAssumption

----------------------------------------------------------------------------
(* The inductive invariant, run by run and request by request. *)

Justified(r, f) ==
    /\ \E S \in SUBSET Evidence : Follows(finding[r][f].result, Among(r, f, S))
    /\ \A x \in SourceClasses \X Stances :
          finding[r][f].tally[x] <= Tally(assessed[r][f])[x]
    /\ finding[r][f].count <= Evaluated(assessed[r][f])

Exact(r) ==
    run[r].status # "ABSENT" =>
        /\ run[r].status = "COMPLETED" /\ run[r].counter = CountersOf(r)
        /\ \A f \in Fields :
              /\ Follows(finding[r][f].result, assessed[r][f])
              /\ finding[r][f].tally = Tally(assessed[r][f])
              /\ finding[r][f].count = Evaluated(assessed[r][f])
              /\ Links[f] = {e \in Evidence : assessed[r][f][e] # "none"}

Sound(r) ==
    /\ LifecycleCheck(run[r]) /\ AbsentBare(r) /\ PendingBare(r)
    /\ run[r].status = "COMPLETED" => FinalizedFields(r) = Fields
    /\ \A f \in FinalizedFields(r) :
          Justified(r, f) /\ run[r].counter[finding[r][f].result[1]] > 0
    /\ r \in WorkerRuns => Exact(r)

RowsTyped ==
    /\ run \in [Runs -> [status : Ends \cup {"ABSENT", "PENDING", "RUNNING"},
                         ended : BOOLEAN, counter : Counters]]
    /\ finding \in [Runs -> [Fields -> Findings]]
    /\ assessed \in [Runs -> [Fields -> Seen]]

SessionsTyped ==
    /\ pc \in [Sessions -> {"idle", "load", "run", "count", "commit"}]
    /\ req \in [Sessions -> Requests]
    /\ saw \in [Sessions -> Seen]
    /\ read \in [Sessions -> Counters]

RequestsHold == \A s \in Sessions : pc[s] # "idle" => RequestOf(s)

LEMMA InvariantByRun ==
    InductiveInvariant <=>
        RowsTyped /\ SessionsTyped /\ RequestsHold /\ \A r \in Runs : Sound(r)
<1>1. RunsTypeOK <=> RowsTyped /\ SessionsTyped
  BY DEF RunsTypeOK, RowsTyped, SessionsTyped
<1>2. FindingsJustified <=>
        \A r \in Runs : \A f \in FinalizedFields(r) : Justified(r, f)
  BY DEF FindingsJustified, Justified
<1>3. WorkerExact <=> \A r \in Runs : r \in WorkerRuns => Exact(r)
  BY DEF WorkerExact, Exact, Runs
<1> QED
  BY <1>1, <1>2, <1>3
  DEF InductiveInvariant, Sound, RequestsHold, CompletedWhole, OutcomesCounted

LEMMA InvariantByRunNext ==
    InductiveInvariant' <=>
        (RowsTyped /\ SessionsTyped /\ RequestsHold /\ \A r \in Runs : Sound(r))'
BY InvariantByRun, PTL

\* What no step undoes.
RunGrows(r) ==
    /\ run[r].status # "ABSENT" => run'[r].status # "ABSENT"
    /\ run[r].status \in Ends => run'[r].status \in Ends
    /\ \A f \in Fields :
          /\ finding[r][f].status # "ABSENT" => finding'[r][f].status # "ABSENT"
          /\ finding[r][f].status = "FINALIZED" => finding'[r][f].status = "FINALIZED"
          /\ Extends(assessed[r][f], assessed'[r][f])

\* A run whose rows a step leaves alone stays as it is.
LEMMA RunKept ==
    ASSUME NEW r \in Runs, Sound(r),
           run'[r] = run[r], finding'[r] = finding[r], assessed'[r] = assessed[r]
    PROVE  Sound(r)' /\ RunGrows(r)
<1>1. FinalizedFields(r)' = FinalizedFields(r)
  BY DEF FinalizedFields
<1>2. CountersOf(r)' = CountersOf(r)
  BY <1>1 DEF CountersOf
<1>3. Exact(r) => Exact(r)'
  BY <1>2 DEF Exact
<1>4. \A f \in Fields : Justified(r, f) => Justified(r, f)'
  BY DEF Justified, Among
<1>5. \A f \in FinalizedFields(r) : f \in Fields
  BY DEF FinalizedFields
<1>6. /\ LifecycleCheck(run[r]) => LifecycleCheck(run[r])'
      /\ AbsentBare(r) => AbsentBare(r)'
      /\ PendingBare(r) => PendingBare(r)'
  BY DEF LifecycleCheck, AbsentBare, PendingBare
<1>7. Sound(r)'
  BY <1>1, <1>3, <1>4, <1>5, <1>6 DEF Sound
<1>8. RunGrows(r)
  BY DEF RunGrows, Extends
<1> QED
  BY <1>7, <1>8

\* The requests under way survive whatever the others commit.
LEMMA RequestKept ==
    ASSUME NEW s \in Sessions, RequestOf(s), \A r \in Runs : RunGrows(r),
           pc'[s] = pc[s], req'[s] = req[s], saw'[s] = saw[s]
    PROVE  RequestOf(s)'
<1> DEFINE r == req[s].run
           f == req[s].field
<1>1. r \in ManualRuns /\ r \in Runs
  BY DEF RequestOf, Runs
<1>2. RunGrows(r)
  BY <1>1
<1>3. FinalizedFields(r) = Fields => FinalizedFields(r)' = Fields
  BY <1>2 DEF RunGrows, FinalizedFields
<1>4. f \in Fields => (finding[r][f].status # "ABSENT" => finding'[r][f].status # "ABSENT")
  BY <1>2 DEF RunGrows
<1>5. f \in Fields => (Extends(saw[s], assessed[r][f]) => Extends(saw[s], assessed'[r][f]))
  BY <1>2 DEF RunGrows, Extends
<1>6. run[r].status # "ABSENT" => run'[r].status # "ABSENT"
  BY <1>2 DEF RunGrows
<1>7. FinalizedFields(req[s].run)' = {g \in Fields : finding'[r][g].status = "FINALIZED"}
  BY DEF FinalizedFields
<1> QED
  BY <1>1, <1>3, <1>4, <1>5, <1>6 DEF RequestOf, FinalizedFields

----------------------------------------------------------------------------
(* Steps that change no row. *)

\* A request loses its guarantees or keeps them; the rows are as they were.
LEMMA RowsKept ==
    ASSUME InductiveInvariant, UNCHANGED rows
    PROVE  RowsTyped' /\ \A r \in Runs : Sound(r)' /\ RunGrows(r)
<1>1. RowsTyped'
  BY InvariantByRun DEF RowsTyped, rows
<1>2. ASSUME NEW r \in Runs
      PROVE  Sound(r)' /\ RunGrows(r)
  BY <1>2, InvariantByRun, RunKept DEF rows
<1> QED
  BY <1>1, <1>2

\* What becomes of one session settles what becomes of the invariant.
LEMMA SessionStep ==
    ASSUME InductiveInvariant, UNCHANGED rows, SessionsTyped',
           NEW s \in Sessions, pc'[s] # "idle" => RequestOf(s)',
           \A t \in Sessions : t # s =>
                pc'[t] = pc[t] /\ req'[t] = req[t] /\ saw'[t] = saw[t]
    PROVE  InductiveInvariant'
<1>1. RowsTyped' /\ \A r \in Runs : Sound(r)' /\ RunGrows(r)
  BY RowsKept
<1>2. RequestsHold'
  <2> SUFFICES ASSUME NEW t \in Sessions, pc'[t] # "idle"
               PROVE  RequestOf(t)'
    BY DEF RequestsHold
  <2>1. CASE t = s
    BY <2>1
  <2>2. CASE t # s
    <3>1. pc'[t] = pc[t] /\ req'[t] = req[t] /\ saw'[t] = saw[t]
      BY <2>2
    <3>2. RequestOf(t)
      BY <3>1, InvariantByRun DEF RequestsHold
    <3> QED
      BY <1>1, <3>1, <3>2, RequestKept
  <2> QED
    BY <2>1, <2>2
<1> QED
  BY <1>1, <1>2, InvariantByRunNext

LEMMA ManualOfRunning ==
    ASSUME InductiveInvariant, NEW r \in Runs,
           \/ run[r].status \in {"PENDING", "RUNNING"}
           \/ \E f \in Fields : finding[r][f].status = "PENDING"
    PROVE  r \in ManualRuns /\ run[r].status # "ABSENT"
<1>1. Sound(r)
  BY InvariantByRun
<1>2. run[r].status # "ABSENT"
  BY <1>1 DEF Sound, AbsentBare
<1>3. run[r].status = "COMPLETED" => \A f \in Fields : finding[r][f].status = "FINALIZED"
  BY <1>1 DEF Sound, FinalizedFields
<1>4. run[r].status # "COMPLETED"
  BY <1>3
<1>5. r \notin WorkerRuns
  BY <1>1, <1>2, <1>4 DEF Sound, Exact
<1> QED
  BY <1>2, <1>5 DEF Runs

\* What a step of session s that changes no row has to show.
Begun(s) ==
    /\ UNCHANGED rows /\ SessionsTyped' /\ RequestOf(s)'
    /\ \A t \in Sessions : t # s =>
          pc'[t] = pc[t] /\ req'[t] = req[t] /\ saw'[t] = saw[t]

\* A new request has what its kind relies on.
LEMMA BeginSafe ==
    ASSUME InductiveInvariant, NEW s \in Sessions, Request(s)
    PROVE  InductiveInvariant' /\ UNCHANGED rows
<1> USE DEF Begin, RunRequest, FieldRequest, NoReq
<1>0. SessionsTyped /\ RowsTyped
  BY InvariantByRun
<1>1. PICK r \in Runs :
         \/ BeginStart(s, r)
         \/ \E end \in Ends : BeginComplete(s, r, end)
         \/ \E f \in Fields :
               \/ BeginField(s, r, f)
               \/ \E e \in Evidence, a \in Assessments : BeginAssess(s, r, f, e, a)
               \/ \E arg \in {"applicable", "not_applicable"} :
                     BeginFinalize(s, r, f, arg)
  BY DEF Request
<1> SUFFICES Begun(s)
  BY SessionStep DEF Begun
<1>2. CASE BeginStart(s, r)
  BY <1>0, <1>2, ManualOfRunning
  DEF BeginStart, SessionsTyped, Requests, RequestOf, KindAt, rows, Begun
<1>3. ASSUME NEW end \in Ends, BeginComplete(s, r, end)
      PROVE  Begun(s)
  BY <1>0, <1>3, ManualOfRunning
  DEF BeginComplete, SessionsTyped, Requests, RequestOf, KindAt, rows, Begun
<1>4. ASSUME NEW f \in Fields, BeginField(s, r, f)
      PROVE  Begun(s)
  BY <1>0, <1>4, ManualOfRunning
  DEF BeginField, SessionsTyped, Requests, RequestOf, KindAt, rows, Begun
<1>5. ASSUME NEW f \in Fields, NEW e \in Evidence, NEW a \in Assessments,
             BeginAssess(s, r, f, e, a)
      PROVE  Begun(s)
  BY <1>0, <1>5, ManualOfRunning
  DEF BeginAssess, SessionsTyped, Requests, RequestOf, KindAt, rows, Begun
<1>6. ASSUME NEW f \in Fields, NEW arg \in {"applicable", "not_applicable"},
             BeginFinalize(s, r, f, arg)
      PROVE  Begun(s)
  BY <1>0, <1>6, ManualOfRunning
  DEF BeginFinalize, SessionsTyped, Requests, RequestOf, KindAt, rows, Begun
<1> QED
  BY <1>1, <1>2, <1>3, <1>4, <1>5, <1>6

\* Of a finite set of fields only the whole has as many members.
LEMMA AllCounted ==
    ASSUME NEW S \in SUBSET Fields, Cardinality(S) = Cardinality(Fields)
    PROVE  S = Fields
BY VerificationAssumption, FS_Subset

\* A request that reads keeps what it relies on, and one that counts the
\* finalized fields learns that they are all fields.
LEMMA ReadSafe ==
    ASSUME InductiveInvariant, NEW s \in Sessions,
           LoadAssessments(s) \/ CheckRun(s) \/ CountFinalized(s)
    PROVE  InductiveInvariant' /\ UNCHANGED rows
<1>1. SessionsTyped /\ RowsTyped
  BY InvariantByRun
<1>2. pc[s] # "idle"
  BY DEF LoadAssessments, CheckRun, CountFinalized
<1>3. RequestOf(s)
  BY <1>2, InvariantByRun DEF RequestsHold
<1>4. req[s].run \in Runs
  BY <1>3 DEF RequestOf, Runs
<1> SUFFICES Begun(s)
  BY SessionStep DEF Begun
<1>5. CASE LoadAssessments(s)
  <2>1. req[s].field \in Fields /\ req[s].kind = "finalize"
    BY <1>3, <1>5 DEF LoadAssessments, RequestOf, KindAt
  <2>2. SessionsTyped'
    BY <1>1, <1>4, <1>5, <2>1 DEF LoadAssessments, SessionsTyped, RowsTyped
  <2>3. RequestOf(s)'
    BY <1>1, <1>3, <1>5, <2>1
    DEF LoadAssessments, RequestOf, KindAt, SessionsTyped, Extends, rows
  <2> QED
    BY <1>5, <2>2, <2>3 DEF LoadAssessments, Begun, SessionsTyped, rows
<1>6. CASE CheckRun(s)
  <2>1. req[s].kind \in {"assess", "finalize"}
    BY <1>3, <1>6 DEF CheckRun, RequestOf, KindAt
  <2>2. SessionsTyped'
    BY <1>1, <1>4, <1>6 DEF CheckRun, SessionsTyped, RowsTyped
  <2>3. RequestOf(s)'
    BY <1>1, <1>3, <1>6, <2>1
    DEF CheckRun, RequestOf, KindAt, SessionsTyped, rows
  <2> QED
    BY <1>6, <2>2, <2>3 DEF CheckRun, Begun, SessionsTyped, rows
<1>7. CASE CountFinalized(s)
  <2>1. req[s].kind = "complete"
    BY <1>3, <1>7 DEF CountFinalized, RequestOf, KindAt
  <2>2. SessionsTyped'
    BY <1>1, <1>7 DEF CountFinalized, SessionsTyped
  <2>3. req[s].arg = "COMPLETED" => FinalizedFields(req[s].run) = Fields
    <3>1. FinalizedFields(req[s].run) \in SUBSET Fields
      BY DEF FinalizedFields
    <3> QED
      BY <1>7, <3>1, AllCounted DEF CountFinalized, CountsTo
  <2>4. RequestOf(s)'
    <3>1. /\ req'[s] = req[s] /\ saw'[s] = saw[s] /\ pc'[s] = "commit"
          /\ run' = run /\ finding' = finding /\ assessed' = assessed
      BY <1>1, <1>7 DEF CountFinalized, SessionsTyped, rows
    <3>2. FinalizedFields(req[s].run)' = FinalizedFields(req[s].run)
      BY <3>1 DEF FinalizedFields
    <3> QED
      BY <1>3, <2>1, <2>3, <3>1, <3>2 DEF RequestOf, KindAt
  <2> QED
    BY <1>7, <2>2, <2>4 DEF CountFinalized, Begun, SessionsTyped, rows
<1> QED
  BY <1>5, <1>6, <1>7

LEMMA QuietTyped ==
    ASSUME SessionsTyped, NEW s \in Sessions, Quiet(s)
    PROVE  /\ SessionsTyped' /\ pc'[s] = "idle"
           /\ \A t \in Sessions : t # s =>
                 pc'[t] = pc[t] /\ req'[t] = req[t] /\ saw'[t] = saw[t]
<1>1. NoReq \in Requests /\ Unassessed \in Seen /\ NoCounters \in Counters
  <2>1. Cardinality(Fields) \in Nat
    BY VerificationAssumption, FS_CardinalityType
  <2> QED
    BY <2>1 DEF NoReq, Requests, Unassessed, Seen, NoCounters, Counters
<1> QED
  BY <1>1 DEF Quiet, SessionsTyped

LEMMA AbandonSafe ==
    ASSUME InductiveInvariant, NEW s \in Sessions, Abandon(s)
    PROVE  InductiveInvariant' /\ UNCHANGED rows
BY InvariantByRun, QuietTyped, SessionStep DEF Abandon

----------------------------------------------------------------------------
(* Steps that change the rows of one run. *)

\* What a step that writes rows of run r, and only of r, has to show.
Written(r) ==
    /\ RowsTyped' /\ Sound(r)' /\ RunGrows(r)
    /\ \A q \in Runs : q # r =>
          run'[q] = run[q] /\ finding'[q] = finding[q] /\ assessed'[q] = assessed[q]

LEMMA RunStep ==
    ASSUME InductiveInvariant, NEW r \in Runs, Written(r), SessionsTyped',
           \A t \in Sessions : pc'[t] # "idle" =>
                pc'[t] = pc[t] /\ req'[t] = req[t] /\ saw'[t] = saw[t]
    PROVE  InductiveInvariant' /\ \A q \in Runs : RunGrows(q)
<1>1. ASSUME NEW q \in Runs
      PROVE  Sound(q)' /\ RunGrows(q)
  <2>1. CASE q = r
    BY <2>1 DEF Written
  <2>2. CASE q # r
    BY <2>2, InvariantByRun, RunKept DEF Written
  <2> QED
    BY <2>1, <2>2
<1>2. RequestsHold'
  <2> SUFFICES ASSUME NEW t \in Sessions, pc'[t] # "idle"
               PROVE  RequestOf(t)'
    BY DEF RequestsHold
  <2>1. pc'[t] = pc[t] /\ req'[t] = req[t] /\ saw'[t] = saw[t]
    OBVIOUS
  <2>2. RequestOf(t)
    BY <2>1, InvariantByRun DEF RequestsHold
  <2> QED
    BY <1>1, <2>1, <2>2, RequestKept
<1> QED
  BY <1>1, <1>2, InvariantByRunNext DEF Written

LEMMA RowTimed ==
    ASSUME NEW status
    PROVE  LifecycleCheck(RunRow(status))
BY DEF LifecycleCheck, RunRow

LEMMA CreateSafe ==
    ASSUME InductiveInvariant, NEW r \in ManualRuns, CreateRun(r)
    PROVE  InductiveInvariant' /\ \A q \in Runs : RunGrows(q)
<1>1. RowsTyped /\ SessionsTyped /\ r \in Runs /\ Sound(r)
  BY InvariantByRun DEF Runs
<1>2. NoCounters \in Counters
  <2>1. Cardinality(Fields) \in Nat
    BY VerificationAssumption, FS_CardinalityType
  <2> QED
    BY <2>1 DEF NoCounters, Counters
<1>3. RowsTyped'
  BY <1>1, <1>2 DEF CreateRun, RowsTyped, RunRow
<1>4. /\ run'[r] = RunRow("PENDING") /\ run[r].status = "ABSENT"
      /\ finding' = finding /\ assessed' = assessed
      /\ \A q \in Runs : q # r => run'[q] = run[q]
  BY <1>1 DEF CreateRun, RowsTyped
<1>5. /\ run'[r].status = "PENDING" /\ LifecycleCheck(run'[r])
      /\ "PENDING" \notin Ends /\ "ABSENT" \notin Ends
  BY <1>4, RowTimed DEF RunRow, Ends
<1>6. FinalizedFields(r)' = {} /\ FinalizedFields(r) = {}
  BY <1>1, <1>4 DEF Sound, AbsentBare, FinalizedFields
<1>7. Sound(r)'
  BY <1>1, <1>4, <1>5, <1>6, RunsApart
  DEF Sound, AbsentBare, PendingBare
<1>8. Written(r)
  BY <1>3, <1>4, <1>5, <1>7 DEF Written, RunGrows, Extends
<1> QED
  BY <1>1, <1>8, RunStep DEF CreateRun, SessionsTyped

LEMMA InterpretedSeen ==
    ASSUME NEW f \in Fields
    PROVE  Interpreted(f) \in Seen /\ Links[f] = {e \in Evidence : Interpreted(f)[e] # "none"}
BY VerificationAssumption DEF Interpreted, Seen, Assessments, Stances

\* A finding that the worker makes counts all that was interpreted.
LEMMA WorkerFindingOf ==
    ASSUME NEW f \in Fields
    PROVE  /\ WorkerFinding(f) \in Findings /\ WorkerFinding(f).status = "FINALIZED"
           /\ WorkerFinding(f).result = ResultOf(Interpreted(f), FALSE)
           /\ WorkerFinding(f).result[1] \in Outcomes
           /\ Follows(WorkerFinding(f).result, Interpreted(f))
           /\ WorkerFinding(f).tally = Tally(Interpreted(f))
           /\ WorkerFinding(f).count = Evaluated(Interpreted(f))
<1> DEFINE seen == Interpreted(f)
           found == ResultOf(seen, FALSE)
<1>1. /\ ResultOf(seen, FALSE) \in Results \ {NoResult}
      /\ Follows(ResultOf(seen, FALSE), seen)
  BY InterpretedSeen, PolicyMeetsReference
<1>2. Tally(seen) \in [SourceClasses \X Stances -> 0..Cardinality(Evidence)]
  BY TallyType
<1>3. Evaluated(seen) \in 0..Cardinality(Evidence)
  BY EvaluatedOf
<1>4. Tally(seen) = [x \in SourceClasses \X Stances |-> Tally(seen)[x]]
  BY <1>2
<1>5. Cardinality(Evidence) \in Nat
  BY PolicyAssumption, FS_CardinalityType
<1> HIDE DEF seen
<1>6. [x \in SourceClasses \X Stances |-> Counted(Tally(seen)[x], NoTally[x])] = Tally(seen)
  BY <1>2, <1>4 DEF Counted, NoTally
<1>7. Counted(Evaluated(seen), 0) = Evaluated(seen)
  BY DEF Counted
<1>8. WorkerFinding(f) =
         [status |-> "FINALIZED", result |-> ResultOf(seen, FALSE),
          tally |-> Tally(seen), count |-> Evaluated(seen)]
  BY <1>6, <1>7 DEF WorkerFinding, Finalized, Finding, seen
<1>9. ResultOf(seen, FALSE)[1] \in Outcomes
  BY <1>1 DEF Results, NoResult
<1>10. /\ WorkerFinding(f).status = "FINALIZED"
       /\ WorkerFinding(f).result = ResultOf(seen, FALSE)
       /\ WorkerFinding(f).tally = Tally(seen)
       /\ WorkerFinding(f).count = Evaluated(seen)
  BY <1>8
<1>11. WorkerFinding(f) \in Findings
  <2>1. found \in Results
    BY <1>1
  <2> HIDE DEF found
  <2>2. WorkerFinding(f) = [status |-> "FINALIZED", result |-> found,
                            tally |-> Tally(seen), count |-> Evaluated(seen)]
    BY <1>8 DEF found
  <2> QED
    BY <1>2, <1>3, <2>1, <2>2 DEF Findings
<1>12. /\ WorkerFinding(f).result[1] \in Outcomes
       /\ Follows(WorkerFinding(f).result, seen)
  BY <1>1, <1>9, <1>10
<1> QED
  BY <1>10, <1>11, <1>12, Zenon DEF seen

\* Fields are counted by a natural number, 0 only if there is none.
LEMMA FieldCount ==
    ASSUME NEW S \in SUBSET Fields
    PROVE  /\ Cardinality(S) \in 0..Cardinality(Fields)
           /\ Cardinality(S) = 0 <=> S = {}
<1>1. IsFiniteSet(Fields) /\ IsFiniteSet(S) /\ Cardinality(S) <= Cardinality(Fields)
  BY VerificationAssumption, FS_Subset
<1>2. Cardinality(Fields) \in Nat /\ Cardinality(S) \in Nat
  BY <1>1, FS_CardinalityType
<1>3. Cardinality(S) = 0 <=> S = {}
  BY <1>1, FS_EmptySet
<1> QED
  BY <1>1, <1>2, <1>3

\* The run a worker makes is sound and exact.
LEMMA WorkerSafe ==
    ASSUME InductiveInvariant, NEW r \in WorkerRuns, WorkerRun(r)
    PROVE  InductiveInvariant' /\ \A q \in Runs : RunGrows(q)
<1>1. RowsTyped /\ SessionsTyped /\ r \in Runs /\ Sound(r)
  BY InvariantByRun DEF Runs
<1> DEFINE row == [RunRow("COMPLETED") EXCEPT !.counter = WorkerCounters]
<1>2. /\ run[r].status = "ABSENT" /\ run'[r] = row
      /\ \A f \in Fields : finding'[r][f] = WorkerFinding(f)
      /\ \A f \in Fields : assessed'[r][f] = Interpreted(f)
      /\ \A q \in Runs : q # r =>
            run'[q] = run[q] /\ finding'[q] = finding[q] /\ assessed'[q] = assessed[q]
  BY <1>1 DEF WorkerRun, RowsTyped
<1>3. /\ row.status = "COMPLETED" /\ row.counter = WorkerCounters
      /\ LifecycleCheck(row) /\ row.ended \in BOOLEAN
  BY RowTimed DEF RunRow, LifecycleCheck
<1>4. \A o \in Outcomes :
         /\ WorkerCounters[o] = Cardinality({f \in Fields : WorkerFinding(f).result[1] = o})
         /\ WorkerCounters[o] \in 0..Cardinality(Fields)
         /\ WorkerCounters[o] = 0 <=> {f \in Fields : WorkerFinding(f).result[1] = o} = {}
  BY FieldCount DEF WorkerCounters
<1>5. WorkerCounters \in Counters
  BY <1>4 DEF WorkerCounters, Counters
<1>6. row \in [status : Ends \cup {"ABSENT", "PENDING", "RUNNING"},
               ended : BOOLEAN, counter : Counters]
  BY <1>3, <1>5 DEF RunRow, Ends
<1> HIDE DEF row
<1>7. RowsTyped'
  <2>1. [f \in Fields |-> WorkerFinding(f)] \in [Fields -> Findings]
    BY WorkerFindingOf
  <2>2. [f \in Fields |-> Interpreted(f)] \in [Fields -> Seen]
    BY InterpretedSeen
  <2> QED
    BY <1>1, <1>6, <2>1, <2>2 DEF WorkerRun, RowsTyped, row
<1>8. FinalizedFields(r)' = Fields
  BY <1>2, WorkerFindingOf DEF FinalizedFields
<1>9. CountersOf(r)' = WorkerCounters
  BY <1>2, <1>8 DEF CountersOf, WorkerCounters
<1>10. ASSUME NEW f \in Fields
       PROVE  /\ Justified(r, f)' /\ run'[r].counter[finding'[r][f].result[1]] > 0
              /\ Follows(finding'[r][f].result, assessed'[r][f])
              /\ finding'[r][f].tally = Tally(assessed'[r][f])
              /\ finding'[r][f].count = Evaluated(assessed'[r][f])
              /\ Links[f] = {e \in Evidence : assessed'[r][f][e] # "none"}
              /\ finding'[r][f].status = "FINALIZED"
  <2> DEFINE seen == Interpreted(f)
             o == WorkerFinding(f).result[1]
  <2>1. /\ Follows(finding'[r][f].result, seen) /\ o \in Outcomes
        /\ finding'[r][f].tally = Tally(seen) /\ finding'[r][f].count = Evaluated(seen)
        /\ finding'[r][f].status = "FINALIZED" /\ finding'[r][f].result[1] = o
    BY <1>2, WorkerFindingOf
  <2>2. seen \in Seen /\ Links[f] = {e \in Evidence : seen[e] # "none"}
    BY InterpretedSeen
  <2>3. WorkerCounters[o] > 0
    <3>1. f \in {g \in Fields : WorkerFinding(g).result[1] = o}
      OBVIOUS
    <3> HIDE DEF o
    <3>2. WorkerCounters[o] # 0 /\ WorkerCounters[o] \in 0..Cardinality(Fields)
      BY <1>4, <2>1, <3>1
    <3>3. Cardinality(Fields) \in Nat
      BY VerificationAssumption, FS_CardinalityType
    <3> QED
      BY <3>2, <3>3
  <2> HIDE DEF seen, o
  <2>4. assessed'[r][f] = seen
    BY <1>2 DEF seen
  <2>5. Among(r, f, Evidence)' = seen
    BY <2>2, <2>4 DEF Among, Seen
  <2>6. Justified(r, f)'
    <3>1. \A x \in SourceClasses \X Stances : Tally(seen)[x] <= Tally(seen)[x]
      BY TallyType
    <3>2. Evaluated(seen) <= Evaluated(seen)
      BY EvaluatedOf
    <3> QED
      BY <2>1, <2>4, <2>5, <3>1, <3>2 DEF Justified
  <2> QED
    BY <1>2, <1>3, <2>1, <2>2, <2>3, <2>4, <2>6
<1>11. Exact(r)'
  BY <1>2, <1>3, <1>9, <1>10 DEF Exact
<1>12. Sound(r)'
  <2>1. LifecycleCheck(run[r])' /\ AbsentBare(r)' /\ PendingBare(r)'
    BY <1>2, <1>3, <1>10 DEF AbsentBare, PendingBare
  <2>2. \A f \in FinalizedFields(r)' :
           Justified(r, f)' /\ run'[r].counter[finding'[r][f].result[1]] > 0
    BY <1>8, <1>10
  <2> QED
    BY <1>8, <1>11, <2>1, <2>2 DEF Sound
<1>13. RunGrows(r)
  BY <1>1, <1>2, <1>3, <1>10
  DEF RunGrows, Sound, AbsentBare, Extends, Unassessed, Ends
<1>14. Written(r)
  BY <1>2, <1>7, <1>12, <1>13 DEF Written
<1> QED
  BY <1>1, <1>14, RunStep DEF WorkerRun, SessionsTyped

----------------------------------------------------------------------------
(* What requests commit. *)

LEMMA StartSafe ==
    ASSUME InductiveInvariant, NEW s \in Sessions, NEW r \in Runs, req[s].run = r,
           RequestOf(s), CommitStart(s, r)
    PROVE  Written(r)
<1> DEFINE row == [run[r] EXCEPT !.status = "RUNNING"]
<1>1. RowsTyped /\ Sound(r)
  BY InvariantByRun
<1>2. /\ run'[r] = row /\ LifecycleCheck(row)
      /\ finding' = finding /\ assessed' = assessed
      /\ \A q \in Runs : q # r => run'[q] = run[q]
  BY <1>1 DEF CommitStart, WriteRun, RowCheck, RowsTyped
<1>3. /\ row.status = "RUNNING" /\ row.ended = run[r].ended /\ row.counter = run[r].counter
      /\ "RUNNING" \notin Ends
  BY <1>1 DEF RowsTyped, Ends
<1>4. run[r].status \notin Ends
  BY <1>1, <1>2, <1>3 DEF Sound, LifecycleCheck
<1>5. r \notin WorkerRuns
  BY RunsApart DEF RequestOf
<1>6. FinalizedFields(r)' = FinalizedFields(r)
  BY <1>2 DEF FinalizedFields
<1>7. \A f \in Fields : Justified(r, f) => Justified(r, f)'
  BY <1>2 DEF Justified, Among
<1>8. Sound(r)'
  <2>1. LifecycleCheck(run[r])' /\ AbsentBare(r)' /\ PendingBare(r)'
    BY <1>1, <1>2, <1>3 DEF Sound, AbsentBare, PendingBare
  <2>2. \A f \in FinalizedFields(r) : f \in Fields
    BY DEF FinalizedFields
  <2> QED
    BY <1>1, <1>2, <1>3, <1>5, <1>6, <1>7, <2>1, <2>2 DEF Sound
<1>9. RowsTyped'
  BY <1>1 DEF CommitStart, WriteRun, RowsTyped
<1>10. RunGrows(r)
  BY <1>2, <1>3, <1>4 DEF RunGrows, Extends
<1> QED
  BY <1>2, <1>8, <1>9, <1>10 DEF Written

LEMMA CompleteSafe ==
    ASSUME InductiveInvariant, NEW s \in Sessions, NEW r \in Runs, req[s].run = r,
           RequestOf(s), pc[s] = "commit", CommitComplete(s, r)
    PROVE  Written(r)
<1> DEFINE row == [run[r] EXCEPT !.status = req[s].arg, !.ended = TRUE]
<1>1. RowsTyped /\ Sound(r)
  BY InvariantByRun
<1>2. /\ run'[r] = row /\ LifecycleCheck(row)
      /\ finding' = finding /\ assessed' = assessed
      /\ \A q \in Runs : q # r => run'[q] = run[q]
  BY <1>1 DEF CommitComplete, WriteRun, RowCheck, RowsTyped
<1>3. /\ row.status = req[s].arg /\ row.counter = run[r].counter
      /\ req[s].arg \in Ends /\ "ABSENT" \notin Ends
      /\ req[s].arg = "COMPLETED" => FinalizedFields(r) = Fields
  BY <1>1 DEF RowsTyped, Ends, CommitComplete, RequestOf
<1>4. r \notin WorkerRuns
  BY RunsApart DEF RequestOf
<1>5. FinalizedFields(r)' = FinalizedFields(r)
  BY <1>2 DEF FinalizedFields
<1>6. \A f \in Fields : Justified(r, f) => Justified(r, f)'
  BY <1>2 DEF Justified, Among
<1>7. Sound(r)'
  <2>1. LifecycleCheck(run[r])' /\ AbsentBare(r)' /\ PendingBare(r)'
    BY <1>1, <1>2, <1>3 DEF Sound, AbsentBare, PendingBare
  <2>2. \A f \in FinalizedFields(r) : f \in Fields
    BY DEF FinalizedFields
  <2> QED
    BY <1>1, <1>2, <1>3, <1>4, <1>5, <1>6, <2>1, <2>2 DEF Sound
<1>8. RowsTyped'
  BY <1>1, <1>3 DEF CommitComplete, WriteRun, RowsTyped
<1>9. RunGrows(r)
  BY <1>2, <1>3 DEF RunGrows, Extends
<1> QED
  BY <1>2, <1>7, <1>8, <1>9 DEF Written

LEMMA FieldSafe ==
    ASSUME InductiveInvariant, NEW s \in Sessions, NEW r \in Runs, req[s].run = r,
           NEW f \in Fields, RequestOf(s), CommitField(s, r, f)
    PROVE  Written(r)
<1>1. RowsTyped /\ Sound(r)
  BY InvariantByRun
<1>2. /\ run' = run /\ assessed' = assessed /\ finding[r][f].status = "ABSENT"
      /\ finding'[r][f] = Finding("PENDING")
      /\ \A g \in Fields : g # f => finding'[r][g] = finding[r][g]
      /\ \A q \in Runs : q # r => finding'[q] = finding[q]
  BY <1>1 DEF CommitField, RowsTyped
<1>3. finding'[r][f].status = "PENDING"
  BY <1>2 DEF Finding
<1>4. FinalizedFields(r)' = FinalizedFields(r)
  BY <1>2, <1>3 DEF FinalizedFields
<1>5. \A g \in FinalizedFields(r) : g \in Fields /\ finding'[r][g] = finding[r][g]
  BY <1>2 DEF FinalizedFields
<1>6. r \notin WorkerRuns /\ run[r].status # "ABSENT"
  BY RunsApart DEF RequestOf
<1>7. \A g \in FinalizedFields(r) : Justified(r, g) => Justified(r, g)'
  BY <1>2, <1>5 DEF Justified, Among
<1>8. Sound(r)'
  <2>1. LifecycleCheck(run[r])' /\ AbsentBare(r)' /\ PendingBare(r)'
    BY <1>1, <1>2, <1>3, <1>6 DEF Sound, LifecycleCheck, AbsentBare, PendingBare
  <2> QED
    BY <1>1, <1>2, <1>4, <1>5, <1>6, <1>7, <2>1 DEF Sound
<1>9. RowsTyped'
  <2>1. Finding("PENDING") \in Findings
    BY EvidenceCount, FS_EmptySet, FS_CardinalityType, PolicyAssumption
    DEF Finding, Findings, NoTally, Results
  <2> QED
    BY <1>1, <2>1 DEF CommitField, RowsTyped
<1>10. RunGrows(r)
  BY <1>2, <1>3 DEF RunGrows, Extends
<1> QED
  BY <1>2, <1>8, <1>9, <1>10 DEF Written

LEMMA FindingParts ==
    ASSUME NEW x \in Findings
    PROVE  /\ x.tally \in [SourceClasses \X Stances -> 0..Cardinality(Evidence)]
           /\ x.tally \in [SourceClasses \X Stances -> Nat]
           /\ x.count \in 0..Cardinality(Evidence) /\ x.count \in Nat
<1>1. /\ x.tally \in [SourceClasses \X Stances -> 0..Cardinality(Evidence)]
      /\ x.count \in 0..Cardinality(Evidence)
  BY DEF Findings
<1>2. Cardinality(Evidence) \in Nat
  BY PolicyAssumption, FS_CardinalityType
<1> QED
  BY <1>1, <1>2

LEMMA CountTypes ==
    ASSUME NEW seen
    PROVE  /\ Tally(seen) \in [SourceClasses \X Stances -> Nat]
           /\ Evaluated(seen) \in Nat
<1>1. Cardinality(Evidence) \in Nat
  BY PolicyAssumption, FS_CardinalityType
<1>2. /\ Tally(seen) \in [SourceClasses \X Stances -> 0..Cardinality(Evidence)]
      /\ Evaluated(seen) \in 0..Cardinality(Evidence)
  BY TallyType, EvaluatedOf
<1> QED
  BY <1>1, <1>2

LEMMA AssessSafe ==
    ASSUME InductiveInvariant, NEW s \in Sessions, NEW r \in Runs, req[s].run = r,
           NEW f \in Fields, req[s].field = f, RequestOf(s), CommitAssess(s, r, f)
    PROVE  Written(r)
<1>1. RowsTyped /\ Sound(r)
  BY InvariantByRun
<1>2. PICK e \in Evidence : req[s].evidence = e /\ req[s].arg \in Assessments
  BY DEF CommitAssess, RequestOf
<1>3. /\ run' = run /\ finding' = finding /\ assessed[r][f][e] = "none"
      /\ assessed'[r][f][e] = req[s].arg
      /\ \A d \in Evidence : d # e => assessed'[r][f][d] = assessed[r][f][d]
      /\ \A g \in Fields : g # f => assessed'[r][g] = assessed[r][g]
      /\ \A q \in Runs : q # r => assessed'[q] = assessed[q]
  BY <1>1, <1>2 DEF CommitAssess, RowsTyped, Seen
<1>4. RowsTyped'
  BY <1>1, <1>2 DEF CommitAssess, RowsTyped, Seen
<1>5. FinalizedFields(r)' = FinalizedFields(r)
  BY <1>3 DEF FinalizedFields
<1>6. r \notin WorkerRuns /\ run[r].status # "ABSENT"
  BY RunsApart DEF RequestOf
<1>7. Extends(assessed[r][f], assessed'[r][f])
  BY <1>3 DEF Extends
<1>8. ASSUME NEW g \in FinalizedFields(r)
      PROVE  Justified(r, g)'
  <2>1. Justified(r, g) /\ g \in Fields
    BY <1>1 DEF Sound, FinalizedFields
  <2>2. CASE g # f
    BY <1>3, <2>1, <2>2 DEF Justified, Among
  <2>3. CASE g = f
    <3>1. PICK S \in SUBSET Evidence : Follows(finding[r][f].result, Among(r, f, S))
      BY <2>1, <2>3 DEF Justified
    <3>2. Among(r, f, S \ {e})' = Among(r, f, S)
      BY <1>3 DEF Among
    <3>3. \E T \in SUBSET Evidence : Follows(finding'[r][f].result, Among(r, f, T)')
      BY <1>3, <3>1, <3>2
    <3>4. /\ \A x \in SourceClasses \X Stances :
                Tally(assessed[r][f])[x] <= Tally(assessed'[r][f])[x]
          /\ Evaluated(assessed[r][f]) <= Evaluated(assessed'[r][f])
      BY <1>7, CountsGrow
    <3>5. /\ Tally(assessed[r][f]) \in [SourceClasses \X Stances -> Nat]
          /\ Tally(assessed'[r][f]) \in [SourceClasses \X Stances -> Nat]
          /\ Evaluated(assessed[r][f]) \in Nat /\ Evaluated(assessed'[r][f]) \in Nat
      BY CountTypes
    <3>6. /\ finding[r][f].tally \in [SourceClasses \X Stances -> Nat]
          /\ finding[r][f].count \in Nat
      BY <1>1, FindingParts DEF RowsTyped
    <3>7. /\ \A x \in SourceClasses \X Stances :
                finding'[r][f].tally[x] <= Tally(assessed'[r][f])[x]
          /\ finding'[r][f].count <= Evaluated(assessed'[r][f])
      BY <1>3, <2>1, <2>3, <3>4, <3>5, <3>6 DEF Justified
    <3> QED
      BY <2>3, <3>3, <3>7 DEF Justified
  <2> QED
    BY <2>2, <2>3
<1>9. Sound(r)'
  <2>1. LifecycleCheck(run[r])' /\ AbsentBare(r)' /\ PendingBare(r)'
    BY <1>1, <1>3, <1>6 DEF Sound, LifecycleCheck, AbsentBare, PendingBare
  <2> QED
    BY <1>1, <1>3, <1>5, <1>6, <1>8, <2>1 DEF Sound
<1>10. RunGrows(r)
  BY <1>3, <1>7 DEF RunGrows, Extends
<1> QED
  BY <1>3, <1>4, <1>9, <1>10 DEF Written

\* A finding made of some of the assessments of a field is justified by them.
LEMMA FinalizeSafe ==
    ASSUME InductiveInvariant, NEW s \in Sessions, NEW r \in Runs, req[s].run = r,
           NEW f \in Fields, req[s].field = f, RequestOf(s), pc[s] = "commit",
           CommitFinalize(s, r, f)
    PROVE  Written(r)
<1> DEFINE na == req[s].arg = "not_applicable"
           old == finding[r][f]
           new == Finalized(old, saw[s], na)
           o == new.result[1]
           row == Incremented(s, r, o)
<1>1. RowsTyped /\ SessionsTyped /\ Sound(r)
  BY InvariantByRun
<1>2. /\ run'[r] = row /\ LifecycleCheck(row) /\ CounterCheck(row)
      /\ run' = [run EXCEPT ![r] = row] /\ finding' = [finding EXCEPT ![r][f] = new]
      /\ finding'[r][f] = new /\ assessed' = assessed
      /\ \A g \in Fields : g # f => finding'[r][g] = finding[r][g]
      /\ \A q \in Runs : q # r => run'[q] = run[q] /\ finding'[q] = finding[q]
  BY <1>1 DEF CommitFinalize, WriteRun, RowCheck, RowsTyped
<1>3. saw[s] \in Seen /\ na \in BOOLEAN
  BY <1>1 DEF SessionsTyped
<1>4. Extends(saw[s], assessed[r][f]) /\ r \notin WorkerRuns /\ run[r].status # "ABSENT"
  BY RunsApart DEF RequestOf, CommitFinalize
<1> HIDE DEF na
<1>5. ResultOf(saw[s], na) \in Results \ {NoResult} /\ Follows(ResultOf(saw[s], na), saw[s])
  BY <1>3, PolicyMeetsReference
<1>6. /\ new.status = "FINALIZED" /\ new.result = ResultOf(saw[s], na)
      /\ new.tally = [x \in SourceClasses \X Stances |->
                         Counted(Tally(saw[s])[x], old.tally[x])]
      /\ new.count = Counted(Evaluated(saw[s]), old.count)
  BY DEF Finalized
<1>7. o \in Outcomes
  BY <1>5, <1>6 DEF Results, NoResult
<1>8. /\ old \in Findings
      /\ old.tally \in [SourceClasses \X Stances -> 0..Cardinality(Evidence)]
      /\ old.count \in 0..Cardinality(Evidence)
      /\ old.tally \in [SourceClasses \X Stances -> Nat] /\ old.count \in Nat
  <2>1. old \in Findings
    BY <1>1 DEF RowsTyped
  <2> HIDE DEF old
  <2> QED
    BY <2>1, FindingParts
<1>9. /\ Tally(saw[s]) \in [SourceClasses \X Stances -> 0..Cardinality(Evidence)]
      /\ Evaluated(saw[s]) \in 0..Cardinality(Evidence)
  BY TallyType, EvaluatedOf
<1>10. new \in Findings
  <2> DEFINE found == ResultOf(saw[s], na)
             tallied == [x \in SourceClasses \X Stances |->
                            Counted(Tally(saw[s])[x], old.tally[x])]
             counted == Counted(Evaluated(saw[s]), old.count)
  <2>1. found \in Results
    BY <1>5
  <2>2. tallied \in [SourceClasses \X Stances -> 0..Cardinality(Evidence)]
    BY <1>8, <1>9 DEF Counted
  <2>3. counted \in 0..Cardinality(Evidence)
    BY <1>8, <1>9 DEF Counted
  <2>4. new = [status |-> "FINALIZED", result |-> found, tally |-> tallied,
               count |-> counted]
    BY DEF Finalized
  <2> HIDE DEF found, tallied, counted, new
  <2> QED
    BY <2>1, <2>2, <2>3, <2>4 DEF Findings
<1> HIDE DEF new, old, o
<1>11. PICK n \in Nat : n = read[s][o] + 1 /\ n > 0
  BY <1>1, <1>7 DEF SessionsTyped, Counters
<1>12. /\ row.status = run[r].status /\ row.ended = run[r].ended
       /\ row.counter = [run[r].counter EXCEPT ![o] = n]
       /\ row.counter[o] = n
       /\ \A p \in Outcomes : p # o => row.counter[p] = run[r].counter[p]
  BY <1>1, <1>7, <1>11 DEF Incremented, RowsTyped, Counters
<1>13. row.counter \in Counters
  <2> DEFINE c == row.counter
  <2>1. Cardinality(Fields) \in Nat
    BY VerificationAssumption, FS_CardinalityType
  <2>2. c \in [Outcomes -> Nat]
    BY <1>1, <1>7, <1>11, <1>12, <2>1 DEF RowsTyped, Counters
  <2>3. c["CONFIRMED"] + c["CONFLICT"] + c["INSUFFICIENT_EVIDENCE"] + c["NOT_APPLICABLE"]
           <= Cardinality(Fields)
    BY <1>2 DEF CounterCheck
  <2> HIDE DEF c
  <2>4. /\ c["CONFIRMED"] \in Nat /\ c["CONFLICT"] \in Nat
        /\ c["INSUFFICIENT_EVIDENCE"] \in Nat /\ c["NOT_APPLICABLE"] \in Nat
    BY <2>2 DEF Outcomes
  <2>5. \A p \in Outcomes : c[p] \in 0..Cardinality(Fields)
    BY <2>1, <2>3, <2>4 DEF Outcomes
  <2>6. c \in Counters
    BY <2>2, <2>5 DEF Counters
  <2> QED
    BY <2>6 DEF c
<1>14. RowsTyped'
  <2>1. row \in [status : Ends \cup {"ABSENT", "PENDING", "RUNNING"},
                 ended : BOOLEAN, counter : Counters]
    <3>1. PICK base \in [status : Ends \cup {"ABSENT", "PENDING", "RUNNING"},
                         ended : BOOLEAN, counter : Counters] : base = run[r]
      BY <1>1 DEF RowsTyped
    <3>2. row = [base EXCEPT !.counter = row.counter]
      BY <3>1 DEF Incremented
    <3> HIDE DEF row
    <3> QED
      BY <1>13, <3>1, <3>2
  <2> HIDE DEF row
  <2> QED
    BY <1>1, <1>2, <1>10, <2>1 DEF RowsTyped
<1> HIDE DEF row
<1>15. Justified(r, f)'
  <2> DEFINE later == assessed[r][f]
  <2>0. PICK S \in SUBSET Evidence : S = {e \in Evidence : saw[s][e] # "none"}
    OBVIOUS
  <2>1. Among(r, f, S) = saw[s]
    BY <1>3, <1>4, <2>0 DEF Among, Extends, Seen
  <2>2. Among(r, f, S)' = Among(r, f, S)
    BY <1>2 DEF Among
  <2>3. \E T \in SUBSET Evidence : Follows(finding'[r][f].result, Among(r, f, T)')
    BY <1>2, <1>5, <1>6, <2>1, <2>2
  <2>4. /\ Tally(later) \in [SourceClasses \X Stances -> Nat] /\ Evaluated(later) \in Nat
        /\ \A x \in SourceClasses \X Stances : Tally(saw[s])[x] <= Tally(later)[x]
        /\ Evaluated(saw[s]) <= Evaluated(later)
    BY <1>4, CountsGrow, CountTypes
  <2>5. /\ \A x \in SourceClasses \X Stances : old.tally[x] <= Tally(later)[x]
        /\ old.count <= Evaluated(later)
    <3>1. CASE old.status = "FINALIZED"
      BY <1>1, <3>1 DEF Sound, FinalizedFields, Justified, old
    <3>2. CASE old.status # "FINALIZED"
      <4>1. old = Finding(old.status)
        BY <1>1, <3>2 DEF Sound, PendingBare, old
      <4>2. old.tally = NoTally /\ old.count = 0
        BY <4>1 DEF Finding
      <4> QED
        BY <2>4, <4>2 DEF NoTally
    <3> QED
      BY <3>1, <3>2
  <2> HIDE DEF later
  <2>6. /\ \A x \in SourceClasses \X Stances : new.tally[x] <= Tally(later)[x]
        /\ new.count <= Evaluated(later)
    BY <1>6, <2>4, <2>5 DEF Counted
  <2> QED
    BY <1>2, <2>3, <2>6 DEF Justified, later
<1>16. /\ FinalizedFields(r)' = FinalizedFields(r) \cup {f}
       /\ \A g \in FinalizedFields(r) : g # f => finding'[r][g] = finding[r][g]
  BY <1>2, <1>6 DEF FinalizedFields
<1>17. \A g \in FinalizedFields(r)' :
          Justified(r, g)' /\ run'[r].counter[finding'[r][g].result[1]] > 0
  <2> SUFFICES ASSUME NEW g \in FinalizedFields(r)'
               PROVE  Justified(r, g)' /\ run'[r].counter[finding'[r][g].result[1]] > 0
    OBVIOUS
  <2>1. CASE g = f
    BY <1>2, <1>11, <1>12, <1>15, <2>1 DEF o
  <2>2. CASE g # f
    <3>1. /\ g \in FinalizedFields(r) /\ finding'[r][g] = finding[r][g]
          /\ assessed'[r][g] = assessed[r][g]
      BY <1>2, <1>16, <2>2
    <3>2. Justified(r, g) /\ run[r].counter[finding[r][g].result[1]] > 0
      BY <1>1, <3>1 DEF Sound
    <3>3. Justified(r, g)'
      BY <3>1, <3>2 DEF Justified, Among
    <3>4. finding'[r][g].result[1] \in Outcomes
      <4>1. PICK T \in SUBSET Evidence : Follows(finding[r][g].result, Among(r, g, T))
        BY <3>2 DEF Justified
      <4> QED
        BY <3>1, <4>1 DEF Follows, Outcomes
    <3>5. run'[r].counter[finding'[r][g].result[1]] > 0
      BY <1>2, <1>11, <1>12, <3>1, <3>2, <3>4
    <3> QED
      BY <3>3, <3>5
  <2> QED
    BY <2>1, <2>2
<1>18. Sound(r)'
  <2>1. LifecycleCheck(run[r])' /\ AbsentBare(r)' /\ PendingBare(r)'
    BY <1>1, <1>2, <1>4, <1>6, <1>12 DEF Sound, AbsentBare, PendingBare
  <2>2. run'[r].status = "COMPLETED" => FinalizedFields(r)' = Fields
    BY <1>1, <1>2, <1>12, <1>16 DEF Sound
  <2> QED
    BY <1>4, <1>17, <2>1, <2>2 DEF Sound
<1>19. RunGrows(r)
  BY <1>2, <1>6, <1>12 DEF RunGrows, Extends
<1> QED
  BY <1>2, <1>14, <1>18, <1>19 DEF Written

LEMMA CommitSafe ==
    ASSUME InductiveInvariant, NEW s \in Sessions, Commit(s)
    PROVE  InductiveInvariant' /\ \A q \in Runs : RunGrows(q)
<1>1. SessionsTyped /\ pc[s] = "commit" /\ RequestOf(s) /\ Quiet(s)
  BY InvariantByRun DEF Commit, RequestsHold
<1>2. PICK r \in Runs : req[s].run = r
  BY <1>1 DEF RequestOf, Runs
<1>3. Written(r)
  <2>1. CASE CommitStart(s, r)
    BY <1>1, <1>2, <2>1, StartSafe
  <2>2. CASE CommitComplete(s, r)
    BY <1>1, <1>2, <2>2, CompleteSafe
  <2>3. CASE CommitField(s, r, req[s].field)
    <3>1. PICK f \in Fields : req[s].field = f
      BY <1>1, <2>3 DEF RequestOf, CommitField
    <3> QED
      BY <1>1, <1>2, <2>3, <3>1, FieldSafe
  <2>4. CASE CommitAssess(s, r, req[s].field)
    <3>1. PICK f \in Fields : req[s].field = f
      BY <1>1, <2>4 DEF RequestOf, CommitAssess
    <3> QED
      BY <1>1, <1>2, <2>4, <3>1, AssessSafe
  <2>5. CASE CommitFinalize(s, r, req[s].field)
    <3>1. PICK f \in Fields : req[s].field = f
      BY <1>1, <2>5 DEF RequestOf, CommitFinalize
    <3> QED
      BY <1>1, <1>2, <2>5, <3>1, FinalizeSafe
  <2> QED
    BY <1>2, <2>1, <2>2, <2>3, <2>4, <2>5 DEF Commit
<1> QED
  BY <1>1, <1>2, <1>3, QuietTyped, RunStep

----------------------------------------------------------------------------
(* The theorems. *)

LEMMA InitSafe == Init => InductiveInvariant
<1> SUFFICES ASSUME Init PROVE InductiveInvariant
  OBVIOUS
<1>1. /\ Cardinality(Fields) \in Nat /\ Cardinality(Evidence) \in Nat
  BY PolicyAssumption, VerificationAssumption, FS_CardinalityType
<1>2. NoCounters \in Counters /\ Unassessed \in Seen /\ NoReq \in Requests
  BY <1>1 DEF NoCounters, Counters, Unassessed, Seen, NoReq, Requests
<1>3. Finding("ABSENT") \in Findings
  <2>1. NoTally \in [SourceClasses \X Stances -> 0..Cardinality(Evidence)]
    BY <1>1 DEF NoTally
  <2>2. NoResult \in Results
    BY DEF Results
  <2> HIDE DEF NoResult, NoTally
  <2> QED
    BY <1>1, <2>1, <2>2 DEF Finding, Findings
<1>4. RunRow("ABSENT") \in [status : Ends \cup {"ABSENT", "PENDING", "RUNNING"},
                             ended : BOOLEAN, counter : Counters]
  BY <1>2 DEF RunRow, Ends
<1>5. RowsTyped /\ SessionsTyped
  BY <1>2, <1>3, <1>4 DEF Init, RowsTyped, SessionsTyped
<1>6. RequestsHold
  BY DEF Init, RequestsHold
<1>7. ASSUME NEW r \in Runs
      PROVE  Sound(r)
  <2>1. /\ run[r] = RunRow("ABSENT") /\ run[r].status = "ABSENT"
        /\ \A f \in Fields : finding[r][f] = Finding("ABSENT") /\ assessed[r][f] = Unassessed
    BY DEF Init, RunRow
  <2>2. \A f \in Fields : finding[r][f].status = "ABSENT"
    BY <2>1 DEF Finding
  <2>3. FinalizedFields(r) = {}
    BY <2>2 DEF FinalizedFields
  <2>4. LifecycleCheck(run[r]) /\ AbsentBare(r) /\ PendingBare(r)
    BY <2>1, <2>2, RowTimed DEF AbsentBare, PendingBare
  <2> QED
    BY <2>1, <2>3, <2>4 DEF Sound, Exact
<1> QED
  BY <1>5, <1>6, <1>7, InvariantByRun

LEMMA NextSafe ==
    ASSUME InductiveInvariant, [Next]_vars
    PROVE  InductiveInvariant' /\ \A r \in Runs : RunGrows(r)
<1>1. ASSUME NEW s \in Sessions, Request(s)
      PROVE  InductiveInvariant' /\ \A r \in Runs : RunGrows(r)
  BY <1>1, BeginSafe, RowsKept
<1>2. ASSUME NEW s \in Sessions, LoadAssessments(s) \/ CheckRun(s) \/ CountFinalized(s)
      PROVE  InductiveInvariant' /\ \A r \in Runs : RunGrows(r)
  BY <1>2, ReadSafe, RowsKept
<1>3. ASSUME NEW s \in Sessions, Abandon(s)
      PROVE  InductiveInvariant' /\ \A r \in Runs : RunGrows(r)
  BY <1>3, AbandonSafe, RowsKept
<1>4. ASSUME UNCHANGED vars
      PROVE  InductiveInvariant' /\ \A r \in Runs : RunGrows(r)
  <2>1. RowsTyped' /\ \A r \in Runs : Sound(r)' /\ RunGrows(r)
    BY <1>4, RowsKept DEF vars, rows
  <2>2. SessionsTyped' /\ RequestsHold'
    BY <1>4, <2>1, InvariantByRun, RequestKept DEF vars, SessionsTyped, RequestsHold
  <2> QED
    BY <2>1, <2>2, InvariantByRunNext
<1> QED
  BY <1>1, <1>2, <1>3, <1>4, CreateSafe, WorkerSafe, CommitSafe DEF Next

\* The invariant of every run of the system, on any runs, fields and Evidence:
\* what the rows say of each other and what each open request relies on.
THEOREM RunsInvariant == Spec => []InductiveInvariant
<1>1. InductiveInvariant /\ [Next]_vars => InductiveInvariant'
  BY NextSafe
<1> QED
  BY <1>1, InitSafe, PTL DEF Spec

\* Every row and every request has its type: the table's constraints keep the
\* counters between 0 and the number of fields, whatever requests overlap.
THEOREM TypeCorrect == Spec => []RunsTypeOK
<1>1. InductiveInvariant => RunsTypeOK
  BY DEF InductiveInvariant
<1> QED
  BY <1>1, RunsInvariant, PTL

\* complete_run never leaves a COMPLETED run with a field that is not finalized.
THEOREM CompletedIsWhole == Spec => []CompletedWhole
<1>1. InductiveInvariant => CompletedWhole
  BY DEF InductiveInvariant
<1> QED
  BY <1>1, RunsInvariant, PTL

\* finalize_field_verification never claims more than the assessments that are
\* stored for its field support.
THEOREM FindingsAreJustified == Spec => []FindingsJustified
<1>1. InductiveInvariant => FindingsJustified
  BY DEF InductiveInvariant
<1> QED
  BY <1>1, RunsInvariant, PTL

\* The counter of an outcome that some finalized field has is never 0.
THEOREM OutcomesAreCounted == Spec => []OutcomesCounted
<1>1. InductiveInvariant => OutcomesCounted
  BY DEF InductiveInvariant
<1> QED
  BY <1>1, RunsInvariant, PTL

\* What the worker commits is exact, and stays so beside any requests.
THEOREM WorkerIsExact == Spec => []WorkerExact
<1>1. InductiveInvariant => WorkerExact
  BY DEF InductiveInvariant
<1> QED
  BY <1>1, RunsInvariant, PTL

\* No step replaces an assessment, reopens a finalized field or an ended run.
THEOREM HistoryIsKept == Spec => RunsKept
<1>1. InductiveInvariant /\ [Next]_vars =>
        [\A r \in Runs :
          /\ run[r].status \in Ends => run'[r].status \in Ends
          /\ \A f \in Fields :
                /\ finding[r][f].status = "FINALIZED" =>
                        finding'[r][f].status = "FINALIZED"
                /\ \A e \in Evidence : assessed[r][f][e] # "none" =>
                        assessed'[r][f][e] = assessed[r][f][e]]_vars
  BY NextSafe DEF RunGrows, Extends
<1> QED
  BY <1>1, RunsInvariant, PTL DEF Spec, RunsKept

----------------------------------------------------------------------------
(* Requests that do not overlap keep the contract of a run.                *)

\* At most one request is under way.
NoOverlap == \A s, t \in Sessions : pc[s] # "idle" /\ pc[t] # "idle" => s = t

\* What is true of a request when nobody comes between its reads and its
\* commit: the rows still are as it has read them.
RowsAsRead(s) ==
    LET r == req[s].run
        f == req[s].field
    IN  /\ req[s].kind = "start" => run[r].status = "PENDING"
        /\ req[s].kind = "complete" => run[r].status = "RUNNING"
        /\ req[s].kind = "complete" /\ pc[s] = "commit" =>
              CountsTo(req[s].arg, Cardinality(FinalizedFields(r)), Cardinality(Fields))
        /\ req[s].kind \in {"assess", "finalize"} =>
              /\ finding[r][f].status = "PENDING"
              /\ pc[s] = "commit" => run[r].status = "RUNNING"
        /\ req[s].kind = "assess" => assessed[r][f][req[s].evidence] = "none"
        /\ req[s].kind = "finalize" /\ pc[s] # "load" => saw[s] = assessed[r][f]
        /\ req[s].kind = "finalize" /\ pc[s] = "commit" => read[s] = run[r].counter

SerialInvariant ==
    CountersExact /\ \A s \in Sessions : pc[s] # "idle" => RowsAsRead(s)

\* Nobody else touches the run of a request under way.
LEMMA ReadKept ==
    ASSUME NEW s \in Sessions, RowsAsRead(s),
           pc'[s] = pc[s], req'[s] = req[s], saw'[s] = saw[s], read'[s] = read[s],
           run'[req[s].run] = run[req[s].run],
           finding'[req[s].run] = finding[req[s].run],
           assessed'[req[s].run] = assessed[req[s].run]
    PROVE  RowsAsRead(s)'
<1>1. FinalizedFields(req[s].run)' = FinalizedFields(req[s].run)
  BY DEF FinalizedFields
<1> QED
  BY <1>1 DEF RowsAsRead

\* The counters of a run whose rows stay are those of its findings still.
LEMMA CountersKept ==
    ASSUME NEW r \in Runs, finding'[r] = finding[r]
    PROVE  FinalizedFields(r)' = FinalizedFields(r) /\ CountersOf(r)' = CountersOf(r)
<1>1. FinalizedFields(r)' = FinalizedFields(r)
  BY DEF FinalizedFields
<1> QED
  BY <1>1 DEF CountersOf

LEMMA NothingCounted ==
    ASSUME NEW r \in Runs, FinalizedFields(r) = {}
    PROVE  CountersOf(r) = NoCounters
<1>1. \A o \in Outcomes :
         {f \in FinalizedFields(r) : finding[r][f].result[1] = o} = {}
  OBVIOUS
<1> QED
  BY <1>1, FS_EmptySet DEF CountersOf, NoCounters

LEMMA SerialInit == Init => SerialInvariant
<1> SUFFICES ASSUME Init PROVE SerialInvariant
  OBVIOUS
<1>1. ASSUME NEW r \in Runs PROVE run[r].counter = CountersOf(r)
  <2>1. FinalizedFields(r) = {}
    BY DEF Init, Finding, FinalizedFields
  <2> QED
    BY <2>1, NothingCounted DEF Init, RunRow
<1> QED
  BY <1>1 DEF SerialInvariant, CountersExact, Init

\* A request begins with what its first reads have found.
LEMMA SerialBegin ==
    ASSUME InductiveInvariant, NEW s \in Sessions, Request(s)
    PROVE  RowsAsRead(s)'
<1> USE DEF Begin, RunRequest, FieldRequest, NoReq
<1>0. SessionsTyped
  BY InvariantByRun
<1>1. PICK r \in Runs :
         \/ BeginStart(s, r)
         \/ \E end \in Ends : BeginComplete(s, r, end)
         \/ \E f \in Fields :
               \/ BeginField(s, r, f)
               \/ \E e \in Evidence, a \in Assessments : BeginAssess(s, r, f, e, a)
               \/ \E arg \in {"applicable", "not_applicable"} :
                     BeginFinalize(s, r, f, arg)
  BY DEF Request
<1>2. CASE BeginStart(s, r)
  BY <1>0, <1>2 DEF BeginStart, SessionsTyped, Requests, RowsAsRead, rows
<1>3. ASSUME NEW end \in Ends, BeginComplete(s, r, end)
      PROVE  RowsAsRead(s)'
  BY <1>0, <1>3 DEF BeginComplete, SessionsTyped, Requests, RowsAsRead, rows
<1>4. ASSUME NEW f \in Fields, BeginField(s, r, f)
      PROVE  RowsAsRead(s)'
  BY <1>0, <1>4 DEF BeginField, SessionsTyped, Requests, RowsAsRead, rows
<1>5. ASSUME NEW f \in Fields, NEW e \in Evidence, NEW a \in Assessments,
             BeginAssess(s, r, f, e, a)
      PROVE  RowsAsRead(s)'
  BY <1>0, <1>5 DEF BeginAssess, SessionsTyped, Requests, RowsAsRead, rows
<1>6. ASSUME NEW f \in Fields, NEW arg \in {"applicable", "not_applicable"},
             BeginFinalize(s, r, f, arg)
      PROVE  RowsAsRead(s)'
  BY <1>0, <1>6 DEF BeginFinalize, SessionsTyped, Requests, RowsAsRead, rows
<1> QED
  BY <1>1, <1>2, <1>3, <1>4, <1>5, <1>6

\* A request that reads further finds the rows as they still are at its commit.
LEMMA SerialRead ==
    ASSUME InductiveInvariant, NEW s \in Sessions, RowsAsRead(s),
           LoadAssessments(s) \/ CheckRun(s) \/ CountFinalized(s)
    PROVE  RowsAsRead(s)'
<1>1. SessionsTyped /\ pc[s] # "idle" /\ RequestOf(s)
  BY InvariantByRun DEF LoadAssessments, CheckRun, CountFinalized, RequestsHold
<1>2. CASE LoadAssessments(s)
  <2>1. req[s].kind = "finalize"
    BY <1>1, <1>2 DEF LoadAssessments, RequestOf, KindAt
  <2> QED
    BY <1>1, <1>2, <2>1 DEF LoadAssessments, RowsAsRead, SessionsTyped, rows
<1>3. CASE CheckRun(s)
  <2>1. req[s].kind \in {"assess", "finalize"}
    BY <1>1, <1>3 DEF CheckRun, RequestOf, KindAt
  <2> QED
    BY <1>1, <1>3, <2>1 DEF CheckRun, RowsAsRead, SessionsTyped, rows
<1>4. CASE CountFinalized(s)
  <2>1. req[s].kind = "complete"
    BY <1>1, <1>4 DEF CountFinalized, RequestOf, KindAt
  <2>2. /\ pc'[s] = "commit" /\ req' = req
        /\ run' = run /\ finding' = finding /\ assessed' = assessed
    BY <1>1, <1>4 DEF CountFinalized, SessionsTyped, rows
  <2>3. FinalizedFields(req[s].run)' = FinalizedFields(req[s].run)
    BY <2>2 DEF FinalizedFields
  <2> QED
    BY <1>4, <2>1, <2>2, <2>3 DEF CountFinalized, RowsAsRead
<1> QED
  BY <1>2, <1>3, <1>4

\* A run that is made in one transaction is not the run of any request.
LEMMA SerialCreate ==
    ASSUME InductiveInvariant, SerialInvariant, NEW r \in Runs,
           \/ r \in ManualRuns /\ CreateRun(r)
           \/ r \in WorkerRuns /\ WorkerRun(r)
    PROVE  SerialInvariant'
<1>1. /\ RowsTyped /\ Sound(r) /\ run[r].status = "ABSENT"
      /\ pc' = pc /\ req' = req /\ saw' = saw /\ read' = read
  BY InvariantByRun DEF CreateRun, WorkerRun
<1>2. \A q \in Runs : q # r =>
         run'[q] = run[q] /\ finding'[q] = finding[q] /\ assessed'[q] = assessed[q]
  BY <1>1 DEF CreateRun, WorkerRun, RowsTyped
<1>3. ASSUME NEW s \in Sessions, pc'[s] # "idle"
      PROVE  RowsAsRead(s)'
  <2>1. RowsAsRead(s) /\ RequestOf(s)
    BY <1>1, <1>3, InvariantByRun DEF SerialInvariant, RequestsHold
  <2>2. req[s].run \in Runs /\ req[s].run # r
    BY <1>1, <2>1 DEF RequestOf, Runs
  <2> QED
    BY <1>1, <1>2, <2>1, <2>2, ReadKept
<1>4. run'[r].counter = CountersOf(r)'
  <2>1. CASE r \in ManualRuns /\ CreateRun(r)
    <3>1. run'[r] = RunRow("PENDING") /\ finding' = finding
      BY <1>1, <2>1 DEF CreateRun, RowsTyped
    <3>2. FinalizedFields(r) = {}
      BY <1>1 DEF Sound, AbsentBare, FinalizedFields
    <3> QED
      BY <3>1, <3>2, NothingCounted, CountersKept DEF RunRow
  <2>2. CASE r \in WorkerRuns /\ WorkerRun(r)
    <3>1. WorkerExact'
      BY <2>2, WorkerSafe DEF InductiveInvariant
    <3>2. run'[r].status = "COMPLETED"
      BY <1>1, <2>2 DEF WorkerRun, RowsTyped, RunRow
    <3> QED
      BY <2>2, <3>1, <3>2 DEF WorkerExact
  <2> QED
    BY <2>1, <2>2
<1>5. CountersExact'
  <2> SUFFICES ASSUME NEW q \in Runs PROVE run'[q].counter = CountersOf(q)'
    BY DEF CountersExact
  <2>1. CASE q # r
    BY <1>2, <2>1, CountersKept DEF SerialInvariant, CountersExact
  <2> QED
    BY <1>4, <2>1
<1> QED
  BY <1>3, <1>5 DEF SerialInvariant

\* The first finding of a field raises the counter of its outcome by one.
LEMMA OneMore ==
    ASSUME NEW r \in Runs, NEW f \in Fields, NEW o \in Outcomes,
           f \notin FinalizedFields(r), FinalizedFields(r)' = FinalizedFields(r) \cup {f},
           finding'[r][f].result[1] = o,
           \A g \in FinalizedFields(r) : finding'[r][g] = finding[r][g]
    PROVE  CountersOf(r)' = [CountersOf(r) EXCEPT ![o] = CountersOf(r)[o] + 1]
<1> DEFINE of(p) == {g \in FinalizedFields(r) : finding[r][g].result[1] = p}
           later(p) == {g \in FinalizedFields(r)' : finding'[r][g].result[1] = p}
<1>1. \A p \in Outcomes : CountersOf(r)[p] = Cardinality(of(p))
  BY DEF CountersOf
<1>2. CountersOf(r)' = [p \in Outcomes |-> Cardinality(later(p))]
  BY DEF CountersOf
<1>3. \A p \in Outcomes : later(p) = IF p = o THEN of(p) \cup {f} ELSE of(p)
  OBVIOUS
<1>4. /\ IsFiniteSet(of(o)) /\ f \notin of(o)
      /\ Cardinality(of(o) \cup {f}) = Cardinality(of(o)) + 1
  <2>1. of(o) \in SUBSET Fields /\ f \notin of(o)
    BY DEF FinalizedFields
  <2>2. IsFiniteSet(of(o))
    BY <2>1, VerificationAssumption, FS_Subset
  <2> QED
    BY <2>1, <2>2, FS_AddElement
<1>5. CountersOf(r) = [p \in Outcomes |-> CountersOf(r)[p]]
  BY DEF CountersOf
<1> HIDE DEF of, later
<1>6. \A p \in Outcomes : Cardinality(later(p)) =
         IF p = o THEN CountersOf(r)[o] + 1 ELSE CountersOf(r)[p]
  BY <1>1, <1>3, <1>4
<1> QED
  BY <1>2, <1>5, <1>6

\* What the first finding of a field makes of the rows.
FirstFound(r, f, new) ==
    /\ Follows(new, assessed[r][f]) /\ new[1] \in Outcomes
    /\ finding[r][f].status = "PENDING" /\ run[r].status = "RUNNING"
    /\ run'[r].status = "RUNNING"
    /\ run'[r].counter = [run[r].counter EXCEPT ![new[1]] = run[r].counter[new[1]] + 1]
    /\ finding'[r][f].status = "FINALIZED" /\ finding'[r][f].result = new
    /\ finding'[r][f].tally = Tally(assessed[r][f]) /\ assessed' = assessed
    /\ \A g \in Fields : g # f => finding'[r][g] = finding[r][g]
    /\ \A q \in Runs : q # r => run'[q] = run[q] /\ finding'[q] = finding[q]

\* What a finding becomes when the row of a pending one is finalized.
LEMMA FirstFinding ==
    ASSUME InductiveInvariant, NEW s \in Sessions, NEW r \in Runs, req[s].run = r,
           NEW f \in Fields, req[s].field = f, RequestOf(s), RowsAsRead(s),
           pc[s] = "commit", CommitFinalize(s, r, f)
    PROVE  \E new \in Results \ {NoResult} : FirstFound(r, f, new)
<1> DEFINE na == req[s].arg = "not_applicable"
           seen == assessed[r][f]
           final == Finalized(finding[r][f], saw[s], na)
<1>1. RowsTyped /\ SessionsTyped /\ Sound(r) /\ req[s].kind = "finalize"
  BY InvariantByRun DEF CommitFinalize
<1>2. /\ finding[r][f].status = "PENDING" /\ run[r].status = "RUNNING"
      /\ saw[s] = seen /\ read[s] = run[r].counter
  BY <1>1 DEF RowsAsRead
<1>3. PICK new : new = ResultOf(seen, na)
  OBVIOUS
<1>4. new \in Results \ {NoResult} /\ Follows(new, seen) /\ new[1] \in Outcomes
  <2>1. seen \in Seen /\ na \in BOOLEAN
    BY <1>1 DEF RowsTyped
  <2>2. new \in Results \ {NoResult} /\ Follows(new, seen)
    BY <1>3, <2>1, PolicyMeetsReference
  <2> QED
    BY <2>2 DEF Results, NoResult
<1>5. finding[r][f].tally = NoTally
  <2>1. finding[r][f] = Finding("PENDING")
    BY <1>1, <1>2 DEF Sound, PendingBare
  <2> QED
    BY <2>1 DEF Finding
<1>6. [x \in SourceClasses \X Stances |-> Counted(Tally(seen)[x], NoTally[x])] = Tally(seen)
  <2>1. Tally(seen) \in [SourceClasses \X Stances -> Nat]
    BY CountTypes
  <2> HIDE DEF seen
  <2> QED
    BY <2>1 DEF Counted, NoTally
<1>7. final.status = "FINALIZED" /\ final.result = new /\ final.tally = Tally(seen)
  BY <1>2, <1>3, <1>5, <1>6 DEF Finalized
<1> HIDE DEF final
<1>8. /\ run'[r] = [run[r] EXCEPT !.counter[new[1]] = run[r].counter[new[1]] + 1]
      /\ finding'[r][f] = final /\ assessed' = assessed
      /\ \A g \in Fields : g # f => finding'[r][g] = finding[r][g]
      /\ \A q \in Runs : q # r => run'[q] = run[q] /\ finding'[q] = finding[q]
  <2>1. /\ run' = [run EXCEPT ![r] = Incremented(s, r, new[1])]
        /\ finding' = [finding EXCEPT ![r][f] = final] /\ assessed' = assessed
    BY <1>7 DEF CommitFinalize, WriteRun, final
  <2> QED
    BY <1>1, <1>2, <2>1 DEF RowsTyped, Incremented
<1>9. /\ run'[r].status = run[r].status
      /\ run'[r].counter = [run[r].counter EXCEPT ![new[1]] = run[r].counter[new[1]] + 1]
  <2>1. PICK base \in [status : Ends \cup {"ABSENT", "PENDING", "RUNNING"},
                       ended : BOOLEAN, counter : Counters] : base = run[r]
    BY <1>1 DEF RowsTyped
  <2>2. run'[r] = [base EXCEPT !.counter[new[1]] = base.counter[new[1]] + 1]
    BY <1>8, <2>1
  <2> QED
    BY <2>1, <2>2
<1>10. FirstFound(r, f, new)
  BY <1>2, <1>4, <1>7, <1>8, <1>9 DEF FirstFound
<1> QED
  BY <1>4, <1>10

\* A commit leaves the counters exact.
LEMMA SerialCommit ==
    ASSUME InductiveInvariant, SerialInvariant, NEW s \in Sessions, Commit(s)
    PROVE  CountersExact'
<1>1. /\ RowsTyped /\ pc[s] = "commit" /\ RequestOf(s) /\ RowsAsRead(s) /\ CountersExact
  BY InvariantByRun DEF Commit, RequestsHold, SerialInvariant
<1>2. PICK r \in Runs : req[s].run = r
  BY <1>1 DEF RequestOf, Runs
<1> SUFFICES ASSUME NEW q \in Runs PROVE run'[q].counter = CountersOf(q)'
  BY DEF CountersExact
<1>3. CASE CommitStart(s, r) \/ CommitComplete(s, r)
  <2>1. PICK base \in [status : Ends \cup {"ABSENT", "PENDING", "RUNNING"},
                       ended : BOOLEAN, counter : Counters] : base = run[r]
    BY <1>1 DEF RowsTyped
  <2>2. /\ \/ run' = [run EXCEPT ![r] = [base EXCEPT !.status = "RUNNING"]]
           \/ run' = [run EXCEPT ![r] = [base EXCEPT !.status = req[s].arg, !.ended = TRUE]]
        /\ finding' = finding
    BY <1>3, <2>1 DEF CommitStart, CommitComplete, WriteRun
  <2>3. run'[q].counter = run[q].counter
    <3>1. run'[r].counter = run[r].counter
      <4>1. \/ run'[r] = [base EXCEPT !.status = "RUNNING"]
            \/ run'[r] = [base EXCEPT !.status = req[s].arg, !.ended = TRUE]
        BY <1>1, <2>2 DEF RowsTyped
      <4> QED
        BY <2>1, <4>1
    <3>2. q # r => run'[q] = run[q]
      BY <1>1, <2>2 DEF RowsTyped
    <3> QED
      BY <3>1, <3>2
  <2> QED
    BY <1>1, <2>2, <2>3, CountersKept DEF CountersExact
<1>4. CASE CommitField(s, r, req[s].field)
  <2>1. PICK f \in Fields : req[s].field = f
    BY <1>1, <1>4 DEF RequestOf, CommitField
  <2>2. /\ run' = run /\ finding[r][f].status = "ABSENT"
        /\ finding'[r][f].status = "PENDING"
        /\ \A g \in Fields : g # f => finding'[r][g] = finding[r][g]
        /\ \A p \in Runs : p # r => finding'[p] = finding[p]
    BY <1>1, <1>4, <2>1 DEF CommitField, RowsTyped, Finding
  <2>3. CASE q # r
    BY <1>1, <2>2, <2>3, CountersKept DEF CountersExact
  <2>4. CASE q = r
    <3>1. /\ FinalizedFields(r)' = FinalizedFields(r)
          /\ \A g \in FinalizedFields(r) : finding'[r][g] = finding[r][g]
      BY <2>2 DEF FinalizedFields
    <3>2. CountersOf(r)' = CountersOf(r)
      BY <3>1 DEF CountersOf
    <3> QED
      BY <1>1, <2>2, <2>4, <3>2 DEF CountersExact
  <2> QED
    BY <2>3, <2>4
<1>5. CASE CommitAssess(s, r, req[s].field)
  BY <1>1, <1>5, CountersKept DEF CommitAssess, CountersExact
<1>6. CASE CommitFinalize(s, r, req[s].field)
  <2>1. PICK f \in Fields : req[s].field = f
    BY <1>1, <1>6 DEF RequestOf, CommitFinalize
  <2>2. PICK new \in Results \ {NoResult} : FirstFound(r, f, new)
    BY <1>1, <1>2, <1>6, <2>1, FirstFinding
  <2>3. CASE q # r
    BY <1>1, <2>2, <2>3, CountersKept DEF CountersExact, FirstFound
  <2>4. CASE q = r
    <3>1. /\ f \notin FinalizedFields(r)
          /\ FinalizedFields(r)' = FinalizedFields(r) \cup {f}
          /\ \A g \in FinalizedFields(r) : finding'[r][g] = finding[r][g]
      BY <2>2 DEF FinalizedFields, FirstFound
    <3>2. CountersOf(r)' = [CountersOf(r) EXCEPT ![new[1]] = CountersOf(r)[new[1]] + 1]
      BY <2>2, <3>1, OneMore DEF FirstFound
    <3> QED
      BY <1>1, <2>2, <2>4, <3>2 DEF CountersExact, FirstFound
  <2> QED
    BY <2>3, <2>4
<1> QED
  BY <1>2, <1>3, <1>4, <1>5, <1>6 DEF Commit

LEMMA SerialNext ==
    InductiveInvariant /\ NoOverlap /\ NoOverlap' /\ SerialInvariant /\ [Next]_vars
        => SerialInvariant'
<1> SUFFICES ASSUME InductiveInvariant, NoOverlap, NoOverlap', SerialInvariant, [Next]_vars
             PROVE  SerialInvariant'
  OBVIOUS
<1>1. ASSUME UNCHANGED rows
      PROVE  CountersExact'
  BY <1>1, CountersKept DEF rows, SerialInvariant, CountersExact
<1>2. CASE UNCHANGED vars
  BY <1>1, <1>2, ReadKept DEF vars, rows, SerialInvariant
<1>3. CASE \E r \in Runs : \/ r \in ManualRuns /\ CreateRun(r)
                           \/ r \in WorkerRuns /\ WorkerRun(r)
  BY <1>3, SerialCreate
<1>4. ASSUME NEW s \in Sessions,
             Request(s) \/ LoadAssessments(s) \/ CheckRun(s) \/ CountFinalized(s)
      PROVE  SerialInvariant'
  <2>1. UNCHANGED rows
    BY <1>4, BeginSafe, ReadSafe
  <2>2. RowsAsRead(s)'
    <3>1. CASE Request(s)
      BY <3>1, SerialBegin
    <3>2. CASE LoadAssessments(s) \/ CheckRun(s) \/ CountFinalized(s)
      <4>1. RowsAsRead(s)
        BY <3>2 DEF SerialInvariant, LoadAssessments, CheckRun, CountFinalized
      <4> QED
        BY <3>2, <4>1, SerialRead
    <3> QED
      BY <1>4, <3>1, <3>2
  <2>3. pc'[s] # "idle"
    BY <1>4, InvariantByRun DEF SessionsTyped, Request, BeginStart, BeginComplete, BeginField,
       BeginAssess, BeginFinalize, Begin, LoadAssessments, CheckRun, CountFinalized
  <2> QED
    BY <1>1, <2>1, <2>2, <2>3 DEF SerialInvariant, NoOverlap
<1>5. ASSUME NEW s \in Sessions, Commit(s) \/ Abandon(s)
      PROVE  SerialInvariant'
  <2>1. CountersExact'
    BY <1>1, <1>5, SerialCommit DEF Abandon
  <2>2. /\ pc[s] # "idle" /\ pc'[s] = "idle"
        /\ \A t \in Sessions : t # s => pc'[t] = pc[t]
    BY <1>5, InvariantByRun, QuietTyped DEF Commit, Abandon
  <2> QED
    BY <2>1, <2>2 DEF SerialInvariant, NoOverlap
<1> QED
  BY <1>2, <1>3, <1>4, <1>5 DEF Next, Runs

LEMMA ContractCardinality == \A S : Contract!Cardinality(S) = Cardinality(S)
BY DEF Contract!Cardinality, Cardinality

\* The contract speaks of the same policy.
LEMMA ContractVocabulary ==
    /\ Contract!NoResult = NoResult /\ Contract!Results = Results
    /\ Contract!Outcomes = Outcomes /\ Contract!Assessments = Assessments
    /\ Contract!Unassessed = Unassessed
    /\ \A seen : Contract!Tally(seen) = Tally(seen)
    /\ \A found, seen : Contract!Follows(found, seen) = Follows(found, seen)
<1>1. /\ Contract!NoResult = NoResult /\ Contract!Stances = Stances
      /\ Contract!SourceClasses = SourceClasses /\ Contract!Outcomes = Outcomes
      /\ Contract!Unassessed = Unassessed
  BY DEF Contract!NoResult, NoResult, Contract!Stances, Stances, Contract!SourceClasses,
         SourceClasses, Contract!Outcomes, Outcomes, Contract!Unassessed, Unassessed
<1>2. Contract!Results = Results /\ Contract!Assessments = Assessments
  BY <1>1 DEF Contract!Results, Results, Contract!Assessments, Assessments
<1>3. \A seen : Contract!Tally(seen) = Tally(seen)
  BY <1>1, ContractCardinality, Zenon DEF Contract!Tally, Tally
<1>4. \A seen, k, classes : Contract!Says(seen, k, classes) = Says(seen, k, classes)
  BY DEF Contract!Says, Says
<1>5. Contract!Official = Official /\ Contract!Other = Other
  BY <1>1 DEF Contract!Official, Official, Contract!Other, Other
<1>6. \A found, seen : Contract!Follows(found, seen) = Follows(found, seen)
  <2> SUFFICES ASSUME NEW found, NEW seen
               PROVE  Contract!Follows(found, seen) = Follows(found, seen)
    OBVIOUS
  <2> QED
    BY <1>1, <1>4, <1>5, Zenon DEF Contract!Follows, Follows
<1> QED
  BY <1>1, <1>2, <1>3, <1>6

\* A field has a result exactly when its verification is finalized.
LEMMA MadeIsFinalized ==
    ASSUME NEW r \in Runs, Sound(r)
    PROVE  /\ Contract!Made([f \in Fields |-> finding[r][f].result]) = FinalizedFields(r)
           /\ Contract!ByOutcome([f \in Fields |-> finding[r][f].result]) = CountersOf(r)
           /\ \A f \in Fields : finding[r][f].status # "FINALIZED" =>
                 finding[r][f].result = NoResult
<1> DEFINE found == [f \in Fields |-> finding[r][f].result]
<1>1. ASSUME NEW f \in FinalizedFields(r)
      PROVE  finding[r][f].result # NoResult
  BY DEF Sound, Justified, Follows, NoResult
<1>2. \A f \in Fields : finding[r][f].status # "FINALIZED" => finding[r][f].result = NoResult
  <2> SUFFICES ASSUME NEW f \in Fields, finding[r][f].status # "FINALIZED"
               PROVE  finding[r][f].result = NoResult
    OBVIOUS
  <2>1. PICK status : finding[r][f] = Finding(status)
    BY DEF Sound, PendingBare
  <2> QED
    BY <2>1 DEF Finding
<1>3. Contract!Made(found) = FinalizedFields(r)
  BY <1>1, <1>2, ContractVocabulary DEF Contract!Made, FinalizedFields
<1>4. \A f \in FinalizedFields(r) : found[f] = finding[r][f].result
  BY DEF FinalizedFields
<1> HIDE DEF found
<1>5. Contract!ByOutcome(found) = CountersOf(r)
  <2>1. \A o : {f \in Contract!Made(found) : found[f][1] = o}
                  = {f \in FinalizedFields(r) : finding[r][f].result[1] = o}
    BY <1>3, <1>4
  <2> QED
    BY <2>1, ContractVocabulary, ContractCardinality, Zenon DEF Contract!ByOutcome, CountersOf
<1> QED
  BY <1>2, <1>3, <1>5 DEF found

ContractCounts ==
    \A r \in Runs : Sound(r) =>
        Contract!ByOutcome([f \in Fields |-> finding[r][f].result]) = CountersOf(r)

LEMMA MadeIsFinalizedNext == ContractCounts'
<1>1. ContractCounts
  BY MadeIsFinalized DEF ContractCounts
<1> QED
  BY <1>1, PTL

\* What a step that only changes the status of runs leaves alone.
Unfound(q) ==
    /\ run'[q].counter = run[q].counter
    /\ \A f \in Fields : /\ finding'[q][f].result = finding[q][f].result
                         /\ finding'[q][f].tally = finding[q][f].tally

LEMMA ContractUnfound ==
    ASSUME \A q \in Runs : Unfound(q)
    PROVE  /\ [q \in Runs |-> [f \in Fields |-> finding'[q][f].result]]
                 = [q \in Runs |-> [f \in Fields |-> finding[q][f].result]]
           /\ [q \in Runs |-> [f \in Fields |-> finding'[q][f].tally]]
                 = [q \in Runs |-> [f \in Fields |-> finding[q][f].tally]]
           /\ [q \in Runs |-> run'[q].counter] = [q \in Runs |-> run[q].counter]
BY DEF Unfound

LEMMA ContractStutter ==
    ASSUME \A q \in Runs : Unfound(q) /\ run'[q].status = run[q].status, assessed' = assessed
    PROVE  UNCHANGED Contract!contract
BY ContractUnfound DEF Contract!contract

LEMMA ContractMove ==
    ASSUME NEW r \in Runs, NEW to, run'[r].status = to,
           \A q \in Runs : Unfound(q) /\ (q # r => run'[q].status = run[q].status),
           assessed' = assessed
    PROVE  Contract!Move(r, run[r].status, to)
<1>1. [q \in Runs |-> run'[q].status]
         = [[q \in Runs |-> run[q].status] EXCEPT ![r] = to]
  OBVIOUS
<1> QED
  BY <1>1, ContractUnfound DEF Contract!Move

\* A request that starts or ends a run, one that adds a field.
LEMMA ContractQuick ==
    ASSUME InductiveInvariant, NEW s \in Sessions, NEW r \in Runs, req[s].run = r,
           RequestOf(s), RowsAsRead(s), pc[s] = "commit",
           \/ CommitStart(s, r) \/ CommitComplete(s, r)
           \/ CommitField(s, r, req[s].field)
    PROVE  Contract!Next \/ UNCHANGED Contract!contract
<1>1. RowsTyped /\ Sound(r)
  BY InvariantByRun
<1>2. PICK base \in [status : Ends \cup {"ABSENT", "PENDING", "RUNNING"},
                     ended : BOOLEAN, counter : Counters] : base = run[r]
  BY <1>1 DEF RowsTyped
<1>3. CASE CommitStart(s, r)
  <2>1. /\ run[r].status = "PENDING" /\ finding' = finding /\ assessed' = assessed
        /\ run'[r] = [base EXCEPT !.status = "RUNNING"]
        /\ \A q \in Runs : q # r => run'[q] = run[q]
    BY <1>1, <1>2, <1>3 DEF CommitStart, WriteRun, RowsAsRead, RowsTyped
  <2>2. run'[r].status = "RUNNING" /\ run'[r].counter = run[r].counter
    BY <1>2, <2>1
  <2>3. \A q \in Runs : Unfound(q) /\ (q # r => run'[q].status = run[q].status)
    BY <2>1, <2>2 DEF Unfound
  <2>4. Contract!Move(r, "PENDING", "RUNNING")
    BY <2>1, <2>2, <2>3, ContractMove
  <2> QED
    BY <2>4 DEF Contract!Next
<1>4. CASE CommitComplete(s, r)
  <2>0. PICK end \in Ends : end = req[s].arg
    BY <1>4 DEF CommitComplete, RequestOf
  <2> DEFINE n == Cardinality(FinalizedFields(r))
             made == Contract!Made([f \in Fields |-> finding[r][f].result])
  <2>1. /\ run[r].status = "RUNNING" /\ finding' = finding /\ assessed' = assessed
        /\ run'[r] = [base EXCEPT !.status = end, !.ended = TRUE]
        /\ \A q \in Runs : q # r => run'[q] = run[q]
        /\ CountsTo(end, n, Cardinality(Fields))
    BY <1>1, <1>2, <1>4, <2>0 DEF CommitComplete, WriteRun, RowsAsRead, RowsTyped
  <2>2. run'[r].status = end /\ run'[r].counter = run[r].counter
    BY <1>2, <2>1
  <2>3. \A q \in Runs : Unfound(q) /\ (q # r => run'[q].status = run[q].status)
    BY <2>1, <2>2 DEF Unfound
  <2>4. Contract!Move(r, "RUNNING", end)
    <3> HIDE DEF n
    <3>1. run[r].status = "RUNNING" /\ run'[r].status = end /\ assessed' = assessed
      BY <2>1, <2>2
    <3> QED
      BY <2>3, <3>1, ContractMove
  <2>5. made = FinalizedFields(r) /\ FinalizedFields(r) \in SUBSET Fields
    BY <1>1, MadeIsFinalized DEF FinalizedFields
  <2>6. /\ end = "COMPLETED" => made = Fields
        /\ end = "PARTIAL" => made \notin {{}, Fields}
    <3>1. n = Cardinality(Fields) => FinalizedFields(r) = Fields
      BY <2>5, AllCounted
    <3>2. n > 0 => FinalizedFields(r) # {}
      BY <2>5, FieldCount
    <3>3. n < Cardinality(Fields) => FinalizedFields(r) # Fields
      BY VerificationAssumption, FS_CardinalityType
    <3> QED
      BY <2>1, <2>5, <3>1, <3>2, <3>3 DEF CountsTo
  <2>7. Contract!End(r)
    <3>1. [q \in Runs |-> [f \in Fields |-> finding[q][f].result]][r]
            = [f \in Fields |-> finding[r][f].result]
      OBVIOUS
    <3>2. end \in {"COMPLETED", "PARTIAL", "FAILED"}
      BY DEF Ends
    <3>3. CASE end = "COMPLETED"
      BY <2>4, <2>6, <3>1, <3>3 DEF Contract!End
    <3>4. CASE end = "PARTIAL"
      BY <2>4, <2>6, <3>1, <3>4 DEF Contract!End
    <3>5. CASE end = "FAILED"
      BY <2>4, <3>5 DEF Contract!End
    <3> QED
      BY <3>2, <3>3, <3>4, <3>5
  <2> QED
    BY <2>7 DEF Contract!Next
<1>5. CASE CommitField(s, r, req[s].field)
  <2>1. PICK f \in Fields : req[s].field = f
    BY <1>5 DEF RequestOf, CommitField
  <2>2. /\ run' = run /\ assessed' = assessed /\ finding'[r][f] = Finding("PENDING")
        /\ finding[r][f] = Finding("ABSENT")
        /\ \A g \in Fields : g # f => finding'[r][g] = finding[r][g]
        /\ \A q \in Runs : q # r => finding'[q] = finding[q]
    BY <1>1, <1>5, <2>1 DEF CommitField, RowsTyped, Sound, PendingBare
  <2>3. /\ finding'[r][f].result = finding[r][f].result
        /\ finding'[r][f].tally = finding[r][f].tally
    BY <2>2 DEF Finding
  <2>4. \A q \in Runs : Unfound(q) /\ run'[q].status = run[q].status
    BY <2>2, <2>3 DEF Unfound
  <2> QED
    BY <2>2, <2>4, ContractStutter
<1> QED
  BY <1>3, <1>4, <1>5

LEMMA ContractAssess ==
    ASSUME InductiveInvariant, NEW s \in Sessions, NEW r \in Runs, req[s].run = r,
           NEW f \in Fields, req[s].field = f, RequestOf(s), RowsAsRead(s),
           pc[s] = "commit", CommitAssess(s, r, f)
    PROVE  \E e \in Evidence : Contract!Assess(r, f, e)
<1>1. RowsTyped /\ Sound(r)
  BY InvariantByRun
<1>2. PICK e \in Evidence, a \in Assessments : req[s].evidence = e /\ req[s].arg = a
  BY DEF CommitAssess, RequestOf
<1>3. /\ run[r].status = "RUNNING" /\ finding[r][f].status = "PENDING"
      /\ assessed[r][f][e] = "none"
      /\ assessed' = [assessed EXCEPT ![r][f][e] = a]
      /\ run' = run /\ finding' = finding
  BY <1>2 DEF CommitAssess, RowsAsRead
<1>4. finding[r][f].result = NoResult
  BY <1>1, <1>3, MadeIsFinalized
<1>5. \A q \in Runs : Unfound(q)
  BY <1>3 DEF Unfound
<1>6. /\ [q \in Runs |-> run[q].status][r] = "RUNNING"
      /\ [q \in Runs |-> [g \in Fields |-> finding[q][g].result]][r][f] = NoResult
      /\ [q \in Runs |-> run'[q].status] = [q \in Runs |-> run[q].status]
  BY <1>3, <1>4
<1> QED
  BY <1>2, <1>3, <1>5, <1>6, ContractVocabulary, ContractUnfound, Zenon DEF Contract!Assess

\* The first finding of a field is the finding of the contract.
LEMMA ContractFinalize ==
    ASSUME InductiveInvariant, SerialInvariant, CountersExact', InductiveInvariant',
           NEW r \in Runs, NEW f \in Fields, NEW new \in Results, FirstFound(r, f, new)
    PROVE  Contract!Finalize(r, f)
<1> DEFINE results == [q \in Runs |-> [g \in Fields |-> finding[q][g].result]]
           later == [q \in Runs |-> [g \in Fields |-> finding'[q][g].result]]
           tallies == [q \in Runs |-> [g \in Fields |-> finding[q][g].tally]]
           now == Tally(assessed[r][f])
<1>1. Sound(r) /\ Sound(r)'
  BY InvariantByRun, InvariantByRunNext
<1>2. /\ finding[r][f].status = "PENDING" /\ run[r].status = "RUNNING"
      /\ run'[r].status = "RUNNING" /\ finding'[r][f].result = new
      /\ finding'[r][f].tally = now /\ assessed' = assessed
      /\ \A g \in Fields : g # f => finding'[r][g] = finding[r][g]
      /\ \A q \in Runs : q # r => run'[q] = run[q] /\ finding'[q] = finding[q]
  BY DEF FirstFound
<1>3. results[r][f] = NoResult
  BY <1>1, <1>2, MadeIsFinalized
<1>4. later = [results EXCEPT ![r][f] = new]
  <2>1. later[r] = [results[r] EXCEPT ![f] = new]
    BY <1>2
  <2>2. \A q \in Runs : q # r => later[q] = results[q]
    BY <1>2
  <2>3. later = [q \in Runs |-> later[q]] /\ results = [q \in Runs |-> results[q]]
    OBVIOUS
  <2> HIDE DEF later, results
  <2> QED
    BY <2>1, <2>2, <2>3
<1>5. [q \in Runs |-> [g \in Fields |-> finding'[q][g].tally]]
         = [tallies EXCEPT ![r][f] = now]
  <2> DEFINE after == [q \in Runs |-> [g \in Fields |-> finding'[q][g].tally]]
  <2>1. after[r] = [tallies[r] EXCEPT ![f] = now]
    BY <1>2
  <2>2. \A q \in Runs : q # r => after[q] = tallies[q]
    BY <1>2
  <2>3. after = [q \in Runs |-> after[q]] /\ tallies = [q \in Runs |-> tallies[q]]
    OBVIOUS
  <2> HIDE DEF after, tallies
  <2>4. after = [tallies EXCEPT ![r][f] = now]
    BY <2>1, <2>2, <2>3
  <2> QED
    BY <2>4 DEF after
<1>6. run'[r].counter = Contract!ByOutcome(later[r])
  <2>1. Contract!ByOutcome([g \in Fields |-> finding'[r][g].result]) = CountersOf(r)'
    BY <1>1, MadeIsFinalizedNext DEF ContractCounts
  <2>2. later[r] = [g \in Fields |-> finding'[r][g].result]
    OBVIOUS
  <2> HIDE DEF later
  <2> QED
    BY <2>1, <2>2 DEF CountersExact
<1>7. [q \in Runs |-> run'[q].counter]
         = [[q \in Runs |-> run[q].counter] EXCEPT ![r] = Contract!ByOutcome(later[r])]
  <2> HIDE DEF later
  <2> QED
    BY <1>2, <1>6
<1>8. [q \in Runs |-> run'[q].status] = [q \in Runs |-> run[q].status]
  BY <1>2
<1>9. [q \in Runs |-> run[q].status][r] = "RUNNING"
  BY <1>2
<1>10. new \in Contract!Results /\ Contract!Follows(new, assessed[r][f])
  BY ContractVocabulary DEF FirstFound
<1> QED
  BY <1>2, <1>3, <1>4, <1>5, <1>7, <1>8, <1>9, <1>10, ContractVocabulary, Zenon
  DEF Contract!Finalize

\* The run of the worker is made as a whole.
LEMMA ContractWhole ==
    ASSUME InductiveInvariant, InductiveInvariant', CountersExact',
           NEW r \in WorkerRuns, WorkerRun(r)
    PROVE  Contract!Whole(r)
<1> DEFINE results == [q \in Runs |-> [f \in Fields |-> finding[q][f].result]]
           later == [q \in Runs |-> [f \in Fields |-> finding'[q][f].result]]
           tallies == [q \in Runs |-> [f \in Fields |-> finding[q][f].tally]]
           shown == [q \in Runs |-> [f \in Fields |-> finding'[q][f].tally]]
<1>1. /\ r \in Runs /\ RowsTyped /\ RowsTyped' /\ Sound(r)' /\ WorkerExact'
  BY InvariantByRun, InvariantByRunNext DEF Runs, InductiveInvariant
<1>2. /\ run[r].status = "ABSENT" /\ run'[r].status = "COMPLETED"
      /\ \A q \in Runs : q # r =>
            run'[q] = run[q] /\ finding'[q] = finding[q] /\ assessed'[q] = assessed[q]
  BY <1>1 DEF WorkerRun, RowsTyped, RunRow
<1>3. \A f \in Fields : /\ Follows(finding'[r][f].result, assessed'[r][f])
                        /\ finding'[r][f].tally = Tally(assessed'[r][f])
  BY <1>1, <1>2 DEF WorkerExact
<1>4. [q \in Runs |-> run'[q].status]
         = [[q \in Runs |-> run[q].status] EXCEPT ![r] = "COMPLETED"]
  BY <1>2
<1>5. later \in [Runs -> [Fields -> Results]]
  <2>1. \A q \in Runs : \A f \in Fields : finding'[q][f] \in Findings
    BY <1>1 DEF RowsTyped
  <2>2. \A x \in Findings : x.result \in Results
    BY DEF Findings
  <2> QED
    BY <2>1, <2>2
<1>6. assessed' \in [Runs -> [Fields -> [Evidence -> Assessments \cup {"none"}]]]
  BY <1>1 DEF RowsTyped, Seen
<1>7. \A q \in Runs \ {r} : assessed'[q] = assessed[q] /\ later[q] = results[q]
  BY <1>2
<1>8. \A f \in Fields : Follows(later[r][f], assessed'[r][f])
  BY <1>1, <1>3
<1>9. shown = [tallies EXCEPT ![r] = [f \in Fields |-> Tally(assessed'[r][f])]]
  <2>1. shown[r] = [f \in Fields |-> Tally(assessed'[r][f])]
    BY <1>1, <1>3
  <2>2. \A q \in Runs : q # r => shown[q] = tallies[q]
    BY <1>2
  <2>3. shown = [q \in Runs |-> shown[q]] /\ tallies = [q \in Runs |-> tallies[q]]
    OBVIOUS
  <2> HIDE DEF shown, tallies
  <2> QED
    BY <2>1, <2>2, <2>3
<1>10. run'[r].counter = Contract!ByOutcome(later[r])
  <2>1. Contract!ByOutcome([f \in Fields |-> finding'[r][f].result]) = CountersOf(r)'
    BY <1>1, MadeIsFinalizedNext DEF ContractCounts
  <2>2. later[r] = [f \in Fields |-> finding'[r][f].result]
    BY <1>1
  <2> HIDE DEF later
  <2> QED
    BY <1>1, <2>1, <2>2 DEF CountersExact
<1>11. [q \in Runs |-> run'[q].counter]
          = [[q \in Runs |-> run[q].counter] EXCEPT ![r] = Contract!ByOutcome(later[r])]
  <2> HIDE DEF later
  <2> QED
    BY <1>2, <1>10
<1>12. [q \in Runs |-> run[q].status][r] = "ABSENT"
  BY <1>1, <1>2
<1>13. /\ later \in [Runs -> [Fields -> Contract!Results]]
       /\ assessed' \in [Runs -> [Fields -> [Evidence -> Contract!Assessments \cup {"none"}]]]
       /\ \A f \in Fields : Contract!Follows(later[r][f], assessed'[r][f])
       /\ shown = [tallies EXCEPT ![r] = [f \in Fields |-> Contract!Tally(assessed'[r][f])]]
  <2> HIDE DEF later, shown, tallies
  <2> QED
    BY <1>5, <1>6, <1>8, <1>9, ContractVocabulary
<1> QED
  BY <1>4, <1>7, <1>11, <1>12, <1>13, Zenon DEF Contract!Whole

LEMMA ContractStep ==
    ASSUME InductiveInvariant, SerialInvariant, InductiveInvariant', SerialInvariant',
           [Next]_vars
    PROVE  Contract!Next \/ UNCHANGED Contract!contract
<1>1. ASSUME UNCHANGED rows
      PROVE  UNCHANGED Contract!contract
  BY <1>1, ContractStutter DEF rows, Unfound
<1>2. ASSUME NEW s \in Sessions,
             \/ Request(s) \/ LoadAssessments(s) \/ CheckRun(s) \/ CountFinalized(s)
             \/ Abandon(s)
      PROVE  UNCHANGED Contract!contract
  BY <1>1, <1>2, BeginSafe, ReadSafe, AbandonSafe
<1>3. ASSUME NEW r \in ManualRuns, CreateRun(r)
      PROVE  Contract!Next
  <2>1. r \in Runs /\ RowsTyped
    BY InvariantByRun DEF Runs
  <2>2. Sound(r) /\ Sound(r)' /\ CountersExact /\ CountersExact'
    BY <2>1, InvariantByRun, InvariantByRunNext DEF SerialInvariant
  <2>3. /\ run[r].status = "ABSENT" /\ run'[r].status = "PENDING"
        /\ finding' = finding /\ assessed' = assessed
        /\ \A q \in Runs : q # r => run'[q] = run[q]
    BY <1>3, <2>1 DEF CreateRun, RowsTyped, RunRow
  <2>4. run'[r].counter = run[r].counter
    BY <2>1, <2>2, <2>3, CountersKept DEF CountersExact
  <2>5. \A q \in Runs : Unfound(q) /\ (q # r => run'[q].status = run[q].status)
    BY <2>3, <2>4 DEF Unfound
  <2>6. Contract!Move(r, "ABSENT", "PENDING")
    BY <2>1, <2>3, <2>5, ContractMove
  <2> QED
    BY <2>1, <2>6 DEF Contract!Next
<1>4. ASSUME NEW r \in WorkerRuns, WorkerRun(r)
      PROVE  Contract!Next
  <2>1. Contract!Whole(r) /\ r \in Runs
    BY <1>4, ContractWhole DEF SerialInvariant, Runs
  <2> QED
    BY <2>1 DEF Contract!Next
<1>5. ASSUME NEW s \in Sessions, Commit(s)
      PROVE  Contract!Next \/ UNCHANGED Contract!contract
  <2>1. pc[s] = "commit" /\ RequestOf(s) /\ RowsAsRead(s)
    BY <1>5, InvariantByRun DEF Commit, RequestsHold, SerialInvariant
  <2>2. PICK r \in Runs : req[s].run = r
    BY <2>1 DEF RequestOf, Runs
  <2>3. CASE CommitAssess(s, r, req[s].field)
    <3>1. PICK f \in Fields : req[s].field = f
      BY <2>1, <2>3 DEF RequestOf, CommitAssess
    <3>2. \E e \in Evidence : Contract!Assess(r, f, e)
      BY <2>1, <2>2, <2>3, <3>1, ContractAssess
    <3> QED
      BY <3>2 DEF Contract!Next
  <2>4. CASE CommitFinalize(s, r, req[s].field)
    <3>1. PICK f \in Fields : req[s].field = f
      BY <2>1, <2>4 DEF RequestOf, CommitFinalize
    <3>2. PICK new \in Results \ {NoResult} : FirstFound(r, f, new)
      BY <2>1, <2>2, <2>4, <3>1, FirstFinding
    <3>3. Contract!Finalize(r, f)
      BY <3>2, ContractFinalize DEF SerialInvariant
    <3> QED
      BY <3>3 DEF Contract!Next
  <2> QED
    BY <1>5, <2>1, <2>2, <2>3, <2>4, ContractQuick DEF Commit
<1> QED
  BY <1>1, <1>2, <1>3, <1>4, <1>5 DEF Next, vars, rows

LEMMA ContractInit == Init => Contract!Init
<1> SUFFICES ASSUME Init PROVE Contract!Init
  OBVIOUS
<1> DEFINE results == [q \in Runs |-> [f \in Fields |-> finding[q][f].result]]
<1>1. \A r \in Runs : \A f \in Fields :
         finding[r][f].result = NoResult /\ finding[r][f].tally = NoTally
  BY DEF Init, Finding
<1>2. Tally(Unassessed) = NoTally
  <2>1. \A x \in SourceClasses \X Stances :
           {e \in Evidence : SourceClass[e] = x[1] /\ Unassessed[e] = x[2]} = {}
    BY DEF Unassessed, Stances
  <2> QED
    BY <2>1, FS_EmptySet DEF Tally, NoTally
<1>3. /\ [q \in Runs |-> run[q].status] = [q \in Runs |-> "ABSENT"]
      /\ assessed = [q \in Runs |-> [f \in Fields |-> Unassessed]]
      /\ results = [q \in Runs |-> [f \in Fields |-> NoResult]]
      /\ [q \in Runs |-> [f \in Fields |-> finding[q][f].tally]]
            = [q \in Runs |-> [f \in Fields |-> Tally(Unassessed)]]
  BY <1>1, <1>2 DEF Init, RunRow
<1>4. ASSUME NEW r \in Runs
      PROVE  run[r].counter = Contract!ByOutcome(results[r])
  <2>1. Sound(r) /\ CountersExact
    BY InitSafe, SerialInit, InvariantByRun DEF SerialInvariant
  <2>2. results[r] = [f \in Fields |-> finding[r][f].result]
    OBVIOUS
  <2> HIDE DEF results
  <2> QED
    BY <2>1, <2>2, MadeIsFinalized DEF CountersExact
<1>5. [q \in Runs |-> run[q].counter]
         = [q \in Runs |-> Contract!ByOutcome(results[q])]
  <2> HIDE DEF results
  <2> QED
    BY <1>4
<1> QED
  BY <1>3, <1>5, ContractVocabulary, Zenon DEF Contract!Init

\* As long as no request overlaps another, whatever sessions and worker runs there
\* are, the runs keep the contract of VerificationLifecycle: a finding is made once
\* and from all assessments of its field, the counters are at every moment the
\* findings by outcome, and the end of a run says how many findings it has.
THEOREM SerialContract ==
    Spec /\ []NoOverlap => LifecycleSpec /\ []CountersExact
<1>1. Spec /\ []NoOverlap => []SerialInvariant
  BY SerialInit, SerialNext, RunsInvariant, PTL DEF Spec
<1>2. InductiveInvariant /\ SerialInvariant /\ InductiveInvariant' /\ SerialInvariant'
         /\ [Next]_vars => [Contract!Next]_(Contract!contract)
  BY ContractStep
<1>3. SerialInvariant => CountersExact
  BY DEF SerialInvariant
<1> QED
  BY <1>1, <1>2, <1>3, ContractInit, RunsInvariant, PTL
  DEF Spec, LifecycleSpec, Contract!Spec
=============================================================================
