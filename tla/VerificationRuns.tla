-------------------------- MODULE VerificationRuns --------------------------
(***************************************************************************)
(* VerificationService over PostgreSQL at READ COMMITTED: the runs that    *)
(* verify one candidate revision, which is READY_FOR_VERIFICATION.         *)
(*                                                                         *)
(* A request of the API is one transaction without a lock: it reads a row, *)
(* reads a second one, and commits what it computed from both.  An UPDATE  *)
(* sets the columns whose value differs from the one that was loaded, and  *)
(* a counter is set to the successor of the value that was loaded.         *)
(*                                                                         *)
(* The verification worker makes a run, verifies all fields and completes  *)
(* the run in one transaction, of which nobody sees anything before it     *)
(* commits.                                                                *)
(***************************************************************************)
EXTENDS VerificationPolicy

CONSTANTS
    ManualRuns,     \* runs created through the API
    WorkerRuns,     \* runs of the verification worker
    Fields,         \* the CandidateFields of the revision
    Asked,          \* the assessments clients ask for: field, Evidence, stance
    Links,          \* the extraction Evidence of each field
    Interpretation, \* CandidateFieldEvidenceVerifier: what an Evidence says
    Sessions

Runs == ManualRuns \cup WorkerRuns

Ends == {"COMPLETED", "PARTIAL", "FAILED"}

ASSUME VerificationAssumption ==
    /\ IsFiniteSet(Fields) /\ Fields # {}
    /\ ManualRuns \cap WorkerRuns = {}
    /\ Asked \subseteq Fields \X Evidence \X Assessments
    /\ Links \in [Fields -> SUBSET Evidence]
    /\ Interpretation \in [Fields \X Evidence -> Assessments]

VARIABLES
    run,        \* verification_runs: status, completed_at and counters
    finding,    \* field_verifications of each run, by field
    assessed,   \* verification_evidence_assessments, by field and Evidence
    pc,         \* where each session's request is
    req,        \* the request
    saw,        \* the assessments of the field it has loaded
    read        \* the counters of the run it has loaded

rows == <<run, finding, assessed>>
vars == <<run, finding, assessed, pc, req, saw, read>>

----------------------------------------------------------------------------
(* A field verification. *)

NoTally == [x \in SourceClasses \X Stances |-> 0]

Finding(status) ==
    [status |-> status, result |-> NoResult, tally |-> NoTally, count |-> 0]

\* The columns of a finding that differ from those of a pending one are set.
Counted(new, old) == IF new # 0 THEN new ELSE old

Finalized(old, seen, notApplicable) ==
    [status |-> "FINALIZED",
     result |-> ResultOf(seen, notApplicable),
     tally  |-> [x \in SourceClasses \X Stances |->
                    Counted(Tally(seen)[x], old.tally[x])],
     count  |-> Counted(Evaluated(seen), old.count)]

----------------------------------------------------------------------------
(* Rows and requests. *)

NoCounters == [o \in Outcomes |-> 0]
RunRow(status) ==
    [status |-> status, ended |-> status \in Ends, counter |-> NoCounters]

\* ck_verification_runs_lifecycle_times and ck_verification_runs_counter_total.
LifecycleCheck(row) == row.ended <=> row.status \in Ends
CounterCheck(row) ==
    row.counter["CONFIRMED"] + row.counter["CONFLICT"]
        + row.counter["INSUFFICIENT_EVIDENCE"] + row.counter["NOT_APPLICABLE"]
            <= Cardinality(Fields)

\* Mutants: the table lacks one of the two constraints.
RowUntimed(row) == CounterCheck(row)
RowUncounted(row) == LifecycleCheck(row)
RowCheck(row) == LifecycleCheck(row) /\ CounterCheck(row)

FinalizedFields(r) == {f \in Fields : finding[r][f].status = "FINALIZED"}

NoReq == [kind |-> "none", run |-> "none", field |-> "none",
          evidence |-> "none", arg |-> "none"]
RunRequest(kind, r, arg) ==
    [NoReq EXCEPT !.kind = kind, !.run = r, !.arg = arg]
FieldRequest(kind, r, f, arg) ==
    [RunRequest(kind, r, arg) EXCEPT !.field = f]

Init ==
    /\ run = [r \in Runs |-> RunRow("ABSENT")]
    /\ finding = [r \in Runs |-> [f \in Fields |-> Finding("ABSENT")]]
    /\ assessed = [r \in Runs |-> [f \in Fields |-> Unassessed]]
    /\ pc = [s \in Sessions |-> "idle"]
    /\ req = [s \in Sessions |-> NoReq]
    /\ saw = [s \in Sessions |-> Unassessed]
    /\ read = [s \in Sessions |-> NoCounters]

----------------------------------------------------------------------------
(* What a request reads and checks. *)

Begin(s, request, next) ==
    /\ pc[s] = "idle"
    /\ pc' = [pc EXCEPT ![s] = next]
    /\ req' = [req EXCEPT ![s] = request]
    /\ UNCHANGED <<rows, saw, read>>

BeginStart(s, r) ==
    /\ run[r].status = "PENDING"
    /\ Begin(s, RunRequest("start", r, "RUNNING"), "commit")

BeginComplete(s, r, end) ==
    /\ run[r].status = "RUNNING"
    /\ Begin(s, RunRequest("complete", r, end), "count")

\* create_field_verification; a field that has one already gets it back.
BeginField(s, r, f) ==
    /\ run[r].status = "RUNNING"
    /\ finding[r][f].status = "ABSENT"
    /\ Begin(s, FieldRequest("field", r, f, "PENDING"), "commit")

BeginAssess(s, r, f, e, a) ==
    /\ <<f, e, a>> \in Asked
    /\ finding[r][f].status = "PENDING"
    /\ assessed[r][f][e] = "none"
    /\ Begin(s, [FieldRequest("assess", r, f, a) EXCEPT !.evidence = e], "run")

BeginFinalize(s, r, f, arg) ==
    /\ finding[r][f].status = "PENDING"
    /\ Begin(s, FieldRequest("finalize", r, f, arg), "load")

\* The assessments are selected after the field verification itself.
LoadAssessments(s) ==
    /\ pc[s] = "load"
    /\ saw' = [saw EXCEPT ![s] = assessed[req[s].run][req[s].field]]
    /\ pc' = [pc EXCEPT ![s] = "run"]
    /\ UNCHANGED <<rows, req, read>>

\* add_assessment and finalize_field_verification read the run last.
CheckRun(s) ==
    /\ pc[s] = "run"
    /\ run[req[s].run].status = "RUNNING"
    /\ read' = [read EXCEPT ![s] = run[req[s].run].counter]
    /\ pc' = [pc EXCEPT ![s] = "commit"]
    /\ UNCHANGED <<rows, req, saw>>

\* Mutant: COMPLETED accepts one field less.
CountsToMost(end, n, total) == end = "COMPLETED" => n >= total - 1

\* What complete_run asks of the number of finalized fields.
CountsTo(end, n, total) ==
    /\ end = "COMPLETED" => n = total
    /\ end = "PARTIAL" => 0 < n /\ n < total

CountFinalized(s) ==
    /\ pc[s] = "count"
    /\ CountsTo(req[s].arg, Cardinality(FinalizedFields(req[s].run)),
                Cardinality(Fields))
    /\ pc' = [pc EXCEPT ![s] = "commit"]
    /\ UNCHANGED <<rows, req, saw, read>>

----------------------------------------------------------------------------
(* What a request commits. *)

Quiet(s) ==
    /\ pc' = [pc EXCEPT ![s] = "idle"]
    /\ req' = [req EXCEPT ![s] = NoReq]
    /\ saw' = [saw EXCEPT ![s] = Unassessed]
    /\ read' = [read EXCEPT ![s] = NoCounters]

WriteRun(r, row) == RowCheck(row) /\ run' = [run EXCEPT ![r] = row]

CommitStart(s, r) ==
    /\ req[s].kind = "start"
    /\ WriteRun(r, [run[r] EXCEPT !.status = "RUNNING"])
    /\ UNCHANGED <<finding, assessed>>

CommitComplete(s, r) ==
    /\ req[s].kind = "complete"
    /\ WriteRun(r, [run[r] EXCEPT !.status = req[s].arg, !.ended = TRUE])
    /\ UNCHANGED <<finding, assessed>>

\* uq_field_verifications_run_field refuses a second one.
CommitField(s, r, f) ==
    /\ req[s].kind = "field"
    /\ finding[r][f].status = "ABSENT"
    /\ finding' = [finding EXCEPT ![r][f] = Finding("PENDING")]
    /\ UNCHANGED <<run, assessed>>

\* Mutant: a second assessment of the same Evidence replaces the first.
CommitAssessOver(s, r, f) ==
    /\ req[s].kind = "assess"
    /\ assessed' = [assessed EXCEPT ![r][f][req[s].evidence] = req[s].arg]
    /\ UNCHANGED <<run, finding>>

\* uq_verification_assessments_field_evidence refuses a second one.
CommitAssess(s, r, f) ==
    /\ req[s].kind = "assess"
    /\ assessed[r][f][req[s].evidence] = "none"
    /\ assessed' = [assessed EXCEPT ![r][f][req[s].evidence] = req[s].arg]
    /\ UNCHANGED <<run, finding>>

\* Mutant: a field that is marked as not applicable is not counted.
IncrementedByEvidence(s, r, outcome) ==
    IF outcome = "NOT_APPLICABLE" THEN run[r]
    ELSE [run[r] EXCEPT !.counter[outcome] = read[s][outcome] + 1]

\* _increment_run_counter on the run as it was loaded.
Incremented(s, r, outcome) ==
    [run[r] EXCEPT !.counter[outcome] = read[s][outcome] + 1]

CommitFinalize(s, r, f) ==
    LET new == Finalized(finding[r][f], saw[s], req[s].arg = "not_applicable")
    IN  /\ req[s].kind = "finalize"
        /\ finding' = [finding EXCEPT ![r][f] = new]
        /\ WriteRun(r, Incremented(s, r, new.result[1]))
        /\ UNCHANGED assessed

Commit(s) ==
    /\ pc[s] = "commit"
    /\ \/ CommitStart(s, req[s].run)
       \/ CommitComplete(s, req[s].run)
       \/ CommitField(s, req[s].run, req[s].field)
       \/ CommitAssess(s, req[s].run, req[s].field)
       \/ CommitFinalize(s, req[s].run, req[s].field)
    /\ Quiet(s)

\* A check or a constraint refuses the request, or its process is lost.
Abandon(s) == pc[s] # "idle" /\ Quiet(s) /\ UNCHANGED rows

----------------------------------------------------------------------------
(* Runs that are made in one transaction. *)

CreateRun(r) ==
    /\ run[r].status = "ABSENT"
    /\ run' = [run EXCEPT ![r] = RunRow("PENDING")]
    /\ UNCHANGED <<finding, assessed, pc, req, saw, read>>

Interpreted(f) ==
    [e \in Evidence |-> IF e \in Links[f] THEN Interpretation[<<f, e>>] ELSE "none"]

\* Mutant: a field is finalized before its Evidence is interpreted.
WorkerFindingEarly(f) == Finalized(Finding("PENDING"), Unassessed, FALSE)
WorkerFinding(f) == Finalized(Finding("PENDING"), Interpreted(f), FALSE)

WorkerCounters ==
    [o \in Outcomes |-> Cardinality({f \in Fields : WorkerFinding(f).result[1] = o})]

\* VerificationWorkerService._process_revision.
WorkerRun(r) ==
    /\ run[r].status = "ABSENT"
    /\ run' = [run EXCEPT ![r] =
                   [RunRow("COMPLETED") EXCEPT !.counter = WorkerCounters]]
    /\ finding' = [finding EXCEPT ![r] = [f \in Fields |-> WorkerFinding(f)]]
    /\ assessed' = [assessed EXCEPT ![r] = [f \in Fields |-> Interpreted(f)]]
    /\ UNCHANGED <<pc, req, saw, read>>

Request(s) ==
    \E r \in Runs :
        \/ BeginStart(s, r)
        \/ \E end \in Ends : BeginComplete(s, r, end)
        \/ \E f \in Fields :
              \/ BeginField(s, r, f)
              \/ \E e \in Evidence, a \in Assessments : BeginAssess(s, r, f, e, a)
              \/ \E arg \in {"applicable", "not_applicable"} :
                    BeginFinalize(s, r, f, arg)

Next ==
    \/ \E r \in ManualRuns : CreateRun(r)
    \/ \E r \in WorkerRuns : WorkerRun(r)
    \/ \E s \in Sessions :
          \/ Request(s)
          \/ LoadAssessments(s) \/ CheckRun(s) \/ CountFinalized(s)
          \/ Commit(s) \/ Abandon(s)

Spec == Init /\ [][Next]_vars

----------------------------------------------------------------------------
(* Properties. *)

Findings ==
    [status : {"ABSENT", "PENDING", "FINALIZED"},
     result : Results,
     tally  : [SourceClasses \X Stances -> 0..Cardinality(Evidence)],
     count  : 0..Cardinality(Evidence)]
Counters == [Outcomes -> 0..Cardinality(Fields)]
Requests ==
    [kind : {"none", "start", "complete", "field", "assess", "finalize"},
     run : Runs \cup {"none"}, field : Fields \cup {"none"},
     evidence : Evidence \cup {"none"},
     arg : Ends \cup Assessments \cup
              {"none", "RUNNING", "PENDING", "applicable", "not_applicable"}]

\* Every variable has its type; in particular no counter exceeds the number
\* of fields, however often a field is counted.
RunsTypeOK ==
    /\ run \in [Runs -> [status : Ends \cup {"ABSENT", "PENDING", "RUNNING"},
                         ended : BOOLEAN, counter : Counters]]
    /\ finding \in [Runs -> [Fields -> Findings]]
    /\ assessed \in [Runs -> [Fields -> Seen]]
    /\ pc \in [Sessions -> {"idle", "load", "run", "count", "commit"}]
    /\ req \in [Sessions -> Requests]
    /\ saw \in [Sessions -> Seen]
    /\ read \in [Sessions -> Counters]

\* A COMPLETED run has a finalized verification of every field, whatever was
\* committed between the count of complete_run and its commit.
CompletedWhole ==
    \A r \in Runs : run[r].status = "COMPLETED" => FinalizedFields(r) = Fields

Among(r, f, S) == [e \in Evidence |-> IF e \in S THEN assessed[r][f][e] ELSE "none"]

\* A finding says no more than its evidence: the result follows by the policy
\* from some of the assessments the field has, and no count exceeds theirs.
FindingsJustified ==
    \A r \in Runs : \A f \in FinalizedFields(r) :
        /\ \E S \in SUBSET Evidence : Follows(finding[r][f].result, Among(r, f, S))
        /\ \A x \in SourceClasses \X Stances :
              finding[r][f].tally[x] <= Tally(assessed[r][f])[x]
        /\ finding[r][f].count <= Evaluated(assessed[r][f])

\* No outcome goes uncounted: the increments that overlapping requests lose
\* never lose the last one.
OutcomesCounted ==
    \A r \in Runs : \A f \in FinalizedFields(r) :
        run[r].counter[finding[r][f].result[1]] > 0

CountersOf(r) ==
    [o \in Outcomes |-> Cardinality({f \in FinalizedFields(r) :
                                        finding[r][f].result[1] = o})]

\* A run of the worker is exact from the moment it is visible, and no request
\* of the API ever changes it.
WorkerExact ==
    \A r \in WorkerRuns : run[r].status # "ABSENT" =>
        /\ run[r].status = "COMPLETED" /\ run[r].counter = CountersOf(r)
        /\ \A f \in Fields :
              /\ Follows(finding[r][f].result, assessed[r][f])
              /\ finding[r][f].tally = Tally(assessed[r][f])
              /\ finding[r][f].count = Evaluated(assessed[r][f])
              /\ Links[f] = {e \in Evidence : assessed[r][f][e] # "none"}

\* An assessment is never replaced, a finalized field never reopened, and a run
\* that has ended never runs again.
RunsKept ==
    [][\A r \in Runs :
          /\ run[r].status \in Ends => run'[r].status \in Ends
          /\ \A f \in Fields :
                /\ finding[r][f].status = "FINALIZED" =>
                        finding'[r][f].status = "FINALIZED"
                /\ \A e \in Evidence : assessed[r][f][e] # "none" =>
                        assessed'[r][f][e] = assessed[r][f][e]]_vars

\* What a request relies on between its reads and its commit, and the state
\* before it: no row of an absent run, nothing in a finding that is not final.
AbsentBare(r) ==
    run[r].status = "ABSENT" => \A f \in Fields :
        finding[r][f].status = "ABSENT" /\ assessed[r][f] = Unassessed
PendingBare(r) ==
    \A f \in Fields : finding[r][f].status # "FINALIZED" =>
        finding[r][f] = Finding(finding[r][f].status)

KindAt(place) ==
    CASE place = "load"  -> {"finalize"}
      [] place = "run"   -> {"assess", "finalize"}
      [] place = "count" -> {"complete"}
      [] OTHER           -> {"start", "complete", "field", "assess", "finalize"}

RequestOf(s) ==
    LET r == req[s].run
        f == req[s].field
    IN  /\ r \in ManualRuns /\ run[r].status # "ABSENT"
        /\ req[s].kind \in KindAt(pc[s])
        /\ req[s].kind = "complete" =>
              /\ req[s].arg \in Ends
              /\ pc[s] = "commit" /\ req[s].arg = "COMPLETED" =>
                    FinalizedFields(r) = Fields
        /\ req[s].kind \in {"field", "assess", "finalize"} => f \in Fields
        /\ req[s].kind = "assess" =>
              req[s].evidence \in Evidence /\ req[s].arg \in Assessments
        /\ req[s].kind \in {"assess", "finalize"} => finding[r][f].status # "ABSENT"
        /\ req[s].kind = "finalize" /\ pc[s] # "load" => Extends(saw[s], assessed[r][f])

InductiveInvariant ==
    /\ RunsTypeOK
    /\ \A r \in Runs : LifecycleCheck(run[r]) /\ AbsentBare(r) /\ PendingBare(r)
    /\ \A s \in Sessions : pc[s] # "idle" => RequestOf(s)
    /\ CompletedWhole
    /\ FindingsJustified
    /\ OutcomesCounted
    /\ WorkerExact

\* Requests that do not overlap keep the contract of a run: what is finalized
\* counts all its assessments, nothing changes after it, and the counters and
\* the final status are those of the findings.
Contract == INSTANCE VerificationLifecycle WITH
    status <- [r \in Runs |-> run[r].status],
    basis <- assessed,
    result <- [r \in Runs |-> [f \in Fields |-> finding[r][f].result]],
    tally <- [r \in Runs |-> [f \in Fields |-> finding[r][f].tally]],
    counter <- [r \in Runs |-> run[r].counter]
LifecycleSpec == Contract!Spec

\* docs/architecture.md: "outcome counters count finalized field results".
CountersExact == \A r \in Runs : run[r].counter = CountersOf(r)
=============================================================================
