# A verification project for job-intel

TLA+ modules of the Assam Job Intelligence pipeline, the TLC runs that check
them on small instances, and theorems about them that TLAPS proves for every
instance. File names such as `services/review.py` are under `src/app/` unless
they begin with another directory of `src/`.

## The system

Official sources are polled, documents stored, recruitments extracted as
candidate revisions, each field verified against evidence, scored, reviewed by
people where the score asks for it, and published to a Master that the public
site reads. Every part is a service over one PostgreSQL database; there is no
queue and no shared memory. What the parts share is rows, and what makes them
hard is that several sessions (the pipeline's workers, the API, the review site)
read and write these rows at READ COMMITTED, mostly without locks.

| Part | State it keeps | Operations | Hard because | Correct when |
|---|---|---|---|---|
| Discovery (`services/discovery.py`, `*_discovery.py`) | runs, observations, document versions | create, record a document, complete a run | versions and counters are read, then written | one run saw a version first; counters stay within what was observed |
| Candidates (`services/candidates.py`) | candidate status, numbered revisions | create, revise, change status | number and hash read before the insert | numbers without gaps, one revision per document and fields |
| Source adapters (`src/sources/`) | nothing durable | crawl a listing, split an advertisement, attach facts | bounds, retries, repeated pages; several passes over one text | no listed row and no contradiction is lost in silence; Posts have the vacancies of the rows that were read |
| Verification (`services/verification.py`, worker) | run status, findings, assessments, counters | create, start, assess, finalize, complete | counters and counts are read-modify-write | a completed run has every finding, each follows from its evidence |
| Confidence, routing (`confidence*.py`, `review_routing.py`) | immutable scores and routes | score a run, route it, ask again | what a score was made from may have grown since | what skips review was confirmed as a whole; a score can be made again |
| Human review (`services/review.py`, `review_web/actions.py`) | case, items, decisions | create, start, cancel, resolve, decide, submit a form, quick approve | no lock on the case; the last decision resolves it | decisions are final, a verdict is the outcome of all of them |
| Enrichment, structure review, maintenance | successor revisions, their cases, republished Masters | submit, approve, republish | replaces a review or a Master while it is used | evidence stays with the value it was for; a correction follows what its operator saw |
| Master Publisher (`services/master.py`) | Master, revisions, Posts, events | publish, publish a Post, preview | reads the review and the Master long before it commits | only approved content; a whole Master; every event names what it published |
| Pipeline, scheduler, workers (`pipeline_*.py`, `source_scheduler.py`, `*_worker.py`) | advisory locks, run history, last attempts | run a source, run due sources, verify and publish batches | a stage fails, a process or a lock is lost, two schedulers overlap | the records say what happened; every source runs again; what can be done is done |
| Monitoring (`services/operational_monitoring.py`) | notifications | evaluate, notify | delivers before it commits; two monitors | an alert is delivered once, and once more per lost monitor |
| Public site (`public_recruitments.py`, `job_lifecycle.py`, `eligibility.py`, `public_security.py`) | request windows | list, classify, answer, limit | two statements per listing; dates and bounds | no job twice, no partial job, no wrong answer, no running window forgotten |

How they interact. The scheduler runs the pipeline of each due source; the
pipeline calls discovery, the verification worker and the publisher worker in
this order, one transaction per item. The verification worker creates the run,
its findings, its scores, its routing and its review case in one transaction. The
review decides items; the publisher reads the review's status, items and
decisions, and the current Master revision. `quick`, enrichment, structure review
and maintenance call candidates, verification, the review and the publisher
within one transaction of their own. `PROJECT.json` lists every part with its
status and every hazard with its line.

## What is modelled

| Module | Models | Steps |
|---|---|---|
| `ReviewVocabulary` | items, Posts, decisions, the outcome precedence of `_resolve_case`, the scope of a Post's form | - |
| `ReviewCases` | `ReviewService` and the review half of `ReviewPublicationActions.quick` | a request is cut at its reads, flushes and commit |
| `ReviewLifecycle` | what the service's guards and the documents say of one request at a time | atomic |
| `ReviewLedger` | what is left of that promise when requests overlap | atomic |
| `Publication` | `MasterPublisherService.publish` and `publish_post` | cut at each read and insert |
| `PublicationCatalogue` | what the publisher keeps however publications overlap | atomic |
| `VerificationPolicy` | `_determine_outcome` and, as a reference, the documented policy | - |
| `VerificationRuns` | `VerificationService` and the worker's transaction | cut between its reads and its commit |
| `VerificationLifecycle` | the contract of a run whose requests do not overlap | atomic |
| `PipelineItems` | which revisions and assessments the workers select, and what they do to them | transactions |
| `SourcePipelines` | scheduler, advisory lock, pipeline history, stages, workers | a transaction, or a read between two |
| `Discovery` | `DiscoveryService`, `CandidateService`, the discovery workers | cut between reads and commit |
| `Monitoring` | `OperationalNotificationService` beside the runs it looks at | cut at its two reads, each notice, the commit |
| `Maintenance` | `PublishedMaintenanceService`, `ReviewEnrichmentService`, `PostStructureReviewService` beside review and publication | cut where nothing locks |
| `ConfidenceScoring` | `ConfidenceService` V1 and V2, `ReviewRoutingService` | a request |
| `Eligibility` | `EligibilityService` | an input of the applicant |
| `PublicListing` | `PublicRecruitmentService`, `job_lifecycle` | cut between the two statements of a listing |
| `PublicGate` | `PublicRateLimiter` | a request, a unit of time |
| `SourceCrawl` | `discover` of the source adapters, `BoundedHttpClient` | a request or a row |
| `PostFacts` | `post_structure.py` and the passes of `official_recruitment_archive.py` | a table or a statement |
| `Services` | what the services of the public and those of the sources promise together | - |
| `ReviewCasesProofs`, `PublicationProofs`, `VerificationProofs`, `PipelineProofs`, `DiscoveryProofs`, `RecordsProofs`, `PolicyProofs`, `ServiceProofs` | the theorems | - |
| `MCReviewCases`, `MCPublication`, `MCVerificationRuns`, `MCSourcePipelines`, `MCSourceRecords`, `MCEligibility` | the small instances for TLC | - |
| `MCSessions`, `MCServices` | instances of several modules side by side | - |

Some modules hold an operator that a comment calls a mutant. It is the action or
helper beside it with one mistake, and it is used by no specification: a mutant of
`PROJECT.json` puts it in the place of the other, to show that the properties notice.

### ReviewCases

`case` is the committed `review_cases` row, `decision` the committed
`review_decisions`. A `ReviewItem` is RESOLVED exactly when its decision row
exists (one flush writes both), so `decision` stands for the item's status too.
A session's request goes through `pc`:

- `BeginStart`, `BeginCancel`, `BeginResolve` are the read and the check of
  `start_case`, `cancel_case`, `resolve_case`; `Commit` writes what they set;
- `BeginDecide`, `BeginScope`, `BeginQuick` choose decisions (`plan`):
  `decide_item`, a form of `submit_review_scope`, the items `quick` approves.
  Each item then goes through `CheckItem` (or `ReplayDecision`), `FlushDecision`
  and `CountPending`, as in `decide_item`;
- `mine` holds the decisions flushed and not committed, `writes` and `verdict` the
  columns set on the case row;
- `Raise` is every DomainConflictError and database error: the session is rolled
  back. `Lose` is the loss of the process at any point, and the exception of a
  later call of the same request (`quick`'s publication).

The services load rows with `populate_existing`, so a check reads what is
committed then; between a check and the commit anything may be committed by
others. An UPDATE writes only the columns the session changed (`Updated`), and
the row it produces must satisfy `ck_review_cases_lifecycle` (`LifecycleCheck`).
An insert of a decision whose key another transaction holds waits for that
transaction and fails if it commits (`WaitsFor`, `Raises`). `quick` alone locks
the row; it can deadlock with a session that holds a decision key and must write
the row, and PostgreSQL then aborts one of them (`BreakDeadlock`).

Abstracted: candidate values, corrections' values, notes and reviewers. The model
calls two decisions equal when their kind is, where the code also compares these.
Creation is one commit, because a case and its items become visible together.
`quick` on a Post with nothing pending only publishes, so it is not a review request.

### Publication

`master`, `revs` and `events` are the rows of one recruitment's Master; a
revision's projection is a function from the Posts it holds, and the fields shared
by all Posts, to what they hold. The projection hash is represented by the projection.
A session: `Begin` selects the Posts (`_publication_post_keys`), `ReadReview` is
`_effective_projection` under the policy of the revision's assessment, then the event
is looked up (`Replay`), the Master found or inserted, a revision with the same
projection looked up, the next number read, the revision inserted, and the event
inserted with the commit. The unique keys (authority and candidate key; Master and
number; Master and hash; assessment and Post) make a second insert wait and then fail;
`Raise` rolls back. The pointer is written only if the session found it different
from what it had read, the verification time only if it is later than the one it had
read: both are compared with `seen`, which may be stale, as in the code.

The review beside it does what `ReviewLedger` allows: verdicts once, a resolution
when all are given, a cancellation, and verdicts after it from sessions that read the
case before. A verdict is kept per Post and for the shared items together. Policies:
`V2` (routing), `V1` (a review of the whole), `DIRECT` (no review needed).

Not modelled: `_validate_verification` (a finished verification is assumed), the
snapshot comparisons of the integrity checks, MasterChange rows, and `commit=False`
publication inside `quick` and maintenance.

### VerificationRuns

`run`, `finding` and `assessed` are the rows of the runs of one candidate revision, by
run, by field, by Evidence; "ABSENT" and "none" stand for a row that does not exist. A
request of the API reads one row (`Begin...`), then the rest of what it needs
(`LoadAssessments`, `CheckRun`, `CountFinalized`), and commits what it computed. Nothing
is locked. An UPDATE sets the columns that differ from the values loaded: hence the
counter is the loaded one plus one (`Incremented`), and a count that is 0 leaves the
column as it is (`Counted`), so that two sessions that finalize the same field leave the
result of one and the counts of either. The CHECK constraints (`RowCheck`) and the two
unique keys refuse the rest; `Abandon` is every refusal and every loss of the process,
which change nothing. `WorkerRun` is `_process_revision`: its run, findings and
assessments become visible together, so it is one step.

Abstracted: the candidate stays READY_FOR_VERIFICATION and the hashes match (they are
validated in each request, and nothing in the service changes them); what clients
assess is the constant `Asked`; asserted values and notes only decide whether a request
is refused. A request that is repeated after it was done changes nothing and is no
step. Which revisions the worker selects is in `PipelineItems`, the
scores its transaction adds in `ConfidenceScoring`.

### PipelineItems and SourcePipelines

`revisions`, `table` and `wanted` are what the workers select from: revisions that
exist, assessments in the order of their creation (`repositories/confidence.py`), and
reverification requests newer than the last run. A process (`at`, `cmd`) runs the
commands of `workers/`: the scheduler over the due or all sources, the pipeline of a
source (also dry: `execute_no_commit`), the verification or the publisher worker alone.
A pipeline takes the source's advisory lock on a connection of its own (`Lock`),
commits a RUNNING row (`Open`), goes through its stages (`Discover`,
`SelectRevisions` and `VerifyItem`, `SelectPending` and `PublishItem`), completes the
row (`Close`) and, under the scheduler, records the attempt (`RecordAttempt`). An
item's exception is caught and the batch goes on; what a stage raises itself, such as
the publisher's re-raised `SQLAlchemyError`, ends the run (`StageRaises`); a commit of
the history that raises ends the source (`Raises`). A process can be lost at any point
(`Crash`), and so can the lock's connection without the process noticing (`LoseLock`).
The publisher selects from all sources, whatever lock it holds.

Abstracted: a completed PipelineRun, which nobody in this model reads, is not kept;
`stage` is what it is written from. The discovery worker alone, which takes no lock and
does what `Discover` does, is no command of its own; the verification and publisher
workers' own dry runs only read. Items of discarded candidates or without fields are
not selected and not modelled, nor are items with Posts of their own. Pauses between
sources are left out. Verification items that always fail behave as `Poison` does in
the publisher's batch and are not modelled apart.

### Discovery

A transaction keeps in `txn` what it has read and written until it commits. An API
request makes one call (`BeginObserve`, `BeginCompletion`, `BeginCandidate`,
`BeginRevision`, `BeginStatus`); a worker does a run (`BeginDiscovery`, `RecordNext`,
`ExtractNext`, `CommitDiscovery`). At its commit a unique key taken meanwhile fails it
(`Conflict`), whether the code then answers with the existing row or raises: its
session has been rolled back. The counters are those of the row the session loaded plus
its own (`CountedUp`), and only changed columns are written (`CommitObserve`).
As in `create_candidate`, only the authority must be active; the endpoint is asked for by
what discovers. A revision is identified by its document and its fields, which its hash
covers (`SameInput`): extraction is deterministic (`FieldsOf`), and in the "resubmission"
part of `MCSourceRecords` the API submits other fields of a document that was extracted
before. Abstracted: the values of fields, retrieval metadata, and raw files.

### Monitoring

A monitor reads the completed runs, then the running ones (`ReadRuns`, `Evaluate`), and
sees to its alerts in their order: skipped when notified before, or inserted and
delivered (`Notify`; a second insert of a key waits), all committed at the end. The
runs it looks at start, end and grow old meanwhile. Alerts of a source are seen to in a
fixed order; dry monitors are left out.

### Maintenance

One advertisement: its revisions, their cases, what was approved of each, the revisions
its Master has had, and what each operator is doing. `Republish` is one step, because
it holds the Master's row and reads with its writes; `BeginEnrich` and
`BeginStructure` are the reads of the case an operator looks at, `Enrich` and
`Structure` the checks and writes. Review and publication are reduced to what these
services meet of them: an open case becomes approved, perhaps with corrected values, or
cancelled; an approved revision is published. `backed` is the set of facts with
Evidence. Bounds: `MaxRevisions`, `MaxDocuments`.

### ConfidenceScoring

The scores of the fields of a finished run and of the run by V1, by V2, and the route
by `ReviewRoutingService`, with all caps and thresholds as exact arithmetic on the
values the code keeps as `Decimal`. Evidence may be linked and assessments added
between the first scoring and the next (`Links`, `Late`): asking again then fails.
Thresholds are fixed during a behaviour; V2's extraction is deterministic and its
values are located in their text; routing rows from before V2 existed are not produced.

### Eligibility, PublicListing, PublicGate

`Eligibility` is a pure function, evaluated as an applicant tells one input after
another. Without a category, an applicant over the maximum age is NOT_ELIGIBLE
(`eligibility.py:105`), where `docs/architecture.md:1001-1003` has a missing input answered
UNKNOWN and a relaxation that may apply REVIEW_REQUIRED. `AnswersSound` says what holds
with that: an input that is told turns no definite answer around, save the category.
`MissingInputsOpen` is what the documents ask, and `Eligibility_category` refutes it.
`PublicListing` reads
Posts and unsplit revisions in two statements while publications commit, then filters,
sorts and pages, with days as numbers. Keys of different rows differ in their id, so
`InOrder`, which gives each row the place that as many rows as precede it leave, is the
order of `sorted`. Readiness scores and text search are left out.
`PublicGate` counts time in units; an age stops growing at the window's length. Windows
belong to keys, not to clients: a client counted in the shared window of a full table may,
once others are pruned, begin a window of its own while the shared one still runs
(`public_security.py:58-70`), and be let through as often as both allow. `WindowsKept` is
therefore about windows: one that runs is neither forgotten nor begun again.

### SourceCrawl and PostFacts

`SourceCrawl` walks the rows of a listing with the bounds of each adapter: rows,
detail pages, documents, notices, retries. What a server answers is chosen freely;
pauses (`_pace`, back-off) are left out, and so is apsc's adapter, which makes three
fixed fetches.

`PostFacts` begins with a table of one of the five kinds that `structure_posts` tries:
piped, narrative, aligned by whitespace, numbered positions, a single explicit Post. What
the regular expressions recognise is chosen freely: a row of the text reads `whole`, is
seen but `damaged`, or is `unseen`. `Kept` says which rows the parser of each kind goes
by and `Splits` when they become Posts; otherwise the advertisement is AMBIGUOUS, without
Posts and reported. The parsers differ in what a damaged row does:

- of a piped, narrative or aligned table it makes the whole ambiguous;
- of numbered positions it is passed over, and the rest is EXPLICIT
  (`post_structure.py:641-669`);
- a piped table ends at the first line behind its rows that is none, and rows behind such a
  gap are not looked at.

The last two lose vacancies in silence, where `src/README.md:13-15` has damaged splits
retained as ambiguity and `docs/architecture.md:635-636` says that a damaged table creates
no Posts. `PostsSound` claims no more than the code keeps: the Posts have exactly the
vacancies of the rows that read whole, at most those of a piped table that is cut short,
and only a table of numbered positions, or one cut short, has Posts beside damaged rows.
A single Post states no total, and no roster refines it or is reconciled with it.

Posts start with the facts of their rows. Rosters of trades then take the place of Posts
of organisations, and five passes state more. The requirement pass drops a value that
contradicts an earlier one without a report (`official_recruitment_archive.py:956`), but it
meets none: it comes first, states qualifications and experience, of which no table has a
column, and is made once per Post (`ReadRequirement`).

## Runs

| Run | Checks | Instance |
|---|---|---|
| `ReviewCases_concurrent` | type, outcome, projections, quick approval, final decisions, final resolution, implements `ReviewLedger`, every request ends | 2 sessions, 2 items, 1 Post |
| `Publication_posts` | type, only approved content, replays of full publications, every publication ends | 2 sessions, 1 revision, 2 Posts |
| `SourcePipelines_live` | type, locks and records, verified on demand, every source runs, everything is served | a scheduler and an operator, 2 sources (one down), 2 revisions (one that cannot be published) |
| `Sessions_concurrent` | `Discovery`, `Monitoring` and `Maintenance`: first sightings, counters, revision numbers, notices, evidence and corrections, records are kept; `VerificationRuns`: type, completed runs, findings, counters, what was recorded, the worker's run | 2 sessions each; a run and a worker's run, 2 fields, 2 Evidence of 2 source classes |
| `Services_side_by_side` | `ConfidenceScoring`, `Eligibility`, `PublicListing`, `SourceCrawl`, `PostFacts`, `PublicGate`; `Publication`: events, a whole Master, implements `PublicationCatalogue`; `ReviewCases` and `VerificationRuns` with one session implement `ReviewLifecycle` and `VerificationLifecycle` | small sets of odd inputs, see `MCServices`; 2 sessions publish two of three revisions, one under each policy |

The last two runs hold several parts side by side: in a behaviour one part moves and
the others rest in one initial state. The parts in them share no state while they work,
so their product would say nothing more, and the union of their state spaces is what
separate runs would explore.

Seven runs refute what a document, a comment or a test says; each is a finding in
`PROJECT.json` with the quoted sentence:

- `ReviewCases_final_decision`: two sessions decide the last two items, each counts the
  other's as pending, and the case stays in review with nothing left to decide;
- `ReviewCases_cancelled`: a session that read the case before it was cancelled
  decides its last item, and the cancelled case becomes resolved;
- `Publication_siblings`: two sessions publish sibling Posts; the one that commits last
  did not see the other's, and the current revision lacks it. (One session is enough
  when another candidate revision became current in between: `_publication_post_keys`
  retains nothing then.);
- `Publication_replay`: a Post's request is refused when it is repeated, because the
  path it would have now is not the one its event has;
- `Publication_unchanged`: a revision is published, another one after it, and the first
  again in full; its projection is the older revision's, so the event is UNCHANGED, and
  `master.py:214-216` makes that older revision current, where the documents say that such
  an event refreshes only `last_verified_at`. `PublicationCatalogue` allows this move, as
  the code makes it;
- `VerificationRuns_counters`: two sessions finalize two fields of a run and write the
  same successor of a counter;
- `Eligibility_category`: an applicant over the maximum age who has told no category is
  refused instead of asked for it.

What the passing runs show beside the theorems. `VerifiedOnDemand`: a revision is
verified again only for a reviewer's request or because two workers overlapped outside
the lock, so each excess run is paid for by an unscheduled event. `EverythingServed`:
again and again nothing is left to verify, of sources that are up, and nothing to
publish but what cannot be published, unless a whole batch consists of the latter
(`Starved`): the selection takes the oldest first, so such rows starve the others.
`NoticesSound`: the price of delivering before committing is one repetition per lost
monitor. `PublicSound`: a Master that changes between having Posts and having none
during a listing is the only one that can be listed twice or not at all.
`ScoringSound`: what is published without a review was verified as a whole, and what
was stored can be made again from its own inputs.

Bounds and why they suffice. In the review, publication and verification modules
nothing counts without end: a decision, an event, an assessment or a finding is written
at most once per item or request, and a CHECK constraint bounds the counters. Two
sessions are the number in which every conflict of the code happens: each is between one
session that read and one that committed. Two Posts are the number in which a sibling exists; the
third policy and the third revision are in `Services_side_by_side`, with one Post, where
they fit. In `PostFacts` tables have up to three rows, which is what a gap needs.
Two fields are the number in which a counter is lost; in `Sessions_concurrent` clients
disagree about an official source; in the serial part three Evidence have the three
source classes, and one field gets every assessment of each, so every branch of the
policy is taken. In `SourcePipelines_live`, `MaxEvents` bounds what the schedule does
not do (reverification, database errors, lost processes and locks) and `MaxCommands`
what an operator starts; the schedule itself never ends. One event is enough for each
single fault in every state; with the operator's command two pipelines and a fault
meet. `MaxHistory`, `MaxLost` and `MaxFailed` bound what a monitor sees: two runs are
what a failure after a success needs. Three revisions are what a correction of an
enriched or corrected advertisement needs. A listing of up to five rows, of which four
are visited, three details are read and one notice is made, exceeds every bound of a
crawl; three details are what a chain of repeated rows needs.

Deadlock is checked for reviews, publications and pipelines, where an idle session can
always begin something. The other runs say `CHECK_DEADLOCK FALSE`: a verification run
that has ended takes no request, and an applicant who has told everything, a crawl that
is done and an advertisement at `MaxRevisions` stop.

Fairness. `ReviewCases`, `Publication`: `Step(s)` of a running request is strongly fair:
the server runs a request to its end, and PostgreSQL grants a lock in the order of its
queue, so a wait that keeps ending is not passed over for ever. `BreakDeadlock` is
weakly fair (`deadlock_timeout`). No request is assumed to be made, and no session to be
lost. `SourcePipelines`: a started process runs on (`Work`, weakly fair: each of its
steps stays enabled until it is taken), the scheduled workflow is started again and
again (`Start(p, "due")`), and the interval of a source passes (`Elapse`). Faults,
reviewers and operators are never assumed. The other modules state no fairness: no
property there is about what must happen.

## Proofs

`ReviewCasesProofs` proves, for any finite set of items, any Posts and any
number of sessions, that `ReviewCases` keeps the type invariant, the outcome, the
agreement of the projections, the quick approval's commit, final decisions and final
resolution, and that each of its steps is a step or a stutter of `ReviewLedger`.
Assumptions: `ItemsAssumption` and `SessionsAssumption`, which state that the model
values are apart and that a REVISION item belongs to no Post.

None of the properties is inductive. `InductiveInvariant` adds what a request relies
on between its read and its commit:

- `CaseChecked`: the committed row satisfies its CHECK constraint;
- `ShapeOf`: what kind of request has set which columns and inserted which keys;
- `LockOf`: while `quick` holds the row, the row is still as `quick` needs it;
- `KeyOf`: a held decision key is held once, is not committed, and the case was started.
  `DecisionsFinal` rests on it: a commit writes what its session has flushed over what is
  there (`Seen`), and only because a second insert of a key waits and then fails is there
  nothing to write over;
- `VerdictOf`: a verdict not yet committed is the outcome of all the decisions the
  session sees. This is the heart: a verdict is computed only when nothing is
  pending for the session, committed decisions never change, and its own keys are
  its own until it commits, so the set of decisions is the same at the commit.

The proof has one lemma per group of actions. A lemma about committing,
under which the row and the decisions change, is kept apart from the ones in which
only the session's own variables do.

`SerialLifecycle` says that interleaving alone is to blame for what the runs
`ReviewCases_final_decision` and `ReviewCases_cancelled` refute: in every behaviour in
which no two requests are open at once (`NoOverlap`; any number of sessions take turns),
the requests implement `ReviewLifecycle`, the documented lifecycle. `SerialInvariant`
adds that a request's row is as it was read (`RowAsRead`) and that a case that is open
has something left to decide (`OpenPending`). A request that reads, flushes and commits
is a stutter until its commit, which is one step of the lifecycle; what it decides
(`Decides`) is then still pending. `SerialFinality` states the two refuted properties
themselves (`FinalDecisionResolves`, `CancelledFinal`) under the same condition.

`PublicationProofs` proves, for any candidate revisions, Posts, policies, contents and
sessions, that `Publication` keeps its type, a whole Master, sound events and only
approved content, that a full publication's event replays, and that each of its steps
is a step or a stutter of `PublicationCatalogue`. Its assumption is
`PublicationAssumption`. `InductiveInvariant` adds to the type and to `MasterWhole`:

- `NoMaster` while there is no Master, and all verdicts given once a review is resolved;
- `Sound` for every event: the path it names was open, and the revision it names is
  the projection of the review for that path. It stays so because a projection only
  reads verdicts, and by then all of them are given and none is ever changed;
- `RequestOf`: what a session has drafted is what the review gives for its request,
  for the same reason, however the review's status changes after it was read;
- `RevisionOf`: a revision inserted and not committed has the next number and a
  projection no committed revision has. At most one session holds such a revision:
  the second insert of the number waits, and fails when the first commits.

Only a commit changes the rows (`RowsChange`), so the step of the proof that matters
is the commit of one session under the invariant of another.

`PolicyProofs` proves `PolicyMeetsReference`: for any Evidence, source
classes and assessments, the result of `_determine_outcome` is the one that the policy,
written as a relation (`Follows`), allows. It rests on what a cardinality says: a tally
is 0 exactly when no Evidence of that class has that stance. `ServiceProofs` uses the
same lemmas. `VerificationProofs` builds on it: it proves, for any
runs, fields, Evidence and sessions, that `VerificationRuns` keeps its type and the five
other properties that `Sessions_concurrent` asks of it, from `PolicyAssumption` and
`VerificationAssumption`. `InductiveInvariant` adds:

- `AbsentBare` and `PendingBare`: a run that does not exist has no findings, and a
  finding that is not final has no counts;
- `RequestOf`: an open request is never about a worker's run, its rows exist, the
  assessments a finalization loaded are still there (`Extends`), and a completion that
  counted all fields as finalized still finds them so.

The last two hold because nothing is taken back: no step makes a finding less final or
replaces an assessment. The proof is therefore run by run: a step leaves a run's rows as
they are (`RunKept`) or writes those of one run (`RunStep`), and in either case the run
only grows (`RunGrows`), which keeps every other session's request (`RequestKept`) and is
`RunsKept`. Finding and counters of one commit are the hard case (`FinalizeSafe`): the
assessments loaded are some of those stored, so the counts cannot exceed theirs
(`CountsGrow`), and the CHECK constraint alone bounds the counters.

`SerialContract` is its counterpart of `SerialLifecycle`: where no two requests overlap,
the runs implement `VerificationLifecycle`, and the counters are at every moment exactly
the findings by outcome (`CountersExact`, which the run `VerificationRuns_counters`
refutes for overlapping requests). `SerialInvariant` says that what was read is what is
stored (`RowsAsRead`) and that the counters are exact; the commit of a finalization adds
one finding to the set of those with its outcome and one to the counter of that outcome
(`FirstFinding`), which are the same number by what a cardinality says of one more member.

`PipelineProofs` proves, for any revisions, sources, processes and commands, that
`SourcePipelines` keeps its type and `RunsSound`: the RUNNING rows of a source are those
of the pipelines at work on it and rows nobody will complete, a pipeline at work holds
its source's lock unless the lock's connection was lost, and a run is recorded FAILED
exactly when a stage failed. Assumptions: `ItemsAssumption`, `ProcsAssumption`.
`PipelineInvariant` adds `Placed`, where a process can be and what it then works on, and
`Staged`, what each stage has recorded when a process has come to a label. The latter is
needed because the row is written from the stages long after they ended; the former
because a lock is released by source, which must still be the one it was taken for.

`VerifiedOnDemand` has an invariant of its own, `DemandInvariant`. The runs of a
revision are bounded by what may still become a run of it: `Total` adds to the runs
that are there the processes that will make one without the schedule's protection
(`Charged`: what an operator started, and pipelines whose lock was lost) and one more if
the schedule itself still owes one (`Owed`: no run yet, a reverification wanted, or a
pipeline about to make it under its lock). This sum never exceeds one plus the commands
and events that have happened (`Budget`). A pipeline under its lock can be owed only
one run, because the lock makes it the only one of its source (`Held`). The proof needs
what `ProcsAssumption` says of the schedule: it never starts the verification worker on
its own (`.github/workflows/scheduled-pipeline.yml` starts pipelines), because a worker
without a lock beside a pipeline is what verifies a revision twice.

`RecordsProofs` proves, for any documents, texts and operators, `MaintenanceSound`,
from `MaintenanceAssumption` (what is read from an unsplit document says nothing of a
Post). `MaintenanceInvariant` adds:

- `DocsNumbered`: documents are numbered without a gap and read once, so the revision
  that discovery made of a document is unique;
- `Backing`: Evidence is compared with that revision directly, and an unsplit revision
  has none for a Post, which is why the Post's fact an operator states has none either;
- `Publishing`: what is published was approved, and a correction is always published;
  so no later publication can put one out of its place;
- `Looking`: an operator who looks at a case that was approved still finds it so.

A revision is made by discovery or derived from another one (`Derived`), and one lemma
says of either what it keeps, whatever its case (`GrownInvariant`); the correction,
which is published in the same step, is apart (`EditPublishing`).

It also proves, for any monitors, channels and bounds, `NoticesSound` and
`NoticesKept`. `MonitoringInvariant` adds what a monitor carries from its first read to
its commit: what it read as completed stays so (`Snapshot`), the alerts it has still to
see to are true of runs that are there (`Keeping`), a key is inserted by one monitor and
not while it is there (`Alone`, the unique key), and a key was written to its channel as
often as rows of it, committed or not, are there, plus at most once for each monitor that
was lost (`Balanced`). `MCSourceRecords` puts the three parts together: there every
behaviour is one of each part (`PartsMove`), and `RecordsKept` follows (`RecordsStay`).

`DiscoveryProofs` proves, for any runs, URLs, contents and sessions, `DiscoverySound` and
that what was recorded stays (`HistoryKept`, a part of `RecordsKept`). The assumption
`DiscoveryAssumption` says that runs of the API and of the workers are apart, that none
is called `"none"`, and that versions are finitely many. `DiscoveryInvariant` adds what
an open transaction carries to its commit:

- `SawSound`: what it classified rests on versions that are committed, and so stay, or
  that it has seen itself; the unique keys take care of what it could not see;
- `RunSound`: the counters an API request loaded are at most what the run had observed
  then, and observations only grow (`SessionsKept`), so a lost update may lower a
  counter but never raises it past the observations; a worker's run is its own
  (`OwnRuns`) and its counters are the cardinalities of what its transaction saw;
- `RevisionsSound`: its revisions continue the numbers it read, which are committed or
  its own. `NextNumberIsNext` shows that `next_revision_number` finds the number: in a
  finite set without gaps no number exceeds the cardinality (`NumbersBounded`).

`DocumentsCommitted` and `CandidatesCommitted` then say what a commit that meets no
unique key makes of the rows.

`ServiceProofs` proves what the parts of `Services_side_by_side` keep, each for any value
of its constants.

- The limiter: its table exceeds its bound by the shared window at most, and no step
  forgets or begins again a window that runs, of a client or shared. `TableOK` is the
  invariant: a full table is pruned of ended windows only, and a client that finds no place
  is counted in the shared window.
- `ScoringSound`, for any fields, Evidence, classes and thresholds from 0 to 100.
  `ScoringInvariant` says from what each row was made: a field's from Evidence that was
  linked and a result that were there, and of which what is found now is an extension
  (`Was`, `Grown`); a run's from rows of all finished fields; a routing from the run's
  V2 row and the results it routes. The proof then compares the arithmetic of the two
  versions by the classes that support and conflict. It showed that an earlier wording of
  the property was wrong: an assessment that comes late can raise a secondary-only
  finding to 57, above a confirmed one at 56, so that clause is now asked of findings
  that follow from what is seen.
- `AnswersSound`, for any rules and applicants, with a missing value and an unstructured
  text as two constants (`NotStated`, `Text`) that are no numbers. Its invariant is the
  type; the lemmas say of each criterion that one more input can only decide it, with the
  exception of the relaxed age.
- `CrawlSound`, for any bounds, pages and attachments. `CrawlInvariant` says where a
  crawl is (`Progress`), what the requests so far were for (`RequestsCounted`), and why a
  row that is repeated is (`Chained`): whoever asks first for a document is not repeated,
  and a repeated row hangs together with one that is not by a page and a document. The
  attempt to prove an earlier wording, in which one link was enough, failed: with three
  detail pages a row may share its page with a row that is itself repeated because of its
  document. TLC shows it once the bounds allow three, which they now do.
- `ListingSound` (`RowsSound` and `PagesSound`) and `DatesSound`, from
  `ListingAssumption`: ids of jobs are UUIDs, of one Post or one Master.
  `ListingInvariant` relates what was read to what is current: of a Master that did not
  move, the first statement has read its Posts, and after the second all of it is
  listed. `FiniteRows` says that finitely many rows are current, however many Masters
  there may be. The keys then order the rows of a listing, since their ids differ; in a
  finite set with a strict order each place is taken by one row (`PlacesTaken`: the
  number of rows before a row is an injection into as many places as there are rows, so
  also a surjection), and the sequence of these rows has each of them once, in order
  (`OrderOf`). Its pages are the parts between one end and the next (`PageNumbers`), and
  joined they are the whole (`PagesJoin`).
- `PostsSound`, for any tables, rosters and statements whose values are known.
  `FactsInvariant` adds that nothing is read before the advertisement is split. The
  vacancies need no strengthening (`VacanciesKeep`), but one lemma for each way in which
  rows become Posts: the rows that are kept have in all what the table has with the others
  at 0 (`KeptSum`), which is what its whole rows state, or less where it is cut short
  (`SplitsSum`, from `SumOfFewer`, that smaller numbers have the smaller sum); and rosters
  in the place of their Posts leave the sum as it is (`RefinedSum`): the sum of two
  sequences is the sum of their sums (`SumOfBoth`), and so for the sequences that
  `FlattenSeq` joins one after the other (`SumOfRefined`).

The last two need what folds compute for sequences of any length. The library's
induction theorems take an operator and cannot be used here, but an induction over a set
of numbers can be stated without one: a set that holds 0 and with each number the next
one holds them all (`SetInduction`, from the well-founded order of the numbers). With it
`FoldExists` and `JoinExists` show that the functions behind `FoldLeft` and `FlattenSeq`
exist, and `SumsAreOne` and `JoinedIsFlat` that any function that satisfies their
equations has their value.

`PublicIsSound` and `SourcesAreSound` put these results together as `Services` does.

Model-checked only.

- Liveness under fairness (`RequestsEnd`, `PublicationsEnd`, `EverySourceRuns`,
  `EverythingServed`), which the prover cannot treat.
- `SerialContracts`, as a formula about two instances with one session: the theorems of
  an instance cannot be cited by name in this prover. Its content is `SerialLifecycle`
  and `SerialContract`, proved for all constants and more sessions that take turns.
- The properties of the seven runs that end in a violation, which do not hold.

## Not modelled

- Rendering and request handling: `review_web`, `operations_web`, `public_web` and the
  API routes, which open the transactions the models begin and keep no state; response
  headers, host checks, entity tags.
- Recognition of text: the regular expressions of `src/sources/`, which compute over
  strings; the models choose freely what they recognise.
- Raw storage of document bytes; creation and edits of the source registry, single rows
  without a rule over several steps; `create_evidence`, a get-or-create by hash.
- `MasterChange` rows, a log nobody reads, and `_validate_verification`; `publish` with
  `commit=False` inside `quick` and maintenance is modelled with its caller's
  transaction only; `bulk`'s savepoints over several cases.
- Readiness scores and text filters of the public site, and `get_advertisement`
  (`services/public_recruitments.py:191-235`): it lists the Posts of an advertisement
  without the readiness check of the list and detail reads, so a partial one is named there
  although `docs/architecture.md:987-988` has it hidden from public reads. `PublicSound` is
  about the listing and the detail view of a job.
- Configuration, migrations, scripts and tests.

Three hazards of `PROJECT.json` have no property, each with its reason: the change log;
the answer to a duplicate request; and rows that are never pending again for the
publisher worker because of their Posts, which the items of `PipelineItems` lack.
