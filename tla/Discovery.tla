----------------------------- MODULE Discovery -----------------------------
(***************************************************************************)
(* The records of one source: its discovery runs, the versions of its      *)
(* documents, what each run observed of them, and the candidates and their *)
(* revisions that are extracted from the documents.                        *)
(*                                                                         *)
(* A request of the API is one transaction and makes one call.  A worker   *)
(* does a whole run in one transaction: it opens the run, records all the  *)
(* documents, extracts their recruitments and completes the run.  What a   *)
(* transaction has written is kept in its request until it commits.  A     *)
(* unique key that another transaction has taken meanwhile fails it then:  *)
(* whether the code answers with the existing row, asks for a retry or     *)
(* raises, the session has been rolled back and nothing of it remains.     *)
(*                                                                         *)
(* A document version is a URL and a content.  A URL is the notice of one  *)
(* recruitment, the candidate of that name.  A revision of a candidate is  *)
(* identified by its document and its fields: extraction by a worker is    *)
(* deterministic, a client of the API submits what it likes.               *)
(***************************************************************************)
EXTENDS Naturals, FiniteSets

CONSTANTS
    ApiRuns,        \* runs opened, fed and completed by requests of the API
    CrawlRuns,      \* runs of discovery workers
    Urls,
    Contents,
    FieldSets,      \* the fields and Posts a revision may have
    FieldsOf,      \* those a worker reads from each document
    Clients,        \* sessions of the API
    Workers         \* sessions of discovery workers

ASSUME DiscoveryAssumption ==
    /\ ApiRuns \cap CrawlRuns = {} /\ "none" \notin ApiRuns \cup CrawlRuns
    /\ IsFiniteSet(Urls \X Contents) /\ FieldsOf \in [Urls \X Contents -> FieldSets]

VARIABLES
    enabled,        \* authority and endpoint both ACTIVE, discovery_enabled
    runs,           \* the row of each run
    document,       \* of each version the runs that saw it first and last
    observation,    \* what a run observed of a version
    candidate,      \* the status of each candidate
    revisions,      \* candidate, number, document and fields of each revision
    txn             \* the transaction of each session

documents == <<runs, document, observation>>
candidates == <<candidate, revisions>>
discoveryVars == <<enabled, documents, candidates, txn>>

SourceRuns == ApiRuns \cup CrawlRuns
Documents == Urls \X Contents
Writers == Clients \cup Workers

Classes == {"NEW", "CHANGED", "UNCHANGED"}
Ended == {"SUCCEEDED", "PARTIAL", "FAILED"}
CandidateStatuses == {"DRAFT", "READY_FOR_VERIFICATION", "DISCARDED"}

Row(status) == [status |-> status, discovered |-> 0, count |-> [c \in Classes |-> 0]]
NoDocument == [first |-> "none", latest |-> "none"]
Nothing == [d \in Documents |-> "none"]

\* A transaction: its call, the run it is about and the row it has loaded of
\* it, the documents it has still to record and the notices to extract, the
\* versions it has found, what it has observed, the candidates and revisions
\* it has inserted, and the status it will set, of the run or of `subject'.
Transaction(call, r, row) ==
    [call |-> call, run |-> r, row |-> row, todo |-> {}, notices |-> {}, found |-> {},
     saw |-> Nothing, candidates |-> {}, revisions |-> {}, subject |-> {}, target |-> "none"]

NoTxn == Transaction("none", "none", Row("none"))

DiscoveryInit ==
    /\ enabled = TRUE
    /\ runs = [r \in SourceRuns |-> Row("none")]
    /\ document = [d \in Documents |-> NoDocument]
    /\ observation = [r \in SourceRuns |-> Nothing]
    /\ candidate = [u \in Urls |-> "none"]
    /\ revisions = {}
    /\ txn = [s \in Writers |-> NoTxn]

BeginCall(s, t) ==
    /\ txn[s] = NoTxn
    /\ txn' = [txn EXCEPT ![s] = t]
    /\ UNCHANGED <<enabled, documents, candidates>>

----------------------------------------------------------------------------
(* record_document.                                                        *)

\* A transaction sees what is committed and what it has written itself.
Known(t, d) == document[d] # NoDocument \/ t.saw[d] # "none"

Classify(t, d) ==
    IF Known(t, d) THEN "UNCHANGED"
    ELSE IF \E c \in Contents : Known(t, <<d[1], c>>) THEN "CHANGED" ELSE "NEW"

\* _increment_counters adds to the row as the session has loaded it.
CountedUp(row, class) == [row EXCEPT !.discovered = @ + 1, !.count[class] = @ + 1]

Observe(t, d) ==
    [t EXCEPT !.todo = @ \ {d},
              !.found = IF document[d] # NoDocument THEN @ \cup {d} ELSE @,
              !.saw[d] = Classify(t, d),
              !.row = CountedUp(@, Classify(t, d))]

\* What this run has observed already is returned as it is.
BeginObserve(s, r, d) ==
    /\ runs[r].status = "RUNNING"
    /\ observation[r][d] = "none"
    /\ BeginCall(s, Observe(Transaction("observe", r, runs[r]), d))

----------------------------------------------------------------------------
(* create_run, complete_run and the registry.                              *)

\* Only an endpoint that is enabled may start a run.
CreateDiscovery(r) ==
    /\ enabled /\ runs[r].status = "none"
    /\ runs' = [runs EXCEPT ![r] = Row("RUNNING")]
    /\ UNCHANGED <<enabled, document, observation, candidates, txn>>

BeginCompletion(s, r, status) ==
    /\ runs[r].status = "RUNNING"
    /\ BeginCall(s, [Transaction("complete", r, runs[r]) EXCEPT !.target = status])

\* update_endpoint and update_authority.
UpdateRegistry ==
    /\ enabled' = ~enabled
    /\ UNCHANGED <<documents, candidates, txn>>

----------------------------------------------------------------------------
(* Candidates and their revisions.                                         *)

\* What the hash of a revision covers.
SameInput(v, w) == v.document = w.document /\ v.fields = w.fields

RevisionsOf(t, u) == {v \in revisions \cup t.revisions : v.candidate = u}

\* Mutant: the largest number, or zero.
LargestNumber(t, u) ==
    CHOOSE n \in 0..Cardinality(RevisionsOf(t, u)) :
        /\ \A v \in RevisionsOf(t, u) : v.number <= n
        /\ n = 0 \/ \E v \in RevisionsOf(t, u) : v.number = n

\* next_revision_number: one more than the largest.
NextNumber(t, u) ==
    CHOOSE n \in 1..(Cardinality(RevisionsOf(t, u)) + 1) :
        /\ \A v \in RevisionsOf(t, u) : v.number < n
        /\ n = 1 \/ \E v \in RevisionsOf(t, u) : v.number + 1 = n

\* create_candidate, where there is none, and create_revision: identical
\* input returns the existing revision.
Extract(t, u, d, fields) ==
    [t EXCEPT !.notices = @ \ {d},
              !.candidates = IF candidate[u] = "none" THEN @ \cup {u} ELSE @,
              !.revisions =
                  IF \E v \in RevisionsOf(t, u) : v.document = d /\ v.fields = fields THEN @
                  ELSE @ \cup {[candidate |-> u, number |-> NextNumber(t, u),
                                document |-> d, fields |-> fields]}]

\* The API makes candidates and their revisions in calls of their own.  Only the
\* authority must be ACTIVE for a candidate, which it may be where the endpoint
\* is disabled.
BeginCandidate(s, u) ==
    /\ candidate[u] = "none"
    /\ BeginCall(s, [Transaction("candidate", "none", Row("none")) EXCEPT !.candidates = {u}])

BeginRevision(s, u, d, fields) ==
    /\ candidate[u] \notin {"none", "DISCARDED"}
    /\ document[d] # NoDocument
    /\ \A v \in revisions : ~(v.candidate = u /\ v.document = d /\ v.fields = fields)
    /\ BeginCall(s, Extract(Transaction("revision", "none", Row("none")), u, d, fields))

\* update_candidate_status: a candidate is ready when it has a revision.
MayBecome(u, status) ==
    /\ candidate[u] = "DRAFT"
    /\ status = "DISCARDED" \/ \E v \in revisions : v.candidate = u

BeginStatus(s, u, status) ==
    /\ status # "DRAFT" /\ MayBecome(u, status)
    /\ BeginCall(s, [Transaction("status", "none", Row("none"))
                        EXCEPT !.subject = {u}, !.target = status])

----------------------------------------------------------------------------
(* The discovery workers.                                                  *)

\* _ensure_registry raises where the endpoint was disabled.  A listing holds
\* one version of each of its documents; some of them are notices with fields.
BeginDiscovery(s, r, listing, notices) ==
    /\ enabled /\ runs[r].status = "none"
    /\ \A x \in Writers : txn[x].run # r
    /\ \A d, e \in listing : d[1] = e[1] => d = e
    /\ BeginCall(s, [Transaction("discover", r, Row("RUNNING"))
                        EXCEPT !.todo = listing, !.notices = notices])

RecordNext(s) ==
    /\ txn[s].call = "discover"
    /\ \E d \in txn[s].todo : txn' = [txn EXCEPT ![s] = Observe(@, d)]
    /\ UNCHANGED <<enabled, documents, candidates>>

\* A notice of a discarded candidate raises, and with it the whole run.
ExtractNext(s) ==
    /\ txn[s].call = "discover" /\ txn[s].todo = {}
    /\ \E d \in txn[s].notices :
          /\ candidate[d[1]] # "DISCARDED"
          /\ txn' = [txn EXCEPT ![s] = Extract(@, d[1], d, FieldsOf[d])]
    /\ UNCHANGED <<enabled, documents, candidates>>

----------------------------------------------------------------------------
(* The end of a transaction.                                               *)

\* The unique keys: one row per version, per run and version, per candidate
\* key, per candidate and number, per candidate and hash.
VersionTaken(t) == \E d \in Documents :
    t.saw[d] # "none" /\ d \notin t.found /\ document[d] # NoDocument
ObservationTaken(t) == \E d \in Documents :
    t.run \in SourceRuns /\ t.saw[d] # "none" /\ observation[t.run][d] # "none"
CandidateTaken(t) == \E u \in t.candidates : candidate[u] # "none"
NumberTaken(t) == \E v \in t.revisions, w \in revisions :
    v.candidate = w.candidate /\ v.number = w.number
HashTaken(t) == \E v \in t.revisions, w \in revisions :
    v.candidate = w.candidate /\ SameInput(v, w)

\* Mutants: the tables lack one of the unique keys.
ConflictWithoutVersion(t) ==
    ObservationTaken(t) \/ CandidateTaken(t) \/ NumberTaken(t) \/ HashTaken(t)
Conflict(t) ==
    VersionTaken(t) \/ ObservationTaken(t) \/ CandidateTaken(t) \/ NumberTaken(t) \/ HashTaken(t)

CommitCall(s) ==
    /\ ~Conflict(txn[s])
    /\ txn' = [txn EXCEPT ![s] = NoTxn]
    /\ UNCHANGED enabled

\* A new version is seen first by the run that inserts it.
SaveDocuments(t) ==
    /\ document' = [d \in Documents |->
          IF t.saw[d] = "none" THEN document[d]
          ELSE [first |-> IF d \in t.found THEN document[d].first ELSE t.run,
                latest |-> t.run]]
    /\ observation' = [observation EXCEPT ![t.run] =
          [d \in Documents |-> IF t.saw[d] = "none" THEN @[d] ELSE t.saw[d]]]

\* Candidates are inserted as drafts.
SaveCandidates(t) ==
    /\ candidate' = [u \in Urls |->
          IF u \in t.candidates THEN "DRAFT"
          ELSE IF u \in t.subject THEN t.target ELSE candidate[u]]
    /\ revisions' = revisions \cup t.revisions

\* Mutant: the whole row is written as it was loaded.
CommitWholeRow(s) ==
    LET t == txn[s] IN
    /\ t.call = "observe" /\ CommitCall(s)
    /\ SaveDocuments(t)
    /\ runs' = [runs EXCEPT ![t.run] = t.row]
    /\ UNCHANGED candidates

\* The columns the session has changed: the counters of what it observed.
CommitObserve(s) ==
    LET t == txn[s] IN
    /\ t.call = "observe" /\ CommitCall(s)
    /\ SaveDocuments(t)
    /\ runs' = [runs EXCEPT ![t.run].discovered = t.row.discovered,
                             ![t.run].count = [c \in Classes |->
                                 IF \E d \in Documents : t.saw[d] = c
                                 THEN t.row.count[c] ELSE @[c]]]
    /\ UNCHANGED candidates

\* A run that was completed meanwhile is completed again.
CommitCompletion(s) ==
    LET t == txn[s] IN
    /\ t.call = "complete" /\ CommitCall(s)
    /\ runs' = [runs EXCEPT ![t.run].status = t.target]
    /\ UNCHANGED <<document, observation, candidates>>

CommitCandidate(s) ==
    /\ txn[s].call \in {"candidate", "revision", "status"} /\ CommitCall(s)
    /\ SaveCandidates(txn[s])
    /\ UNCHANGED documents

\* The worker completes its run and commits everything at once.
CommitDiscovery(s, status) ==
    LET t == txn[s] IN
    /\ t.call = "discover" /\ t.todo = {} /\ t.notices = {} /\ CommitCall(s)
    /\ runs' = [runs EXCEPT ![t.run] = [t.row EXCEPT !.status = status]]
    /\ SaveDocuments(t)
    /\ SaveCandidates(t)

\* A conflict, an exception, a dry run or a lost process.
Rollback(s) ==
    /\ txn[s] # NoTxn
    /\ txn' = [txn EXCEPT ![s] = NoTxn]
    /\ UNCHANGED <<enabled, documents, candidates>>

DiscoveryNext ==
    \/ UpdateRegistry
    \/ \E r \in ApiRuns : CreateDiscovery(r)
    \/ \E s \in Clients :
          \/ \E r \in ApiRuns, d \in Documents : BeginObserve(s, r, d)
          \/ \E r \in ApiRuns, status \in Ended : BeginCompletion(s, r, status)
          \/ \E u \in Urls : BeginCandidate(s, u)
          \/ \E u \in Urls, d \in Documents, fields \in FieldSets :
                BeginRevision(s, u, d, fields)
          \/ \E u \in Urls, status \in CandidateStatuses : BeginStatus(s, u, status)
    \/ \E s \in Workers :
          \/ \E r \in CrawlRuns, listing \in SUBSET Documents :
                \E notices \in SUBSET listing : BeginDiscovery(s, r, listing, notices)
          \/ RecordNext(s) \/ ExtractNext(s)
          \/ \E status \in {"SUCCEEDED", "PARTIAL"} : CommitDiscovery(s, status)
    \/ \E s \in Writers :
          CommitObserve(s) \/ CommitCompletion(s) \/ CommitCandidate(s) \/ Rollback(s)

DiscoverySpec == DiscoveryInit /\ [][DiscoveryNext]_discoveryVars

----------------------------------------------------------------------------
Revision ==
    [candidate : Urls, number : Nat \ {0}, document : Documents, fields : FieldSets]
RunRecord(statuses) ==
    [status : statuses, discovered : Nat, count : [Classes -> Nat]]

DiscoveryTypeOK ==
    /\ enabled \in BOOLEAN
    /\ runs \in [SourceRuns -> RunRecord(Ended \cup {"none", "RUNNING"})]
    /\ document \in [Documents -> [first : SourceRuns \cup {"none"},
                                 latest : SourceRuns \cup {"none"}]]
    /\ observation \in [SourceRuns -> [Documents -> Classes \cup {"none"}]]
    /\ candidate \in [Urls -> CandidateStatuses \cup {"none"}]
    /\ revisions \subseteq Revision
    /\ txn \in [Writers ->
          [call : {"none", "observe", "complete", "candidate", "revision", "status", "discover"},
           run : SourceRuns \cup {"none"}, row : RunRecord(Ended \cup {"none", "RUNNING"}),
           todo : SUBSET Documents, notices : SUBSET Documents, found : SUBSET Documents,
           saw : [Documents -> Classes \cup {"none"}],
           candidates : SUBSET Urls, revisions : SUBSET Revision, subject : SUBSET Urls,
           target : Ended \cup CandidateStatuses \cup {"none"}]]

SeenAs(r, class) == {d \in Documents : observation[r][d] = class}
Observed(r) == {d \in Documents : observation[r][d] # "none"}

\* Exactly one run saw a version as new or changed: the one its document
\* names as the first.  What is called changed has another version, and the
\* run named as the latest has observed it.
FirstSightings ==
    \A d \in Documents :
        /\ \A r \in SourceRuns : observation[r][d] \in {"NEW", "CHANGED"} <=> document[d].first = r
        /\ \A r \in SourceRuns : observation[r][d] # "none" => document[d] # NoDocument
        /\ \A r \in SourceRuns : observation[r][d] = "CHANGED" =>
              \E c \in Contents \ {d[2]} : document[<<d[1], c>>] # NoDocument
        /\ document[d] # NoDocument =>
              document[d].latest \in SourceRuns /\ observation[document[d].latest][d] # "none"

\* A counter of a run never exceeds what the run observed and is positive
\* when it observed anything; those of a worker's run are exact, and the run
\* is only seen when it is over.  Updates of the API may be lost.
CountsWithin ==
    /\ \A r \in SourceRuns :
          /\ runs[r].discovered <= Cardinality(Observed(r))
          /\ runs[r].discovered = 0 <=> Observed(r) = {}
          /\ \A c \in Classes :
                /\ runs[r].count[c] <= Cardinality(SeenAs(r, c))
                /\ runs[r].count[c] = 0 <=> SeenAs(r, c) = {}
    /\ \A r \in CrawlRuns :
          /\ runs[r].status \in {"none", "SUCCEEDED", "PARTIAL"}
          /\ runs[r].discovered = Cardinality(Observed(r))
          /\ \A c \in Classes : runs[r].count[c] = Cardinality(SeenAs(r, c))

\* The revisions of a candidate are numbered from one without a gap, no two with
\* the same document and fields, of a version and a candidate that exist; a
\* candidate that is ready has one.
RevisionsNumbered ==
    /\ \A v, w \in revisions :
          v.candidate = w.candidate /\ (v.number = w.number \/ SameInput(v, w)) => v = w
    /\ \A v \in revisions : v.number > 1 =>
          \E w \in revisions : w.candidate = v.candidate /\ w.number = v.number - 1
    /\ \A v \in revisions : document[v.document] # NoDocument /\ candidate[v.candidate] # "none"
    /\ \A u \in Urls : candidate[u] = "READY_FOR_VERIFICATION" =>
          \E v \in revisions : v.candidate = u

\* What the transactions of overlapping sessions leave of a source's history.
DiscoverySound == FirstSightings /\ CountsWithin /\ RevisionsNumbered

\* What was recorded stays: revisions and observations are immutable, the run
\* that saw a version first never changes, and no run is opened twice.
HistoryKept ==
    [][/\ revisions \subseteq revisions'
       /\ \A d \in Documents : document[d] # NoDocument => document'[d].first = document[d].first
       /\ \A r \in SourceRuns, d \in Documents :
             observation[r][d] # "none" => observation'[r][d] = observation[r][d]
       /\ \A r \in SourceRuns : runs[r].status \in Ended => runs'[r].status \in Ended
      ]_discoveryVars
=============================================================================
