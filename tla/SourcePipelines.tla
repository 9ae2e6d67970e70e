-------------------------- MODULE SourcePipelines --------------------------
(***************************************************************************)
(* The processes that drive the sources: the scheduler, the pipeline of    *)
(* one source, and the verification and publisher workers on their own,    *)
(* any number of them at once.                                             *)
(*                                                                         *)
(* A pipeline holds the advisory lock of its source, on a connection of    *)
(* its own; the single workers take no lock.  A step is a transaction, or  *)
(* a read between two of them.  Completed PipelineRuns are not read by any *)
(* process and are not kept: `stage' holds what their row is written from. *)
(***************************************************************************)
EXTENDS PipelineItems

CONSTANTS
    Procs,          \* operating system processes that run a command
    Commands,       \* the commands a process may be started with
    Down,           \* sources whose discovery always raises
    Operators,      \* the processes that are started by hand
    MaxCommands,    \* a bound on operators' commands
    MaxEvents,      \* a bound on requests for a new verification, database
                    \* errors, lost processes and lost locks
    NoProc

ASSUME ProcsAssumption ==
    /\ Down \subseteq Sources /\ Operators \subseteq Procs
    /\ NoProc \notin Procs /\ MaxCommands \in Nat /\ MaxEvents \in Nat
    /\ Commands \in [Procs -> SUBSET {"due", "all", "pipeline", "dry",
                                      "verification", "publisher"}]
    \* scheduled-pipeline.yml starts no verification worker on its own.
    /\ \A p \in Procs \ Operators : "verification" \notin Commands[p]

VARIABLES
    registered,     \* sources that have an endpoint row
    due,            \* endpoints whose interval has passed since last_attempted_at
    lock,           \* who holds a source's advisory lock
    running,        \* the RUNNING PipelineRuns of each source, by the process
                    \* that will complete them, or NoProc
    unlocked,       \* processes whose lock connection was lost
    at,             \* where each process is
    cmd,            \* the command it was started with
    todo,           \* the sources it has still to run
    src,            \* the source it runs
    work,           \* what is left of the batch it has selected
    stage,          \* the stage executions of the current run
    commands,
    events

procs == <<at, cmd, todo, src, work, stage>>
registry == <<registered, due>>
locks == <<lock, running, unlocked>>
counters == <<commands, events>>
vars == <<items, registry, locks, procs, counters>>

StageNames == {"DISCOVERY", "VERIFICATION", "MASTER_PUBLISHER"}
StageStatuses == {"SUCCESS", "PARTIAL", "FAILED"}
NoStages == [x \in StageNames |-> "none"]
NoSource == 0

Statuses(p) == {stage[p][x] : x \in StageNames}

\* The status of the summary, and of the row it is written to.
RunStatus(p) ==
    IF "FAILED" \in Statuses(p) THEN "FAILED"
    ELSE IF "PARTIAL" \in Statuses(p) THEN "PARTIAL" ELSE "SUCCESS"

IsPipeline(p) == cmd[p] \in {"due", "all", "pipeline", "dry"}
DryRun(p) == cmd[p] = "dry"

\* select_sources: an endpoint that was never attempted, or none, is due.
Due(s) == s \notin registered \/ s \in due

Selected(c) == {s \in Sources : c = "due" => Due(s)}

Init ==
    /\ revisions = {} /\ table = <<>> /\ wanted = {}
    /\ registered = {} /\ due = Sources
    /\ lock = [s \in Sources |-> NoProc]
    /\ running = [s \in Sources |-> {}]
    /\ unlocked = {}
    /\ at = [p \in Procs |-> "idle"]
    /\ cmd = [p \in Procs |-> "none"]
    /\ todo = [p \in Procs |-> {}]
    /\ src = [p \in Procs |-> NoSource]
    /\ work = [p \in Procs |-> {}]
    /\ stage = [p \in Procs |-> NoStages]
    /\ commands = 0 /\ events = 0

----------------------------------------------------------------------------
\* What the schedule does not do, at most MaxEvents times.
Unscheduled == events < MaxEvents /\ events' = events + 1 /\ UNCHANGED commands

(* Starting a command and going through its sources.                       *)

Goto(p, l) == at' = [at EXCEPT ![p] = l]

Start(p, c) ==
    /\ at[p] = "idle" /\ c \in Commands[p]
    /\ cmd' = [cmd EXCEPT ![p] = c]
    /\ IF p \in Operators
       THEN commands < MaxCommands /\ commands' = commands + 1 ELSE UNCHANGED commands
    /\ \/ /\ c \in {"due", "all"}
          /\ todo' = [todo EXCEPT ![p] = Selected(c)]
          /\ Goto(p, "next") /\ UNCHANGED src
       \/ /\ c \in {"pipeline", "dry"}
          /\ \E s \in Sources : todo' = [todo EXCEPT ![p] = {s}]
          /\ Goto(p, "next") /\ UNCHANGED src
       \/ /\ c = "verification"
          /\ \E s \in Sources : src' = [src EXCEPT ![p] = s]
          /\ Goto(p, "select") /\ UNCHANGED todo
       \/ /\ c = "publisher"
          /\ Goto(p, "pending") /\ UNCHANGED <<todo, src>>
    /\ UNCHANGED <<items, registry, locks, work, stage, events>>

\* A process at its end: nothing of it is left but what it committed.
Idle(p) ==
    /\ Goto(p, "idle")
    /\ cmd' = [cmd EXCEPT ![p] = "none"]
    /\ todo' = [todo EXCEPT ![p] = {}]
    /\ src' = [src EXCEPT ![p] = NoSource]
    /\ work' = [work EXCEPT ![p] = {}]
    /\ stage' = [stage EXCEPT ![p] = NoStages]

End(p) ==
    /\ at[p] = "next" /\ todo[p] = {}
    /\ Idle(p)
    /\ UNCHANGED <<items, registry, locks, counters>>

\* Mutant: the lock is shared by the schedulers.
LockShared(p) ==
    /\ at[p] = "next" /\ todo[p] # {}
    /\ LET s == First(todo[p]) IN
        /\ todo' = [todo EXCEPT ![p] = @ \ {s}]
        /\ lock' = [lock EXCEPT ![s] = IF @ = NoProc THEN p ELSE @]
        /\ src' = [src EXCEPT ![p] = s]
    /\ Goto(p, "open")
    /\ UNCHANGED <<items, registry, running, unlocked, cmd, work, stage, counters>>

\* pg_try_advisory_lock: a locked source is skipped.
Lock(p) ==
    /\ at[p] = "next" /\ todo[p] # {}
    /\ LET s == First(todo[p]) IN
        /\ todo' = [todo EXCEPT ![p] = @ \ {s}]
        /\ IF lock[s] = NoProc
           THEN /\ lock' = [lock EXCEPT ![s] = p]
                /\ src' = [src EXCEPT ![p] = s]
                /\ Goto(p, "open")
           ELSE UNCHANGED <<lock, src, at>>
    /\ UNCHANGED <<items, registry, running, unlocked, cmd, work, stage, counters>>

\* The RUNNING row is committed before the pipeline starts.
Open(p) ==
    /\ at[p] = "open"
    /\ running' = [running EXCEPT ![src[p]] = @ \cup {p}]
    /\ Goto(p, "discover")
    /\ UNCHANGED <<items, registry, lock, unlocked, cmd, todo, src, work, stage, counters>>

----------------------------------------------------------------------------
(* The stages.                                                             *)

Record(p, x, status) == stage' = [stage EXCEPT ![p][x] = status]

\* One transaction: the endpoint, the documents and the new revisions.
Discover(p) ==
    /\ at[p] = "discover" /\ src[p] \notin Down
    /\ \E status \in {"SUCCESS", "PARTIAL"} : Record(p, "DISCOVERY", status)
    /\ IF DryRun(p)
       THEN UNCHANGED <<items, registered>>
       ELSE /\ \E new \in NewRevisions(src[p]) : Persist(new)
            /\ registered' = registered \cup {src[p]}
    /\ Goto(p, "select")
    /\ UNCHANGED <<due, locks, cmd, todo, src, work, counters>>

SelectRevisions(p) ==
    /\ at[p] = "select"
    /\ work' = [work EXCEPT ![p] =
          Batch({i \in Items : SourceOf[i] = src[p] /\ NeedsVerification(i)})]
    /\ IF IsPipeline(p) THEN Record(p, "VERIFICATION", "SUCCESS") ELSE UNCHANGED stage
    /\ Goto(p, "verify")
    /\ UNCHANGED <<items, registry, locks, cmd, todo, src, counters>>

Rest(p) == work' = [work EXCEPT ![p] = @ \ {First(@)}]

VerifyItem(p) ==
    /\ at[p] = "verify" /\ work[p] # {}
    /\ IF DryRun(p) THEN UNCHANGED items ELSE Verify(First(work[p]))
    /\ Rest(p)
    /\ UNCHANGED <<registry, locks, at, cmd, todo, src, stage, counters>>

\* Mutant: an item that fails ends the batch.
ItemFailedLast(p, x) ==
    /\ work' = [work EXCEPT ![p] = {}]
    /\ IF IsPipeline(p) THEN Record(p, x, "PARTIAL") ELSE UNCHANGED stage
    /\ UNCHANGED <<items, registry, locks, at, cmd, todo, src>>

\* An item's exception is caught, its transaction rolled back.
ItemFailed(p, x) ==
    /\ Rest(p)
    /\ IF IsPipeline(p) THEN Record(p, x, "PARTIAL") ELSE UNCHANGED stage
    /\ UNCHANGED <<items, registry, locks, at, cmd, todo, src>>

VerifyFails(p) ==
    /\ at[p] = "verify" /\ work[p] # {} /\ Unscheduled
    /\ ItemFailed(p, "VERIFICATION")

\* A worker on its own ends with its batch.
EndBatch(p) ==
    /\ ~IsPipeline(p)
    /\ at[p] \in {"verify", "publish"} /\ work[p] = {}
    /\ Idle(p)
    /\ UNCHANGED <<items, registry, locks, counters>>

\* The pending assessments of every source.
SelectPending(p) ==
    /\ at[p] = "pending" \/ (IsPipeline(p) /\ at[p] = "verify" /\ work[p] = {})
    /\ work' = [work EXCEPT ![p] = Batch(Pending)]
    /\ IF IsPipeline(p) THEN Record(p, "MASTER_PUBLISHER", "SUCCESS") ELSE UNCHANGED stage
    /\ Goto(p, "publish")
    /\ UNCHANGED <<items, registry, locks, cmd, todo, src, counters>>

\* _classify again: what is no longer to be published is skipped.
PublishItem(p) ==
    /\ at[p] = "publish" /\ work[p] # {}
    /\ LET n == First(work[p]) IN
        /\ table[n].item \notin Poison
        /\ IF DryRun(p) \/ ~Approved(table[n]) THEN UNCHANGED items ELSE Publish(n)
    /\ Rest(p)
    /\ UNCHANGED <<registry, locks, at, cmd, todo, src, stage, counters>>

PublishFails(p) ==
    /\ at[p] = "publish" /\ work[p] # {}
    /\ table[First(work[p])].item \in Poison
    /\ ItemFailed(p, "MASTER_PUBLISHER")
    /\ UNCHANGED counters

\* Mutant: the exception is recorded with a status the table does not know.
StopUnknown(p, x) ==
    /\ IF IsPipeline(p)
       THEN /\ Record(p, x, "ERROR")
            /\ work' = [work EXCEPT ![p] = {}]
            /\ UNCHANGED todo
            /\ Goto(p, "close") /\ UNCHANGED <<cmd, src>>
       ELSE Idle(p)
    /\ UNCHANGED <<items, registry, locks>>

\* Mutant: a source that fails ends the scheduler's loop.
StopScheduler(p, x) ==
    /\ IF IsPipeline(p)
       THEN /\ Record(p, x, "FAILED")
            /\ work' = [work EXCEPT ![p] = {}]
            /\ todo' = [todo EXCEPT ![p] = {}]
            /\ Goto(p, "close") /\ UNCHANGED <<cmd, src>>
       ELSE Idle(p)
    /\ UNCHANGED <<items, registry, locks>>

\* A stage that raises ends the run; a worker on its own exits.
Stop(p, x) ==
    /\ IF IsPipeline(p)
       THEN /\ Record(p, x, "FAILED")
            /\ work' = [work EXCEPT ![p] = {}]
            /\ Goto(p, "close") /\ UNCHANGED <<cmd, todo, src>>
       ELSE Idle(p)
    /\ UNCHANGED <<items, registry, locks>>

DiscoverRaises(p) ==
    /\ at[p] = "discover" /\ src[p] \in Down
    /\ Stop(p, "DISCOVERY")
    /\ UNCHANGED counters

StageRaises(p) ==
    /\ Unscheduled
    /\ \/ at[p] = "discover" /\ Stop(p, "DISCOVERY")
       \/ at[p] = "select" /\ Stop(p, "VERIFICATION")
       \/ at[p] \in {"pending", "publish"} /\ Stop(p, "MASTER_PUBLISHER")
       \/ at[p] = "verify" /\ work[p] = {} /\ Stop(p, "MASTER_PUBLISHER")

----------------------------------------------------------------------------
(* The end of a source's run.                                              *)

\* Leaving the with block releases the lock; a CLI pipeline has one source.
Unlock(p) ==
    /\ lock' = [s \in Sources |-> IF lock[s] = p THEN NoProc ELSE lock[s]]
    /\ unlocked' = unlocked \ {p}

\* A RUNNING row nobody will complete.
Abandon(p) ==
    running' = [s \in Sources |->
        IF p \in running[s] THEN (running[s] \ {p}) \cup {NoProc} ELSE running[s]]

Leave(p) ==
    /\ Unlock(p)
    /\ src' = [src EXCEPT ![p] = NoSource]
    /\ work' = [work EXCEPT ![p] = {}]
    /\ stage' = [stage EXCEPT ![p] = NoStages]
    /\ Goto(p, "next") /\ UNCHANGED <<cmd, todo>>

\* The orchestrator has returned its summary.
Returned(p) ==
    at[p] = "close" \/ (IsPipeline(p) /\ at[p] = "publish" /\ work[p] = {})

\* The row is completed from the summary.
Close(p) ==
    /\ Returned(p)
    /\ running' = [running EXCEPT ![src[p]] = @ \ {p}]
    /\ Goto(p, "record")
    /\ UNCHANGED <<items, registry, lock, unlocked, cmd, todo, src, work, stage, counters>>

\* _record_attempt, by the scheduler only.  last_attempted_at is when the
\* scheduler started: its interval may have passed since.
RecordAttempt(p) ==
    /\ at[p] = "record"
    /\ IF cmd[p] \in {"due", "all"} /\ src[p] \in registered
       THEN due' = due \ {src[p]} ELSE UNCHANGED due
    /\ Leave(p)
    /\ UNCHANGED <<items, registered, running, counters>>

\* A commit of the history or of the attempt raises: the scheduler goes on
\* with the next source, and a row that was not completed stays RUNNING.
Raises(p) ==
    /\ at[p] \in {"open", "record"} \/ Returned(p)
    /\ Unscheduled
    /\ Leave(p) /\ Abandon(p)
    /\ UNCHANGED <<items, registry>>

\* The process is lost, and with its connection the lock.
Crash(p) ==
    /\ at[p] # "idle"
    /\ Unscheduled
    /\ Unlock(p) /\ Abandon(p) /\ Idle(p)
    /\ UNCHANGED <<items, registry>>

\* The lock's own connection is lost; the process does not notice.
LoseLock(p) ==
    /\ \E s \in Sources : lock[s] = p
    /\ Unscheduled
    /\ lock' = [s \in Sources |-> IF lock[s] = p THEN NoProc ELSE lock[s]]
    /\ unlocked' = unlocked \cup {p}
    /\ UNCHANGED <<items, registry, running, procs>>

----------------------------------------------------------------------------
\* Time passes.
Elapse(s) ==
    /\ s \in registered /\ s \notin due
    /\ due' = due \cup {s}
    /\ UNCHANGED <<items, registered, locks, procs, counters>>

Reviewers ==
    /\ \E n \in DOMAIN table :
          \/ PublishReviewed(n) /\ UNCHANGED counters
          \/ \E outcome \in Outcomes :
                /\ Decide(n, outcome)
                /\ IF outcome = "REVERIFICATION_REQUESTED"
                   THEN Unscheduled ELSE UNCHANGED counters
    /\ UNCHANGED <<registry, locks, procs>>

Work(p) ==
    \/ End(p) \/ Lock(p) \/ Open(p) \/ Discover(p) \/ DiscoverRaises(p)
    \/ SelectRevisions(p) \/ VerifyItem(p)
    \/ SelectPending(p) \/ PublishItem(p) \/ PublishFails(p) \/ EndBatch(p)
    \/ Close(p) \/ RecordAttempt(p)

Fault(p) == VerifyFails(p) \/ StageRaises(p) \/ Raises(p) \/ Crash(p) \/ LoseLock(p)

Next ==
    \/ \E p \in Procs : Work(p) \/ Fault(p) \/ \E c \in Commands[p] : Start(p, c)
    \/ \E s \in Sources : Elapse(s)
    \/ Reviewers

Spec == Init /\ [][Next]_vars

\* A started process runs on; the due sources are scheduled again and again.
LiveSpec ==
    /\ Spec
    /\ \A p \in Procs : WF_vars(Work(p)) /\ WF_vars(Start(p, "due"))
    /\ \A s \in Sources : WF_vars(Elapse(s))

----------------------------------------------------------------------------
InRun == {"discover", "select", "verify", "pending", "publish", "close"}
WithLock == InRun \cup {"open", "record"}

TypeOK ==
    /\ revisions \subseteq Items /\ wanted \subseteq Items
    /\ table \in Seq([item : Items, route : {"direct", "review"},
                      event : BOOLEAN, case : Cases])
    /\ registered \subseteq Sources /\ due \subseteq Sources
    /\ lock \in [Sources -> Procs \cup {NoProc}]
    /\ running \in [Sources -> SUBSET (Procs \cup {NoProc})]
    /\ unlocked \subseteq Procs
    /\ at \in [Procs -> WithLock \cup {"idle", "next"}]
    /\ cmd \in [Procs -> {"none", "due", "all", "pipeline", "dry",
                          "verification", "publisher"}]
    /\ todo \in [Procs -> SUBSET Sources]
    /\ src \in [Procs -> Sources \cup {NoSource}]
    /\ work \in [Procs -> SUBSET Nat]
    /\ stage \in [Procs -> [StageNames -> StageStatuses \cup {"none"}]]
    /\ commands \in 0..MaxCommands /\ events \in 0..MaxEvents

\* The RUNNING rows of a source are those of the pipelines at work on it and
\* rows nobody will complete; a pipeline at work holds the source's lock
\* unless the lock's connection was lost.
RunsGuarded ==
    \A s \in Sources :
        /\ running[s] \ {NoProc} = {p \in Procs : IsPipeline(p) /\ at[p] \in InRun /\ src[p] = s}
        /\ \A p \in Procs : IsPipeline(p) /\ at[p] \in WithLock /\ src[p] = s
                => lock[s] = p \/ p \in unlocked

\* A run is recorded FAILED exactly when it did not come through its three
\* stages, and no stage follows one that was not done or failed.
RecordsTruthful ==
    \A p \in Procs : Returned(p) =>
        /\ RunStatus(p) = "FAILED" <=> ~(Statuses(p) \subseteq {"SUCCESS", "PARTIAL"})
        /\ stage[p]["VERIFICATION"] # "none" => stage[p]["DISCOVERY"] \in {"SUCCESS", "PARTIAL"}
        /\ stage[p]["MASTER_PUBLISHER"] # "none" => stage[p]["VERIFICATION"] \in {"SUCCESS", "PARTIAL"}

\* pipeline_lock.py, pipeline_history.py: the lock and the records of the runs.
RunsSound == RunsGuarded /\ RecordsTruthful

\* A revision is verified once; each further run of it takes something out of
\* the schedule, which two workers that overlap without a lock, and a
\* reviewer's request, are.
VerifiedOnDemand == \A i \in Items : Cardinality(Runs(i)) <= 1 + commands + events

\* Every source is run again and again, whatever happens to the others.
EverySourceRuns ==
    \A s \in Sources : []<>(\E p \in Procs : src[p] = s /\ at[p] = "discover")

\* As many assessments that cannot be published as a batch holds.
Starved == Cardinality({n \in Pending : table[n].item \in Poison}) >= BatchSize

\* Again and again nothing is left to be done: the revisions of the sources that
\* stay up are verified, and what may be published is published, unless a
\* batch is full of what cannot be.
EverythingServed ==
    []<>(/\ \A i \in Items : NeedsVerification(i) => SourceOf[i] \in Down
         /\ Starved \/ \A n \in Pending : table[n].item \in Poison)
=============================================================================
