---------------------------- MODULE ReviewCases ----------------------------
(***************************************************************************)
(* ReviewService over PostgreSQL at READ COMMITTED: one ReviewCase, its    *)
(* items and decisions, and any number of database sessions that start,    *)
(* cancel, resolve, decide and approve it at the same time.                *)
(*                                                                         *)
(* A request is one transaction, cut where another one can come between:   *)
(* what it reads first, each flushed decision, each count of the pending   *)
(* items, and the commit.  Reads see committed rows and the session's own. *)
(* A flushed insert holds its unique key, so a second one waits and then   *)
(* fails; an UPDATE of the case row sets only the columns the session      *)
(* changed and must satisfy the row's CHECK constraint.  The quick approve *)
(* action alone locks the case row first (SELECT ... FOR UPDATE).          *)
(***************************************************************************)
EXTENDS ReviewVocabulary

CONSTANTS Sessions, NoSession

ASSUME SessionsAssumption == NoSession \notin Sessions

VARIABLES
    case,       \* the committed review_cases row
    decision,   \* the committed review_decisions, by item
    lock,       \* the session that holds the case row FOR UPDATE
    pc,         \* where each session's request is
    plan,       \* the decisions a request still has to record
    cur,        \* the item it has checked and is about to insert
    mine,       \* the decisions it has inserted and not yet committed
    writes,     \* the column groups of the case row it has set
    verdict     \* the outcome it has set, with writes "resolve"

rows == <<case, decision, lock>>
local == <<pc, plan, cur, mine, writes, verdict>>
vars == <<case, decision, lock, pc, plan, cur, mine, writes, verdict>>

----------------------------------------------------------------------------
(* The case row. *)

NoCase == [status |-> None, started |-> FALSE, resolved |-> FALSE,
           outcome |-> None]

\* Mutant: the case is opened with the status of its items.
OpenedPending == [NoCase EXCEPT !.status = "PENDING"]

Opened == [NoCase EXCEPT !.status = "QUEUED"]

\* Mutant: a cancellation also clears the outcome.
UpdatedClearing(row, w, outcome) ==
    [status   |-> IF "resolve" \in w THEN "RESOLVED"
                  ELSE IF "cancel" \in w THEN "CANCELLED"
                  ELSE IF "start" \in w THEN "IN_REVIEW" ELSE row.status,
     started  |-> row.started \/ "start" \in w,
     resolved |-> row.resolved \/ "cancel" \in w \/ "resolve" \in w,
     outcome  |-> IF "resolve" \in w THEN outcome
                  ELSE IF "cancel" \in w THEN None ELSE row.outcome]

\* The row after an UPDATE that sets the columns of each group in w.
Updated(row, w, outcome) ==
    [status   |-> IF "resolve" \in w THEN "RESOLVED"
                  ELSE IF "cancel" \in w THEN "CANCELLED"
                  ELSE IF "start" \in w THEN "IN_REVIEW" ELSE row.status,
     started  |-> row.started \/ "start" \in w,
     resolved |-> row.resolved \/ "cancel" \in w \/ "resolve" \in w,
     outcome  |-> IF "resolve" \in w THEN outcome ELSE row.outcome]

\* Mutant: the constraint asks a case in review only for its start.
StatusCheck(row) ==
    \/ row.status \in {"QUEUED", "CANCELLED"}
    \/ row.status = "IN_REVIEW" /\ row.started
    \/ row.status = "RESOLVED" /\ row.started /\ row.resolved /\ row.outcome # None

\* The CHECK constraint ck_review_cases_lifecycle.
LifecycleCheck(row) ==
    \/ row.status = "QUEUED" /\ ~row.started /\ ~row.resolved /\ row.outcome = None
    \/ row.status = "IN_REVIEW" /\ row.started /\ ~row.resolved /\ row.outcome = None
    \/ row.status = "RESOLVED" /\ row.started /\ row.resolved /\ row.outcome # None
    \/ row.status = "CANCELLED" /\ row.resolved /\ row.outcome = None

----------------------------------------------------------------------------
(* What a session sees, and what it waits for. *)

\* What it has flushed itself, or else what is committed.
Seen(s, i) == IF mine[s][i] # None THEN mine[s][i] ELSE decision[i]

CaseSeen(s) == Updated(case, writes[s], verdict[s])

Todo(s) == {i \in Items : plan[s][i] # None}

\* Mutant: the pending items are counted before the last decision is flushed.
OnePending(s) == \E j \in Items : \A i \in Items \ {j} : Seen(s, i) # None

NothingPending(s) == \A i \in Items : Seen(s, i) # None

NoPlan == [i \in Items |-> None]

HoldsKey(t, i) == mine[t][i] # None

\* Mutant: the quick approval reads the case row without FOR UPDATE.
WaitsForKey(s, t) == t # s /\ pc[s] = "flush" /\ HoldsKey(t, cur[s])

\* Mutant: no unique key makes the insert of a second decision wait.
WaitsForRow(s, t) == t # s /\ pc[s] = "commit" /\ writes[s] # {} /\ lock = t

\* Session s waits for session t: for the unique key of the decision it
\* inserts, or for the case row it updates.
WaitsFor(s, t) ==
    /\ t # s
    /\ \/ pc[s] = "flush" /\ HoldsKey(t, cur[s])
       \/ pc[s] = "commit" /\ writes[s] # {} /\ lock = t

Waiting(s) == \E t \in Sessions : WaitsFor(s, t)

----------------------------------------------------------------------------
Init ==
    /\ case = NoCase
    /\ decision = NoPlan
    /\ lock = NoSession
    /\ pc = [s \in Sessions |-> "idle"]
    /\ plan = [s \in Sessions |-> NoPlan]
    /\ cur = [s \in Sessions |-> None]
    /\ mine = [s \in Sessions |-> NoPlan]
    /\ writes = [s \in Sessions |-> {}]
    /\ verdict = [s \in Sessions |-> None]

Goto(s, label) == pc' = [pc EXCEPT ![s] = label]

\* Mutant: the connection goes back to the pool without ending the transaction.
Unreleased(s) == lock

Released(s) == IF lock = s THEN NoSession ELSE lock

\* The session's transaction is over: its locks and private rows are gone.
Finish(s) ==
    /\ Goto(s, "idle")
    /\ lock' = Released(s)
    /\ plan' = [plan EXCEPT ![s] = NoPlan]
    /\ mine' = [mine EXCEPT ![s] = NoPlan]
    /\ writes' = [writes EXCEPT ![s] = {}]
    /\ verdict' = [verdict EXCEPT ![s] = None]
    /\ cur' = [cur EXCEPT ![s] = None]

Idle(s) == pc[s] = "idle"

----------------------------------------------------------------------------
(* create_case: get the assessment's case, or insert it with its items. *)

BeginCreate(s) ==
    /\ Idle(s) /\ case.status = None
    /\ Goto(s, "create")
    /\ UNCHANGED <<rows, plan, cur, mine, writes, verdict>>

CommitCreate(s) ==
    /\ pc[s] = "create" /\ case.status = None
    /\ case' = Opened
    /\ Finish(s)
    /\ UNCHANGED decision

----------------------------------------------------------------------------
(* start_case, cancel_case and resolve_case: read the case, then commit. *)

BeginStart(s) ==
    /\ Idle(s) /\ case.status = "QUEUED"
    /\ Goto(s, "commit")
    /\ writes' = [writes EXCEPT ![s] = {"start"}]
    /\ UNCHANGED <<rows, plan, cur, mine, verdict>>

BeginCancel(s) ==
    /\ Idle(s) /\ case.status \in {"QUEUED", "IN_REVIEW"}
    /\ Goto(s, "commit")
    /\ writes' = [writes EXCEPT ![s] = {"cancel"}]
    /\ UNCHANGED <<rows, plan, cur, mine, verdict>>

BeginResolve(s) ==
    /\ Idle(s) /\ case.status = "IN_REVIEW"
    /\ Goto(s, "resolve")
    /\ UNCHANGED <<rows, plan, cur, mine, writes, verdict>>

\* _resolve_case: the outcome of the decisions the session sees.
SetOutcome(s) ==
    /\ writes' = [writes EXCEPT ![s] = @ \cup {"resolve"}]
    /\ verdict' = [verdict EXCEPT ![s] = OutcomeOf({Seen(s, i) : i \in Items})]

Resolve(s) ==
    /\ pc[s] = "resolve" /\ NothingPending(s)
    /\ Goto(s, "commit")
    /\ SetOutcome(s)
    /\ UNCHANGED <<rows, plan, cur, mine>>

----------------------------------------------------------------------------
(* decide_item, and submit_review_scope, which decides a whole form.  The  *)
(* rows of a case are inserted together, so the order in which a form's    *)
(* items come back from the database is not fixed.                         *)

BeginDecide(s, i, d) ==
    /\ Idle(s) /\ case.status # None
    /\ d \in Allowed(i)
    /\ Goto(s, "read")
    /\ plan' = [plan EXCEPT ![s][i] = d]
    /\ UNCHANGED <<rows, cur, mine, writes, verdict>>

\* The form for post key k (the whole case of an unsplit advertisement) has
\* one choice for each pending item in its scope.  Final Approve takes a form
\* without rejections and Final Reject one with a rejection of its own, so
\* the choices decide the button; a Post may not reject a shared item.
PendingIn(k) ==
    {i \in IF Posts = {} THEN Items ELSE ScopeOf(k) : decision[i] = None}

FormIsValid(k, form) ==
    /\ \A i \in PendingIn(k) : form[i] \in Allowed(i)
    /\ Posts # {} =>
         \A i \in ScopeOf(k) : PostOf[i] = Shared =>
             "REJECT" # IF i \in PendingIn(k) THEN form[i] ELSE decision[i]

BeginScope(s, k) ==
    /\ Idle(s) /\ case.status = "IN_REVIEW"
    /\ k \in IF Posts = {} THEN {Shared} ELSE Posts
    /\ PendingIn(k) # {}
    /\ \E form \in [PendingIn(k) -> Decisions \ {"REQUEST_REVERIFICATION"}] :
          /\ FormIsValid(k, form)
          /\ plan' = [plan EXCEPT ![s] =
                [i \in Items |-> IF i \in PendingIn(k) THEN form[i] ELSE None]]
    /\ Goto(s, "read")
    /\ UNCHANGED <<rows, cur, mine, writes, verdict>>

\* quick: lock the row, start a queued case, approve all that is pending.
\* Its publication reads these rows and writes other tables; if it raises,
\* the whole transaction is rolled back (Lose).
BeginQuick(s, k) ==
    /\ Idle(s) /\ lock = NoSession
    /\ case.status \in {"QUEUED", "IN_REVIEW"}
    /\ k \in Posts
    /\ \A i \in ScopeOf(k) : decision[i] # "REJECT"
    /\ PendingIn(k) # {}
    /\ lock' = s
    /\ Goto(s, "read")
    /\ plan' = [plan EXCEPT ![s] =
           [i \in Items |-> IF i \in PendingIn(k) THEN "APPROVE_AS_IS" ELSE None]]
    /\ writes' = [writes EXCEPT ![s] = IF case.status = "QUEUED" THEN {"start"} ELSE {}]
    /\ UNCHANGED <<case, decision, cur, mine, verdict>>

\* The item already carries this very decision: an idempotent replay.
ReplayDecision(s, i) ==
    /\ pc[s] = "read" /\ i \in Todo(s)
    /\ Seen(s, i) = plan[s][i]
    /\ plan' = [plan EXCEPT ![s][i] = None]
    /\ Goto(s, IF Todo(s) = {i} THEN "commit" ELSE "read")
    /\ UNCHANGED <<rows, cur, mine, writes, verdict>>

CheckItem(s, i) ==
    /\ pc[s] = "read" /\ i \in Todo(s)
    /\ Seen(s, i) = None
    /\ CaseSeen(s).status = "IN_REVIEW"
    /\ cur' = [cur EXCEPT ![s] = i]
    /\ Goto(s, "flush")
    /\ UNCHANGED <<rows, plan, mine, writes, verdict>>

FlushDecision(s) ==
    /\ pc[s] = "flush" /\ ~Waiting(s)
    /\ decision[cur[s]] = None
    /\ mine' = [mine EXCEPT ![s][cur[s]] = plan[s][cur[s]]]
    /\ plan' = [plan EXCEPT ![s][cur[s]] = None]
    /\ cur' = [cur EXCEPT ![s] = None]
    /\ Goto(s, "count")
    /\ UNCHANGED <<rows, writes, verdict>>

\* pending_count, and _resolve_case when the session sees nothing pending.
CountPending(s) ==
    /\ pc[s] = "count"
    /\ Goto(s, IF Todo(s) = {} THEN "commit" ELSE "read")
    /\ IF NothingPending(s) THEN SetOutcome(s) ELSE UNCHANGED <<writes, verdict>>
    /\ UNCHANGED <<rows, plan, cur, mine>>

----------------------------------------------------------------------------
(* The end of a transaction. *)

Commit(s) ==
    /\ pc[s] = "commit" /\ ~Waiting(s)
    /\ writes[s] # {} => LifecycleCheck(CaseSeen(s))
    /\ case' = CaseSeen(s)
    /\ decision' = [i \in Items |-> Seen(s, i)]
    /\ Finish(s)

\* A DomainConflictError, or a unique or CHECK violation from the database.
Raises(s) ==
    \/ pc[s] = "create" /\ case.status # None
    \/ pc[s] = "resolve" /\ ~NothingPending(s)
    \/ /\ pc[s] = "read"
       /\ \E i \in Todo(s) :
             /\ Seen(s, i) # plan[s][i]
             /\ Seen(s, i) # None \/ CaseSeen(s).status # "IN_REVIEW"
    \/ pc[s] = "flush" /\ decision[cur[s]] # None
    \/ /\ pc[s] = "commit" /\ writes[s] # {} /\ ~Waiting(s)
       /\ ~LifecycleCheck(CaseSeen(s))

Rollback(s) == Finish(s) /\ UNCHANGED <<case, decision>>

Raise(s) == Raises(s) /\ Rollback(s)

\* PostgreSQL rolls back a session of a set that only wait for each other.
Deadlocked(s) ==
    \E D \in SUBSET Sessions :
        s \in D /\ \A t \in D : \E u \in D : WaitsFor(t, u)

BreakDeadlock(s) == Deadlocked(s) /\ Rollback(s)

\* The process, its connection or a later call of the request is lost.
Lose(s) == ~Idle(s) /\ Rollback(s)

----------------------------------------------------------------------------
Request(s) ==
    \/ BeginCreate(s) \/ BeginStart(s) \/ BeginCancel(s) \/ BeginResolve(s)
    \/ \E i \in Items, d \in Decisions : BeginDecide(s, i, d)
    \/ \E k \in Posts \cup {Shared} : BeginScope(s, k)
    \/ \E k \in Posts : BeginQuick(s, k)

Step(s) ==
    \/ CommitCreate(s) \/ Resolve(s)
    \/ \E i \in Items : ReplayDecision(s, i) \/ CheckItem(s, i)
    \/ FlushDecision(s) \/ CountPending(s) \/ Commit(s) \/ Raise(s)

Next == \E s \in Sessions : Request(s) \/ Step(s) \/ BreakDeadlock(s) \/ Lose(s)

Spec == Init /\ [][Next]_vars

\* A request that is running goes on: the server does not stop in the middle
\* of one, PostgreSQL grants a lock in the order of its queue (so a wait that
\* keeps ending is not passed over for ever) and detects deadlocks.
Fairness ==
    \A s \in Sessions : SF_vars(Step(s)) /\ WF_vars(BreakDeadlock(s))

LiveSpec == Spec /\ Fairness

----------------------------------------------------------------------------
(* What the publisher reads: the Posts a review releases. *)

Refusals == {"REJECT", "REQUEST_REVERIFICATION"}

\* approved_post_projection for one Post, while the review may still run.
PostReleased(k) ==
    /\ case.status \in {"IN_REVIEW", "RESOLVED"}
    /\ \A i \in ScopeOf(k) : decision[i] # None /\ decision[i] \notin Refusals

\* _routing_approved_projection, of a resolved case: every Post except those
\* with a refusal of their own, and none if a shared item was refused.
PostsReleased ==
    LET refused == {PostOf[i] : i \in {j \in Items : decision[j] \in Refusals}}
    IN  IF Shared \in refused THEN {} ELSE Posts \ refused

----------------------------------------------------------------------------
(* Properties. *)

Rows == [status : {None, "QUEUED", "IN_REVIEW", "RESOLVED", "CANCELLED"},
         started : BOOLEAN, resolved : BOOLEAN, outcome : Outcomes \cup {None}]

MaybeDecided == [Items -> Decisions \cup {None}]

\* The type invariant: the ReviewCase and ReviewDecision rows and the state
\* of every request take values their columns and variables can hold.
TypeOK ==
    /\ case \in Rows
    /\ decision \in MaybeDecided
    /\ lock \in Sessions \cup {NoSession}
    /\ pc \in [Sessions ->
              {"idle", "create", "resolve", "read", "flush", "count", "commit"}]
    /\ plan \in [Sessions -> MaybeDecided]
    /\ cur \in [Sessions -> Items \cup {None}]
    /\ mine \in [Sessions -> MaybeDecided]
    /\ writes \in [Sessions -> SUBSET {"start", "cancel", "resolve"}]
    /\ verdict \in [Sessions -> Outcomes \cup {None}]

\* A resolved case has a decision for every item, and its outcome is the one
\* their precedence gives, although decisions, counts and the verdict of
\* several sessions interleave and no request locks the case (_resolve_case).
OutcomeFollowsDecisions ==
    case.status = "RESOLVED" =>
        /\ \A i \in Items : decision[i] # None
        /\ case.outcome = OutcomeOf({decision[i] : i \in Items})

\* The two projections the publisher may use agree once a case is resolved,
\* and an approving outcome holds back no Post (approved_post_projection and
\* _routing_approved_projection decide the same question in different ways).
ProjectionsAgree ==
    case.status = "RESOLVED" =>
        /\ PostsReleased = {k \in Posts : PostReleased(k)}
        /\ case.outcome \in {"APPROVED", "APPROVED_WITH_CORRECTIONS"} =>
              PostsReleased = Posts

\* A quick approval that has recorded its decisions under the row lock never
\* fails the CHECK constraint when it commits: what it read is still true.
QuickCommits ==
    \A s \in Sessions :
        lock = s /\ pc[s] = "commit" => LifecycleCheck(CaseSeen(s))

\* The parts of the inductive invariant the proofs rest on.

\* The committed row satisfies its CHECK constraint, or there is none.
CaseChecked == IF case.status = None THEN case = NoCase ELSE LifecycleCheck(case)

\* A request holds only what its kind of request writes.
ShapeOf(s) ==
    /\ pc[s] \in {"idle", "create", "resolve"} => writes[s] = {} /\ mine[s] = NoPlan
    /\ pc[s] \notin {"idle", "create"} => case.status # None
    /\ "cancel" \in writes[s] =>
          pc[s] = "commit" /\ writes[s] = {"cancel"} /\ mine[s] = NoPlan
    /\ "start" \in writes[s] /\ lock # s =>
          pc[s] = "commit" /\ writes[s] = {"start"} /\ mine[s] = NoPlan
    /\ pc[s] = "flush" => /\ cur[s] \in Items /\ plan[s][cur[s]] # None
                          /\ case.started \/ lock = s
                          /\ "resolve" \notin writes[s]
    /\ \A i \in Items : /\ plan[s][i] \in Allowed(i) \cup {None}
                        /\ mine[s][i] \in Allowed(i) \cup {None}

\* While a quick approval holds the row, the row is as the approval needs it.
LockOf(s) ==
    lock = s =>
        /\ pc[s] \in {"read", "flush", "count", "commit"}
        /\ case.status \in {"QUEUED", "IN_REVIEW"}
        /\ case.status = "QUEUED" => "start" \in writes[s]
        /\ "cancel" \notin writes[s]

\* No two sessions hold the key of one item, a held key is a new one, and
\* the case was started before it was taken.
KeyOf(s, i) ==
    HoldsKey(s, i) =>
        /\ decision[i] = None
        /\ case.started \/ lock = s
        /\ \A t \in Sessions : HoldsKey(t, i) => t = s

\* A verdict not yet committed is the outcome of all the decisions.
VerdictOf(s) ==
    "resolve" \in writes[s] =>
        /\ NothingPending(s)
        /\ verdict[s] = OutcomeOf({Seen(s, i) : i \in Items})

InductiveInvariant ==
    /\ TypeOK
    /\ CaseChecked
    /\ \A s \in Sessions : ShapeOf(s) /\ LockOf(s) /\ VerdictOf(s)
    /\ \A s \in Sessions, i \in Items : KeyOf(s, i)
    /\ OutcomeFollowsDecisions

\* Sessions that decide the same item insert their own decision each, and what
\* a commit inserts stands for the item from then on; the check before the
\* insert does not see the other's.  The unique key, for which the second one
\* waits before it fails, keeps a committed decision from being replaced
\* (uq_review_decisions_review_item).
DecisionsFinal ==
    [][\A i \in Items : decision[i] # None => decision'[i] = decision[i]]_vars

\* A resolved case never changes again: a start, a cancellation or a verdict
\* that read the case before is stopped by the CHECK constraint or repeats it.
ResolvedFinal == [][case.status = "RESOLVED" => case' = case]_vars

\* The review requests, overlapping in any way, keep the ledger's promise.
Ledger == INSTANCE ReviewLedger WITH
    status <- case.status, started <- case.started, outcome <- case.outcome

LedgerSpec == Ledger!Spec

\* With one session, no request overlaps another and the code keeps the
\* lifecycle its guards state.
Lifecycle == INSTANCE ReviewLifecycle WITH
    status <- case.status, outcome <- case.outcome

LifecycleSpec == Lifecycle!Spec

\* Every request ends, committed or rolled back, even when sessions wait for
\* each other's decisions and for the row a quick approval has locked.
RequestsEnd == \A s \in Sessions : ~Idle(s) ~> Idle(s)

(* What the documents say of the lifecycle; overlapping sessions break it. *)

\* "The final item decision automatically resolves the case": a case that is
\* in review has an item left to decide.
FinalDecisionResolves ==
    case.status = "IN_REVIEW" => \E i \in Items : decision[i] = None

\* "Resolved or cancelled history is immutable".
CancelledFinal == [][case.status = "CANCELLED" => case' = case]_vars
=============================================================================
