---------------------------- MODULE Publication ----------------------------
(***************************************************************************)
(* MasterPublisherService over PostgreSQL at READ COMMITTED: the Master of *)
(* one recruitment, and any number of sessions that publish Posts or whole *)
(* candidate revisions to it while reviewers still decide.                 *)
(*                                                                         *)
(* publish takes no lock.  It is cut at each of its reads and at each      *)
(* insert of a unique key: a second insert of a key waits for the first    *)
(* transaction, and fails with an IntegrityError if that one commits.      *)
(*                                                                         *)
(* A projection hash is represented by the projection it is computed from. *)
(* The review of a candidate revision is the part of ReviewLedger that the *)
(* publisher reads: a status and, for each Post and for the items shared   *)
(* by all of them, what the decisions on its items amount to.              *)
(***************************************************************************)
EXTENDS Naturals, Sequences, FiniteSets

CONSTANTS
    Revisions,      \* CandidateRevisions, each with its Confidence assessment
    Posts,          \* the explicit Posts of the advertisement
    Shared,         \* the fields that belong to no Post
    Full,           \* the post key NULL of a revision-wide publication
    Policy,         \* "DIRECT" (no review), or the confidence policy
    VerifiedAt,     \* the completion time of a revision's VerificationRun
    Values, Content,    \* what a key holds, as verified and as corrected
    Sessions

Keys == Posts \cup {Shared}

ASSUME PublicationAssumption ==
    /\ Shared \notin Posts /\ Full \notin Posts
    /\ Policy \in [Revisions -> {"DIRECT", "V1", "V2"}]
    /\ VerifiedAt \in [Revisions -> Nat]
    /\ Content \in [Revisions \X Keys \X BOOLEAN -> Values]

VARIABLES
    review,     \* status and decisions of each revision's ReviewCase
    master,     \* the RecruitmentMaster row, or NoMaster
    revs,       \* its RecruitmentMasterRevisions, by revision number
    events,     \* the MasterPublicationEvents
    pc,         \* where each session's publication is
    req,        \* the revision and post key it publishes
    keys,       \* the Posts it has selected
    draft,      \* the effective projection and its publication path
    seen,       \* the Master row it has read
    match,      \* the revision with this projection hash, 0 if none
    num         \* the next revision number it has read

rows == <<master, revs, events>>
vars == <<review, master, revs, events, pc, req, keys, draft, seen, match, num>>

NoMaster == [exists |-> FALSE, current |-> 0, verified |-> 0]
NoReq == [rev |-> "none", key |-> "none"]
NoDraft == [proj |-> <<>>, path |-> "none"]

Paths == {"VERIFIED_NO_REVIEW", "HUMAN_APPROVED", "HUMAN_CORRECTED"}
Verdicts == {"pending", "approve", "correct", "refuse"}
Statuses == {"IN_REVIEW", "RESOLVED", "CANCELLED"}

----------------------------------------------------------------------------
(* What the review c of revision r releases, and the projection it yields. *)

Decided(c) == \A k \in Keys : c.verdict[k] # "pending"
Refused(c) == {k \in Keys : c.verdict[k] = "refuse"}

\* Mutant: a pending item does not hold its Post back.
ApprovedUnlessRefused(c, K) == \A k \in K \cup {Shared} : c.verdict[k] # "refuse"

\* approved_post_projection: every item of the selected Posts is approved.
Approved(c, K) == \A k \in K \cup {Shared} : c.verdict[k] \in {"approve", "correct"}

\* _routing_approved_projection: the Posts without a refusal of their own.
Unblocked(c) == IF Shared \in Refused(c) THEN {} ELSE Posts \ Refused(c)

Corrected(r, c, k) == Policy[r] # "DIRECT" /\ c.verdict[k] = "correct"

\* The Posts a full publication contains.
FullPosts(r, c) == IF Policy[r] = "V2" THEN Unblocked(c) ELSE Posts

\* Mutant: a revision is published before its review is resolved.
PublishableEarly(r, c, k, K) ==
    CASE Policy[r] = "DIRECT" -> TRUE
      [] Policy[r] = "V1" -> k = Full /\ c.status = "RESOLVED" /\ Refused(c) = {}
      [] Policy[r] = "V2" /\ k = Full ->
            Shared \notin Refused(c) /\ (Posts # {} => Unblocked(c) # {})
      [] Policy[r] = "V2" /\ k # Full ->
            c.status \in {"IN_REVIEW", "RESOLVED"} /\ Approved(c, K)

\* _effective_projection raises unless this holds.
Publishable(r, c, k, K) ==
    CASE Policy[r] = "DIRECT" -> TRUE
      [] Policy[r] = "V1" -> k = Full /\ c.status = "RESOLVED" /\ Refused(c) = {}
      [] Policy[r] = "V2" /\ k = Full ->
            /\ c.status = "RESOLVED" /\ Shared \notin Refused(c)
            /\ Posts # {} => Unblocked(c) # {}
      [] Policy[r] = "V2" /\ k # Full ->
            c.status \in {"IN_REVIEW", "RESOLVED"} /\ Approved(c, K)

\* Mutant: a full publication holds only the Posts that were asked for.
SelectedAsked(r, c, k, K) == IF Policy[r] = "DIRECT" THEN FullPosts(r, c) ELSE K

\* A review that is not needed selects every field, whatever Posts were asked.
SelectedPosts(r, c, k, K) ==
    IF k = Full \/ Policy[r] = "DIRECT" THEN FullPosts(r, c) ELSE K

Projection(r, c, K) ==
    [k \in K \cup {Shared} |-> Content[<<r, k, Corrected(r, c, k)>>]]

PathOf(r, c, K) ==
    IF Policy[r] = "DIRECT" THEN "VERIFIED_NO_REVIEW"
    ELSE IF \E k \in K \cup {Shared} : Corrected(r, c, k) THEN "HUMAN_CORRECTED"
    ELSE "HUMAN_APPROVED"

PostsIn(proj) == DOMAIN proj \ {Shared}

EventsFor(r, k) == {e \in events : e.rev = r /\ e.key = k}

----------------------------------------------------------------------------
Init ==
    /\ review \in [Revisions ->
          [status : {"IN_REVIEW"}, verdict : [Keys -> {"pending", "approve"}]]]
    /\ \A r \in Revisions : ~Decided(review[r])
    /\ \A r \in Revisions, k \in Keys :
          Policy[r] = "DIRECT" => review[r].verdict[k] = "pending"
    /\ master = NoMaster /\ revs = <<>> /\ events = {}
    /\ pc = [s \in Sessions |-> "idle"]
    /\ req = [s \in Sessions |-> NoReq]
    /\ keys = [s \in Sessions |-> {}]
    /\ draft = [s \in Sessions |-> NoDraft]
    /\ seen = [s \in Sessions |-> NoMaster]
    /\ match = [s \in Sessions |-> 0]
    /\ num = [s \in Sessions |-> 0]

----------------------------------------------------------------------------
(* The reviewers, as ReviewLedger lets them. *)

\* A session that read the case before it was cancelled may still decide.
Record(r, k, v) ==
    /\ review[r].status \in {"IN_REVIEW", "CANCELLED"}
    /\ review[r].verdict[k] = "pending"
    /\ v \in Verdicts \ {"pending"}
    /\ review' = [review EXCEPT ![r].verdict[k] = v]

Resolve(r) ==
    /\ review[r].status \in {"IN_REVIEW", "CANCELLED"} /\ Decided(review[r])
    /\ review' = [review EXCEPT ![r].status = "RESOLVED"]

Cancel(r) ==
    /\ review[r].status = "IN_REVIEW"
    /\ review' = [review EXCEPT ![r].status = "CANCELLED"]

Review ==
    /\ \E r \in {q \in Revisions : Policy[q] # "DIRECT"} :
          Resolve(r) \/ Cancel(r) \/ \E k \in Keys, v \in Verdicts : Record(r, k, v)
    /\ UNCHANGED <<rows, pc, req, keys, draft, seen, match, num>>

----------------------------------------------------------------------------
(* publish, one session. *)

Goto(s, label) == pc' = [pc EXCEPT ![s] = label]

Finish(s) ==
    /\ Goto(s, "idle")
    /\ req' = [req EXCEPT ![s] = NoReq]
    /\ keys' = [keys EXCEPT ![s] = {}]
    /\ draft' = [draft EXCEPT ![s] = NoDraft]
    /\ seen' = [seen EXCEPT ![s] = NoMaster]
    /\ match' = [match EXCEPT ![s] = 0]
    /\ num' = [num EXCEPT ![s] = 0]

\* The request, and for a Post the selection of _publication_post_keys: the
\* Posts already published from this revision are published with it.
RetainedPosts(r) ==
    IF master.current # 0 /\ revs[master.current].source = r
    THEN PostsIn(revs[master.current].proj) ELSE {}

\* Mutant: the missing post key of a full publication is taken for a Post.
SelectAny(r, k) == {k} \cup RetainedPosts(r)

Select(r, k) == IF k = Full THEN {} ELSE {k} \cup RetainedPosts(r)

Begin(s, r, k) ==
    /\ pc[s] = "idle"
    /\ req' = [req EXCEPT ![s] = [rev |-> r, key |-> k]]
    /\ keys' = [keys EXCEPT ![s] = Select(r, k)]
    /\ Goto(s, "review")
    /\ UNCHANGED <<review, rows, draft, seen, match, num>>

ReadReview(s) ==
    LET r == req[s].rev
        c == review[r]
        K == SelectedPosts(r, c, req[s].key, keys[s])
    IN  /\ pc[s] = "review" /\ Publishable(r, c, req[s].key, keys[s])
        /\ draft' = [draft EXCEPT ![s] =
                        [proj |-> Projection(r, c, K), path |-> PathOf(r, c, K)]]
        /\ Goto(s, "lookup")
        /\ UNCHANGED <<review, rows, req, keys, seen, match, num>>

\* The integrity validation of an event that is found.
Replays(s, e) ==
    /\ e.path = draft[s].path
    /\ req[s].key = Full => revs[e.number].proj = draft[s].proj
    /\ req[s].key # Full => req[s].key \in PostsIn(revs[e.number].proj)

\* The event of this assessment and post key exists: it is returned, or it
\* fails its integrity validation; neither changes anything.
Replay(s) ==
    /\ pc[s] = "lookup" /\ EventsFor(req[s].rev, req[s].key) # {}
    /\ Finish(s)
    /\ UNCHANGED <<review, rows>>

FindMaster(s) ==
    /\ pc[s] = "lookup" /\ EventsFor(req[s].rev, req[s].key) = {}
    /\ seen' = [seen EXCEPT ![s] = master]
    /\ Goto(s, IF master.exists THEN "match" ELSE "insert_master")
    /\ UNCHANGED <<review, rows, req, keys, draft, match, num>>

\* The uncommitted inserts of another session that this one waits for.
HoldsMaster(t) == pc[t] \in {"match", "number", "insert", "commit"} /\ ~seen[t].exists
HoldsRevision(t) == pc[t] = "commit" /\ match[t] = 0

\* Mutant: an insert locks the revisions of the Master, its own and others'.
WaitsForTable(s, t) == t # s /\ pc[s] = "insert" /\ pc[t] \in {"insert", "commit"}

WaitsFor(s, t) ==
    /\ t # s
    /\ \/ pc[s] = "insert_master" /\ HoldsMaster(t)
       \/ /\ pc[s] = "insert" /\ HoldsRevision(t)
          /\ num[t] = num[s] \/ draft[t].proj = draft[s].proj

Waiting(s) == \E t \in Sessions : WaitsFor(s, t)

InsertMaster(s) ==
    /\ pc[s] = "insert_master" /\ ~Waiting(s) /\ ~master.exists
    /\ Goto(s, "match")
    /\ UNCHANGED <<review, rows, req, keys, draft, seen, match, num>>

\* get_by_hash
FindRevision(s) ==
    /\ pc[s] = "match"
    /\ LET found == {n \in 1..Len(revs) : revs[n].proj = draft[s].proj}
       IN  IF found = {}
           THEN Goto(s, "number") /\ UNCHANGED match
           ELSE \E n \in found : match' = [match EXCEPT ![s] = n] /\ Goto(s, "commit")
    /\ UNCHANGED <<review, rows, req, keys, draft, seen, num>>

\* next_revision_number
ReadNumber(s) ==
    /\ pc[s] = "number"
    /\ num' = [num EXCEPT ![s] = Len(revs) + 1]
    /\ Goto(s, "insert")
    /\ UNCHANGED <<review, rows, req, keys, draft, seen, match>>

\* Mutant: no unique (master, projection hash).
NumberTaken(s) == num[s] <= Len(revs)

\* The unique (master, number) and (master, projection hash).
RevisionTaken(s) ==
    num[s] <= Len(revs) \/ \E n \in 1..Len(revs) : revs[n].proj = draft[s].proj

InsertRevision(s) ==
    /\ pc[s] = "insert" /\ ~Waiting(s) /\ ~RevisionTaken(s)
    /\ Goto(s, "commit")
    /\ UNCHANGED <<review, rows, req, keys, draft, seen, match, num>>

\* The unique event and the CHECK constraint on the path of a Post's event.
EventRefused(s) ==
    \/ EventsFor(req[s].rev, req[s].key) # {}
    \/ req[s].key # Full /\ draft[s].path = "VERIFIED_NO_REVIEW"

\* The pointer is written when the revision is new, or is not the one that
\* the session has read as current.
CurrentAfter(s) ==
    IF match[s] = 0 THEN num[s]
    ELSE IF match[s] # seen[s].current THEN match[s] ELSE master.current

\* Mutant: a new Master is inserted without the time of its verification.
VerifiedZero(s) ==
    IF seen[s].exists /\ VerifiedAt[req[s].rev] > seen[s].verified
    THEN VerifiedAt[req[s].rev] ELSE master.verified

\* So is the time, if it is later than the one the session has read.
VerifiedAfter(s) ==
    IF ~seen[s].exists \/ VerifiedAt[req[s].rev] > seen[s].verified
    THEN VerifiedAt[req[s].rev] ELSE master.verified

NewRevision(s) == [proj |-> draft[s].proj, source |-> req[s].rev]

Commit(s) ==
    /\ pc[s] = "commit" /\ ~EventRefused(s)
    /\ revs' = IF match[s] # 0 THEN revs ELSE Append(revs, NewRevision(s))
    /\ master' = [exists |-> TRUE, current |-> CurrentAfter(s),
                  verified |-> VerifiedAfter(s)]
    /\ events' = events \cup
          {[rev |-> req[s].rev, key |-> req[s].key, path |-> draft[s].path,
            number |-> IF match[s] = 0 THEN num[s] ELSE match[s]]}
    /\ Finish(s)
    /\ UNCHANGED review

\* A DomainConflictError, or an IntegrityError: it returns the event that a
\* concurrent request for the same key has committed, or asks for a retry.
Raises(s) ==
    \/ pc[s] = "review" /\ ~Publishable(req[s].rev, review[req[s].rev], req[s].key, keys[s])
    \/ pc[s] = "insert_master" /\ ~Waiting(s) /\ master.exists
    \/ pc[s] = "insert" /\ ~Waiting(s) /\ RevisionTaken(s)
    \/ pc[s] = "commit" /\ EventRefused(s)

Rollback(s) == Finish(s) /\ UNCHANGED <<review, rows>>

Raise(s) == Raises(s) /\ Rollback(s)

\* The process or its connection is lost.
Lose(s) == pc[s] # "idle" /\ Rollback(s)

----------------------------------------------------------------------------
Step(s) ==
    \/ ReadReview(s) \/ Replay(s) \/ FindMaster(s) \/ InsertMaster(s)
    \/ FindRevision(s) \/ ReadNumber(s) \/ InsertRevision(s) \/ Commit(s) \/ Raise(s)

Request(s) == \E r \in Revisions, k \in Posts \cup {Full} : Begin(s, r, k)

Next == Review \/ \E s \in Sessions : Request(s) \/ Step(s) \/ Lose(s)

Spec == Init /\ [][Next]_vars

\* A publication that is running goes on.
LiveSpec == Spec /\ \A s \in Sessions : SF_vars(Step(s))

----------------------------------------------------------------------------
(* Properties. *)

Requests == [rev : Revisions, key : Posts \cup {Full}]
Projections == UNION {[K \cup {Shared} -> Values] : K \in SUBSET Posts}
Labels == {"idle", "review", "lookup", "insert_master", "match", "number", "insert", "commit"}

\* The type invariant: the Master's rows, the reviews and every publication
\* in progress hold values of their columns.
TypeOK ==
    /\ review \in [Revisions -> [status : Statuses, verdict : [Keys -> Verdicts]]]
    /\ revs \in Seq([proj : Projections, source : Revisions])
    /\ master \in [exists : BOOLEAN, current : 0..Len(revs), verified : Nat]
    /\ events \subseteq [rev : Revisions, key : Posts \cup {Full}, path : Paths,
                        number : 1..Len(revs)]
    /\ pc \in [Sessions -> Labels]
    /\ req \in [Sessions -> Requests \cup {NoReq}]
    /\ keys \in [Sessions -> SUBSET Posts]
    /\ draft \in [Sessions -> [proj : Projections, path : Paths] \cup {NoDraft}]
    /\ seen \in [Sessions -> [exists : BOOLEAN, current : Nat, verified : Nat]]
    /\ match \in [Sessions -> 0..Len(revs)]
    /\ num \in [Sessions -> 0..(Len(revs) + 1)]

\* Whatever is published was approved, and holds what the decisions made of
\* it, although it was projected before the commit and without a lock, and
\* reviewers went on deciding and cancelling (_effective_projection).
ApprovedOnly ==
    \A n \in 1..Len(revs) :
        LET r == revs[n].source
            K == PostsIn(revs[n].proj)
        IN  /\ Policy[r] # "DIRECT" => Approved(review[r], K)
            /\ revs[n].proj = Projection(r, review[r], K)

\* An event names a revision that is what its own candidate revision, path
\* and Post produce, also when another candidate revision created it.
EventsSound ==
    \A e \in events :
        LET K == PostsIn(revs[e.number].proj)
        IN  /\ e.key # Full => e.key \in K
            /\ e.key = Full => K = FullPosts(e.rev, review[e.rev])
            /\ revs[e.number].proj = Projection(e.rev, review[e.rev], K)
            /\ e.path = PathOf(e.rev, review[e.rev], K)

\* Colliding publications leave a whole Master: it exists with its revisions
\* and events, points to one that was published, no projection is stored
\* twice, each revision has the event that created it, and no request has
\* two events.
MasterWhole ==
    /\ master.exists <=> revs # <<>>
    /\ master.exists => \E e \in events : e.number = master.current
    /\ master.exists => \E e \in events : VerifiedAt[e.rev] = master.verified
    /\ \A m, n \in 1..Len(revs) : revs[m].proj = revs[n].proj => m = n
    /\ \A n \in 1..Len(revs) : \E e \in events : e.number = n /\ e.rev = revs[n].source
    /\ \A e, f \in events : e.rev = f.rev /\ e.key = f.key => e = f

\* What a request for post key k of revision r may publish: a projection that
\* no further step of its review c can change.
Sound(r, c, k, proj, path) ==
    LET K == PostsIn(proj)
    IN  /\ proj = Projection(r, c, K) /\ path = PathOf(r, c, K)
        /\ Policy[r] # "DIRECT" => Approved(c, K)
        /\ k # Full => k \in K
        /\ k = Full => K = FullPosts(r, c)
        /\ k = Full /\ Policy[r] = "V2" => c.status = "RESOLVED"

RequestOf(s) ==
    /\ pc[s] # "idle" => req[s] \in Requests
    /\ pc[s] = "review" /\ req[s].key # Full => req[s].key \in keys[s]
    /\ pc[s] \notin {"idle", "review"} =>
          /\ draft[s] # NoDraft
          /\ Sound(req[s].rev, review[req[s].rev], req[s].key, draft[s].proj, draft[s].path)

\* A session that has inserted a revision is the only one that has, and its
\* number and projection stay free until it commits.
RevisionOf(s) ==
    /\ seen[s].exists => master.exists
    /\ pc[s] # "commit" => match[s] = 0
    /\ pc[s] = "commit" /\ match[s] # 0 => revs[match[s]].proj = draft[s].proj
    /\ HoldsRevision(s) =>
          /\ num[s] = Len(revs) + 1
          /\ \A n \in 1..Len(revs) : revs[n].proj # draft[s].proj
          /\ \A t \in Sessions \ {s} : ~HoldsRevision(t)

\* The inductive invariant: what each publication in progress relies on
\* between its reads and its commit, whatever the others commit meanwhile.
InductiveInvariant ==
    /\ TypeOK /\ MasterWhole
    /\ master.exists \/ master = NoMaster
    /\ \A r \in Revisions : review[r].status = "RESOLVED" => Decided(review[r])
    /\ \A e \in events : Sound(e.rev, review[e.rev], e.key, revs[e.number].proj, e.path)
    /\ \A s \in Sessions : RequestOf(s) /\ RevisionOf(s)

\* Replaying a full publication always passes the integrity validation.
FullReplays ==
    \A s \in Sessions : pc[s] = "lookup" /\ req[s].key = Full =>
        \A e \in EventsFor(req[s].rev, Full) : Replays(s, e)

\* Publishing a Post keeps the Posts published from the same revision.
PublishedFrom(r) ==
    UNION {PostsIn(revs[e.number].proj) : e \in {f \in events : f.rev = r}}

SiblingsRetained ==
    [][\A e \in events' \ events :
          e.key # Full => PublishedFrom(e.rev) \subseteq PostsIn(revs'[e.number].proj)]_vars

\* Replaying a scoped request returns its existing event.
PostReplays ==
    \A s \in Sessions : pc[s] = "lookup" /\ req[s].key # Full =>
        \A e \in EventsFor(req[s].rev, req[s].key) : Replays(s, e)

\* docs/architecture.md:527-528: an UNCHANGED event, one that reuses a revision
\* of the Master, refreshes only last_verified_at.
UnchangedRefreshes ==
    [][events' # events /\ revs' = revs => master'.current = master.current]_vars

\* Publications that overlap in any way keep the catalogue's promise.
History == [n \in 1..Len(revs) |-> revs[n].proj]

Catalogue == INSTANCE PublicationCatalogue WITH
    history <- History, current <- master.current, verified <- master.verified

CatalogueSpec == Catalogue!Spec

\* Every publication ends, also when sessions wait for each other's keys.
PublicationsEnd == \A s \in Sessions : pc[s] # "idle" ~> pc[s] = "idle"
=============================================================================
