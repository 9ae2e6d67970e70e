------------------------- MODULE PublicationProofs -------------------------
(***************************************************************************)
(* Proofs about Publication, for any revisions, Posts and sessions.        *)
(***************************************************************************)
EXTENDS Publication, TLAPS

Drafts == [proj : Projections, path : Paths]
Row == [proj : Projections, source : Revisions]

----------------------------------------------------------------------------
(* Lemmas about projections. *)

\* A projection of Posts K holds the Posts K and the shared fields.
LEMMA PostsOfProjection ==
    ASSUME NEW r \in Revisions, NEW c, NEW K \in SUBSET Posts
    PROVE  Projection(r, c, K) \in Projections /\ PostsIn(Projection(r, c, K)) = K
<1>1. \A k \in K \cup {Shared} :
         <<r, k, Corrected(r, c, k)>> \in Revisions \X Keys \X BOOLEAN
  BY DEF Keys, Corrected
<1>2. \A k \in K \cup {Shared} : Content[<<r, k, Corrected(r, c, k)>>] \in Values
  BY <1>1, PublicationAssumption
<1>3. Projection(r, c, K) \in [K \cup {Shared} -> Values]
  BY <1>2 DEF Projection
<1>4. PostsIn(Projection(r, c, K)) = K
  BY PublicationAssumption DEF Projection, PostsIn
<1> QED
  BY <1>3, <1>4 DEF Projections

LEMMA PathType == \A r, c, K : PathOf(r, c, K) \in Paths
BY DEF PathOf, Paths

\* The Posts in any projection are Posts.
LEMMA PostsInType ==
    ASSUME NEW p \in Projections
    PROVE  PostsIn(p) \in SUBSET Posts
BY DEF Projections, PostsIn

\* What revision n of the history holds.
LEMMA RevisionType ==
    ASSUME TypeOK, NEW n \in 1..Len(revs)
    PROVE  revs[n].proj \in Projections /\ revs[n].source \in Revisions
<1>1. revs \in Seq(Row)
  BY DEF TypeOK, Row
<1>2. revs[n] \in Row
  BY <1>1
<1> QED
  BY <1>2 DEF Row

LEMMA FullPostsType == \A r, c : FullPosts(r, c) \in SUBSET Posts
BY DEF FullPosts, Unblocked

----------------------------------------------------------------------------
(* The review goes on, and what it has released stays as it was. *)

ReviewRow == [status : Statuses, verdict : [Keys -> Verdicts]]

\* A decided review is decided for any Posts, unless it refuses them.
LEMMA DecidedApproved ==
    ASSUME NEW c \in ReviewRow, NEW K \in SUBSET Posts, Decided(c),
           Refused(c) \cap (K \cup {Shared}) = {}
    PROVE  Approved(c, K)
<1>1. \A k \in Keys : c.verdict[k] \in Verdicts
  BY DEF ReviewRow
<1> QED
  BY <1>1 DEF Decided, Refused, Approved, Keys, Verdicts

\* A step of the reviewers.
ReviewStep(r) == Resolve(r) \/ Cancel(r) \/ \E k \in Keys, v \in Verdicts : Record(r, k, v)

\* What a review may become: no verdict that was given changes, and nothing
\* changes once it is resolved.
Later(c, d) ==
    /\ d \in ReviewRow
    /\ \A k \in Keys : c.verdict[k] # "pending" => d.verdict[k] = c.verdict[k]
    /\ c.status = "RESOLVED" => d = c
    /\ d.status = "RESOLVED" /\ c.status # "RESOLVED" => Decided(d)

LEMMA ReviewIsLater ==
    ASSUME TypeOK, NEW q \in Revisions, ReviewStep(q)
    PROVE  /\ review' \in [Revisions -> ReviewRow]
           /\ \A r \in Revisions : Later(review[r], review'[r])
<1> USE DEF TypeOK, ReviewRow
<1>1. \A r \in Revisions : Later(review[r], review[r])
  BY DEF Later
<1>2. CASE Resolve(q)
  <2> DEFINE d == [review[q] EXCEPT !.status = "RESOLVED"]
  <2>1. review' = [review EXCEPT ![q] = d] /\ Decided(review[q])
        /\ review[q].status # "RESOLVED"
    BY <1>2 DEF Resolve
  <2>2. d \in ReviewRow /\ d.verdict = review[q].verdict
    BY DEF Statuses
  <2>3. Later(review[q], d)
    BY <2>1, <2>2 DEF Later, Decided
  <2> QED
    BY <1>1, <2>1, <2>2, <2>3
<1>3. CASE Cancel(q)
  <2> DEFINE d == [review[q] EXCEPT !.status = "CANCELLED"]
  <2>1. review' = [review EXCEPT ![q] = d] /\ review[q].status # "RESOLVED"
    BY <1>3 DEF Cancel
  <2>2. d \in ReviewRow /\ d.verdict = review[q].verdict /\ d.status = "CANCELLED"
    BY DEF Statuses
  <2>3. Later(review[q], d)
    BY <2>1, <2>2 DEF Later
  <2> QED
    BY <1>1, <2>1, <2>2, <2>3
<1>4. ASSUME NEW k \in Keys, NEW v \in Verdicts, Record(q, k, v)
      PROVE  /\ review' \in [Revisions -> ReviewRow]
             /\ \A r \in Revisions : Later(review[r], review'[r])
  <2> DEFINE d == [review[q] EXCEPT !.verdict[k] = v]
  <2>1. review' = [review EXCEPT ![q] = d] /\ review[q].status # "RESOLVED"
        /\ review[q].verdict[k] = "pending"
    BY <1>4 DEF Record
  <2>2. d \in ReviewRow /\ d.status = review[q].status
        /\ \A j \in Keys \ {k} : d.verdict[j] = review[q].verdict[j]
    OBVIOUS
  <2>3. Later(review[q], d)
    BY <2>1, <2>2 DEF Later
  <2> QED
    BY <1>1, <2>1, <2>2, <2>3
<1> QED
  BY <1>2, <1>3, <1>4 DEF ReviewStep

\* What is sound to publish stays sound.
LEMMA LaterSound ==
    ASSUME NEW r \in Revisions, NEW c, NEW d, Policy[r] = "DIRECT" \/ Later(c, d),
           NEW k, NEW p \in Projections, NEW path, Sound(r, c, k, p, path)
    PROVE  Sound(r, d, k, p, path)
<1> DEFINE K == PostsIn(p)
<1>1. K \in SUBSET Posts
  BY PostsInType
<1>2. Policy[r] # "DIRECT" => \A j \in K \cup {Shared} : d.verdict[j] = c.verdict[j]
  BY <1>1 DEF Sound, Approved, Later, Keys
<1>3. \A j \in K \cup {Shared} : Corrected(r, d, j) = Corrected(r, c, j)
  BY <1>2 DEF Corrected
<1>4. Projection(r, d, K) = Projection(r, c, K)
  BY <1>3 DEF Projection
<1>5. PathOf(r, d, K) = PathOf(r, c, K)
  BY <1>3 DEF PathOf
<1>6. Policy[r] # "DIRECT" => Approved(d, K)
  BY <1>2 DEF Sound, Approved
<1>7. k = Full /\ Policy[r] = "V2" => d = c
  BY DEF Sound, Later
<1>8. k = Full => FullPosts(r, d) = FullPosts(r, c)
  BY <1>7 DEF FullPosts
<1> QED
  BY <1>4, <1>5, <1>6, <1>7, <1>8 DEF Sound

----------------------------------------------------------------------------
(* The inductive invariant: the initial state, the reviewers, and the steps *)
(* of one session that change no row.                                       *)

LEMMA InvariantInit == Init => InductiveInvariant
<1> SUFFICES ASSUME Init PROVE InductiveInvariant
  OBVIOUS
<1>1. \A r \in Revisions : review[r].status = "IN_REVIEW"
  BY DEF Init
<1>2. review \in [Revisions -> [status : Statuses, verdict : [Keys -> Verdicts]]]
  BY DEF Init, Statuses, Verdicts
<1>3. TypeOK
  <2>1. revs \in Seq(Row) /\ Len(revs) = 0
    BY DEF Init
  <2>2. /\ pc \in [Sessions -> Labels] /\ req \in [Sessions -> Requests \cup {NoReq}]
        /\ keys \in [Sessions -> SUBSET Posts] /\ draft \in [Sessions -> Drafts \cup {NoDraft}]
    BY DEF Init, Labels
  <2>3. /\ seen \in [Sessions -> [exists : BOOLEAN, current : Nat, verified : Nat]]
        /\ match \in [Sessions -> 0..0] /\ num \in [Sessions -> 0..1]
        /\ master \in [exists : BOOLEAN, current : 0..0, verified : Nat]
    BY DEF Init, NoMaster
  <2> QED
    BY <1>2, <2>1, <2>2, <2>3 DEF Init, TypeOK, Row, Drafts
<1>4. MasterWhole
  BY DEF Init, MasterWhole, NoMaster
<1>5. \A s \in Sessions : RequestOf(s) /\ RevisionOf(s)
  BY DEF Init, RequestOf, RevisionOf, HoldsRevision, NoMaster
<1> QED
  BY <1>1, <1>3, <1>4, <1>5 DEF InductiveInvariant, Init

LEMMA InvariantReview ==
    ASSUME InductiveInvariant, Review
    PROVE  InductiveInvariant'
<1> USE DEF InductiveInvariant
<1>1. PICK q \in Revisions : Policy[q] # "DIRECT" /\ ReviewStep(q)
  BY DEF Review, ReviewStep
<1>2. UNCHANGED <<rows, pc, req, keys, draft, seen, match, num>>
  BY DEF Review
<1>3. review' \in [Revisions -> ReviewRow] /\ \A r \in Revisions : Later(review[r], review'[r])
  BY <1>1, ReviewIsLater
<1>4. TypeOK'
  BY <1>2, <1>3 DEF TypeOK, ReviewRow, rows
<1>5. MasterWhole'
  BY <1>2 DEF MasterWhole, rows
<1>6. \A r \in Revisions : review'[r].status = "RESOLVED" => Decided(review'[r])
  BY <1>3 DEF Later
<1>7. ASSUME NEW e \in events
      PROVE  Sound(e.rev, review'[e.rev], e.key, revs[e.number].proj, e.path)
  <2>1. e.rev \in Revisions /\ e.number \in 1..Len(revs)
    BY DEF TypeOK
  <2>2. revs[e.number].proj \in Projections
    BY <2>1, RevisionType
  <2> QED
    BY <1>3, <2>1, <2>2, LaterSound
<1>8. ASSUME NEW s \in Sessions
      PROVE  RequestOf(s)'
  <2>1. ASSUME pc[s] \notin {"idle", "review"}
        PROVE  Sound(req[s].rev, review'[req[s].rev], req[s].key, draft[s].proj, draft[s].path)
    <3>1. req[s].rev \in Revisions /\ draft[s].proj \in Projections
      BY <2>1 DEF TypeOK, RequestOf, Requests
    <3> QED
      BY <1>3, <2>1, <3>1, LaterSound DEF RequestOf
  <2> QED
    BY <2>1, <1>2 DEF RequestOf
<1>9. \A s \in Sessions : RevisionOf(s)'
  BY <1>2 DEF RevisionOf, HoldsRevision, rows
<1> QED
  BY <1>2, <1>4, <1>5, <1>6, <1>7, <1>8, <1>9 DEF rows

\* A step of session s leaves the other sessions alone.
OthersUnchanged(s) ==
    \A t \in Sessions \ {s} :
        /\ pc'[t] = pc[t] /\ req'[t] = req[t] /\ keys'[t] = keys[t]
        /\ draft'[t] = draft[t] /\ seen'[t] = seen[t]
        /\ match'[t] = match[t] /\ num'[t] = num[t]

\* A step that changes no row need only be right about its own session.
LEMMA SessionStep ==
    ASSUME InductiveInvariant, NEW s \in Sessions, UNCHANGED <<review, rows>>,
           TypeOK', OthersUnchanged(s), RequestOf(s)', RevisionOf(s)'
    PROVE  InductiveInvariant'
<1> USE DEF InductiveInvariant
<1>1. MasterWhole'
  BY DEF MasterWhole, rows
<1>2. \A t \in Sessions \ {s} : RequestOf(t)'
  BY DEF OthersUnchanged, RequestOf, rows
<1>3. \A t \in Sessions \ {s} : RevisionOf(t)'
  BY DEF OthersUnchanged, RevisionOf, HoldsRevision, rows
<1> QED
  BY <1>1, <1>2, <1>3 DEF rows
LEMMA InvariantRequest ==
    ASSUME InductiveInvariant, NEW s \in Sessions, NEW r \in Revisions,
           NEW k \in Posts \cup {Full}, Begin(s, r, k)
    PROVE  InductiveInvariant'
<1> USE DEF InductiveInvariant
<1>1. RetainedPosts(r) \in SUBSET Posts
  <2>1. master.current # 0 => master.current \in 1..Len(revs)
    BY DEF TypeOK
  <2> QED
    BY <2>1, RevisionType, PostsInType DEF RetainedPosts
<1>2. Select(r, k) \in SUBSET Posts /\ (k # Full => k \in Select(r, k))
  BY <1>1 DEF Select
<1>3. TypeOK'
  BY <1>2 DEF Begin, TypeOK, Requests, Goto, Labels, rows
<1>4. OthersUnchanged(s)
  BY DEF OthersUnchanged, Begin, Goto, TypeOK
<1>5. pc'[s] = "review" /\ req'[s] = [rev |-> r, key |-> k] /\ keys'[s] = Select(r, k)
  BY DEF Begin, Goto, TypeOK
<1>6. RequestOf(s)'
  BY <1>2, <1>5 DEF RequestOf, Requests
<1>7. RevisionOf(s)'
  BY <1>5 DEF RevisionOf, HoldsRevision, Begin, rows
<1> QED
  BY <1>3, <1>4, <1>6, <1>7, SessionStep DEF Begin

\* A transaction that ends resets its session.
LEMMA FinishType ==
    ASSUME TypeOK, NEW s \in Sessions, Finish(s)
    PROVE  /\ pc' \in [Sessions -> Labels] /\ req' \in [Sessions -> Requests \cup {NoReq}]
           /\ keys' \in [Sessions -> SUBSET Posts]
           /\ draft' \in [Sessions -> Drafts \cup {NoDraft}]
           /\ seen' \in [Sessions -> [exists : BOOLEAN, current : Nat, verified : Nat]]
           /\ match' \in [Sessions -> 0..Len(revs)]
           /\ num' \in [Sessions -> 0..(Len(revs) + 1)]
           /\ pc'[s] = "idle" /\ ~seen'[s].exists /\ match'[s] = 0
           /\ OthersUnchanged(s)
<1> USE DEF TypeOK, Finish, Goto, Drafts
<1>1. pc' \in [Sessions -> Labels] /\ req' \in [Sessions -> Requests \cup {NoReq}]
  BY DEF Labels
<1>2. seen' \in [Sessions -> [exists : BOOLEAN, current : Nat, verified : Nat]]
  BY DEF NoMaster
<1>3. Len(revs) \in Nat
  OBVIOUS
<1>4. match' \in [Sessions -> 0..Len(revs)] /\ num' \in [Sessions -> 0..(Len(revs) + 1)]
  BY <1>3
<1>5. pc'[s] = "idle" /\ ~seen'[s].exists /\ match'[s] = 0
  BY DEF NoMaster
<1>6. OthersUnchanged(s)
  BY DEF OthersUnchanged
<1> QED
  BY <1>1, <1>2, <1>4, <1>5, <1>6

LEMMA InvariantRollback ==
    ASSUME InductiveInvariant, NEW s \in Sessions, Rollback(s)
    PROVE  InductiveInvariant'
<1>1. TypeOK'
  BY FinishType DEF InductiveInvariant, Rollback, TypeOK, Drafts, rows
<1>2. OthersUnchanged(s) /\ pc'[s] = "idle" /\ ~seen'[s].exists /\ match'[s] = 0
  BY FinishType DEF InductiveInvariant, Rollback
<1>3. RequestOf(s)' /\ RevisionOf(s)'
  BY <1>2 DEF RequestOf, RevisionOf, HoldsRevision
<1> QED
  BY <1>1, <1>2, <1>3, SessionStep DEF Rollback

\* The projection a session reads from the review is sound to publish.
LEMMA PublishableSound ==
    ASSUME NEW r \in Revisions, NEW c \in ReviewRow, c.status = "RESOLVED" => Decided(c),
           NEW k \in Posts \cup {Full}, NEW K \in SUBSET Posts, k # Full => k \in K,
           Publishable(r, c, k, K)
    PROVE  LET P == SelectedPosts(r, c, k, K)
           IN  P \in SUBSET Posts /\ Sound(r, c, k, Projection(r, c, P), PathOf(r, c, P))
<1> DEFINE P == SelectedPosts(r, c, k, K)
<1>1. P \in SUBSET Posts
  BY FullPostsType DEF SelectedPosts
<1>2. PostsIn(Projection(r, c, P)) = P
  BY <1>1, PostsOfProjection
<1>3. k # Full => k \in P
  BY DEF SelectedPosts, FullPosts
<1>4. k = Full => P = FullPosts(r, c)
  BY DEF SelectedPosts
<1>5. k = Full /\ Policy[r] = "V2" => c.status = "RESOLVED"
  BY DEF Publishable
<1>6. ASSUME Policy[r] # "DIRECT"
      PROVE  Approved(c, P)
  <2>1. CASE Policy[r] = "V1"
    BY <1>1, <2>1, DecidedApproved DEF Publishable
  <2>2. CASE Policy[r] = "V2" /\ k = Full
    <3>1. Decided(c) /\ Shared \notin Refused(c) /\ P = Posts \ Refused(c)
      BY <2>2, <1>4 DEF Publishable, FullPosts, Unblocked
    <3> QED
      BY <1>1, <3>1, DecidedApproved
  <2>3. CASE Policy[r] = "V2" /\ k # Full
    BY <2>3 DEF Publishable, SelectedPosts
  <2> QED
    BY <1>6, <2>1, <2>2, <2>3, PublicationAssumption
<1> QED
  BY <1>1, <1>2, <1>3, <1>4, <1>5, <1>6 DEF Sound

LEMMA InvariantReadReview ==
    ASSUME InductiveInvariant, NEW s \in Sessions, ReadReview(s)
    PROVE  InductiveInvariant'
<1> DEFINE r == req[s].rev
           c == review[r]
           k == req[s].key
           P == SelectedPosts(r, c, k, keys[s])
           d == [proj |-> Projection(r, c, P), path |-> PathOf(r, c, P)]
<1>1. /\ r \in Revisions /\ c \in ReviewRow /\ (c.status = "RESOLVED" => Decided(c))
      /\ k \in Posts \cup {Full} /\ keys[s] \in SUBSET Posts /\ (k # Full => k \in keys[s])
  BY DEF ReadReview, InductiveInvariant, RequestOf, Requests, TypeOK, ReviewRow
<1>2. P \in SUBSET Posts /\ Sound(r, c, k, d.proj, d.path)
  BY <1>1, PublishableSound DEF ReadReview
<1>3. d \in Drafts
  BY <1>1, <1>2, PostsOfProjection, PathType DEF Drafts
<1>4. d # NoDraft
  BY PathType DEF NoDraft, Paths
<1>5. draft' = [draft EXCEPT ![s] = d] /\ pc' = [pc EXCEPT ![s] = "lookup"]
      /\ UNCHANGED <<review, rows, req, keys, seen, match, num>> /\ pc[s] = "review"
  BY DEF ReadReview, Goto
<1> HIDE DEF d
<1>6. TypeOK'
  BY <1>3, <1>5 DEF InductiveInvariant, TypeOK, Labels, Drafts, rows
<1>7. OthersUnchanged(s)
  BY <1>5 DEF OthersUnchanged, InductiveInvariant, TypeOK
<1>8. pc'[s] = "lookup" /\ draft'[s] = d
  BY <1>5 DEF InductiveInvariant, TypeOK
<1>9. RequestOf(s)'
  BY <1>2, <1>4, <1>5, <1>8 DEF RequestOf, InductiveInvariant
<1>10. RevisionOf(s)'
  BY <1>5, <1>8 DEF RevisionOf, HoldsRevision, InductiveInvariant, rows
<1> QED
  BY <1>5, <1>6, <1>7, <1>9, <1>10, SessionStep

\* A step that keeps the request and the draft keeps them sound.
LEMMA DraftKept ==
    ASSUME NEW s \in Sessions, RequestOf(s), UNCHANGED <<review, rows, req, keys, draft>>,
           pc[s] \notin {"idle", "review"}, pc'[s] \notin {"idle", "review"}
    PROVE  RequestOf(s)'
BY DEF RequestOf

LEMMA InvariantFindMaster ==
    ASSUME InductiveInvariant, NEW s \in Sessions, FindMaster(s)
    PROVE  InductiveInvariant'
<1> USE DEF InductiveInvariant
<1>1. TypeOK'
  BY DEF FindMaster, TypeOK, Goto, Labels, rows
<1>2. OthersUnchanged(s)
  BY DEF OthersUnchanged, FindMaster, Goto, TypeOK
<1>3. /\ pc[s] = "lookup" /\ pc'[s] \in {"match", "insert_master"} /\ seen'[s] = master
      /\ UNCHANGED <<review, rows, req, keys, draft, match>>
  BY DEF FindMaster, Goto, TypeOK
<1>4. RequestOf(s)'
  BY <1>3, DraftKept
<1>5. RevisionOf(s)'
  BY <1>3 DEF RevisionOf, HoldsRevision, rows
<1> QED
  BY <1>1, <1>2, <1>3, <1>4, <1>5, SessionStep

LEMMA InvariantInsertMaster ==
    ASSUME InductiveInvariant, NEW s \in Sessions, InsertMaster(s)
    PROVE  InductiveInvariant'
<1> USE DEF InductiveInvariant
<1>1. TypeOK'
  BY DEF InsertMaster, TypeOK, Goto, Labels, rows
<1>2. OthersUnchanged(s)
  BY DEF OthersUnchanged, InsertMaster, Goto, TypeOK
<1>3. /\ pc[s] = "insert_master" /\ pc'[s] = "match" /\ UNCHANGED seen
      /\ UNCHANGED <<review, rows, req, keys, draft, match>>
  BY DEF InsertMaster, Goto, TypeOK
<1>4. RequestOf(s)'
  BY <1>3, DraftKept
<1>5. RevisionOf(s)'
  BY <1>3 DEF RevisionOf, HoldsRevision, rows
<1> QED
  BY <1>1, <1>2, <1>3, <1>4, <1>5, SessionStep

LEMMA InvariantFindRevision ==
    ASSUME InductiveInvariant, NEW s \in Sessions, FindRevision(s)
    PROVE  InductiveInvariant'
<1> USE DEF InductiveInvariant
<1>1. /\ pc[s] = "match" /\ UNCHANGED <<review, rows, req, keys, draft, seen, num>>
      /\ \/ pc' = [pc EXCEPT ![s] = "number"] /\ UNCHANGED match
         \/ \E n \in 1..Len(revs) :
              /\ revs[n].proj = draft[s].proj
              /\ match' = [match EXCEPT ![s] = n] /\ pc' = [pc EXCEPT ![s] = "commit"]
  BY DEF FindRevision, Goto
<1>2. pc' \in [Sessions -> Labels] /\ match' \in [Sessions -> 0..Len(revs)]
  <2>1. pc' \in [Sessions -> Labels]
    BY <1>1 DEF TypeOK, Labels
  <2>2. \A n \in 1..Len(revs) : n \in 0..Len(revs)
    BY DEF TypeOK
  <2>3. match' \in [Sessions -> 0..Len(revs)]
    BY <1>1, <2>2 DEF TypeOK
  <2> QED
    BY <2>1, <2>3
<1>3. TypeOK'
  BY <1>1, <1>2 DEF TypeOK, rows
<1>4. OthersUnchanged(s)
  BY <1>1 DEF OthersUnchanged, TypeOK
<1>5. RequestOf(s)'
  <2>1. pc'[s] \in {"number", "commit"}
    BY <1>1 DEF TypeOK
  <2> QED
    BY <1>1, <2>1, DraftKept
<1>6. RevisionOf(s)'
  <2>1. CASE pc' = [pc EXCEPT ![s] = "number"]
    BY <1>1, <2>1 DEF RevisionOf, HoldsRevision, TypeOK, rows
  <2>2. ASSUME NEW n \in 1..Len(revs), revs[n].proj = draft[s].proj,
               match' = [match EXCEPT ![s] = n], pc' = [pc EXCEPT ![s] = "commit"]
        PROVE  RevisionOf(s)'
    <3>1. pc'[s] = "commit" /\ match'[s] = n /\ n # 0
      BY <2>2 DEF TypeOK
    <3> QED
      BY <1>1, <2>2, <3>1 DEF RevisionOf, HoldsRevision, rows
  <2> QED
    BY <1>1, <2>1, <2>2
<1> QED
  BY <1>1, <1>3, <1>4, <1>5, <1>6, SessionStep

LEMMA InvariantReadNumber ==
    ASSUME InductiveInvariant, NEW s \in Sessions, ReadNumber(s)
    PROVE  InductiveInvariant'
<1> USE DEF InductiveInvariant
<1>1. Len(revs) + 1 \in 0..(Len(revs) + 1)
  BY DEF TypeOK
<1>2. TypeOK'
  BY <1>1 DEF ReadNumber, TypeOK, Goto, Labels, rows
<1>3. OthersUnchanged(s)
  BY DEF OthersUnchanged, ReadNumber, Goto, TypeOK
<1>4. /\ pc[s] = "number" /\ pc'[s] = "insert" /\ UNCHANGED <<seen, match>>
      /\ UNCHANGED <<review, rows, req, keys, draft>>
  BY DEF ReadNumber, Goto, TypeOK
<1>5. RequestOf(s)'
  BY <1>4, DraftKept
<1>6. RevisionOf(s)'
  BY <1>4 DEF RevisionOf, HoldsRevision, rows
<1> QED
  BY <1>2, <1>3, <1>4, <1>5, <1>6, SessionStep

\* Two sessions cannot both hold an inserted revision: the number of each
\* would be the next one, and the second insert waits for the first.
LEMMA InvariantInsertRevision ==
    ASSUME InductiveInvariant, NEW s \in Sessions, InsertRevision(s)
    PROVE  InductiveInvariant'
<1> USE DEF InductiveInvariant
<1>1. TypeOK'
  BY DEF InsertRevision, TypeOK, Goto, Labels, rows
<1>2. OthersUnchanged(s)
  BY DEF OthersUnchanged, InsertRevision, Goto, TypeOK
<1>3. /\ pc[s] = "insert" /\ pc'[s] = "commit" /\ UNCHANGED <<seen, match, num>>
      /\ UNCHANGED <<review, rows, req, keys, draft>>
      /\ ~Waiting(s) /\ ~RevisionTaken(s)
  BY DEF InsertRevision, Goto, TypeOK
<1>4. RequestOf(s)'
  BY <1>3, DraftKept
<1>5. num[s] = Len(revs) + 1 /\ \A n \in 1..Len(revs) : revs[n].proj # draft[s].proj
  BY <1>3 DEF RevisionTaken, TypeOK
<1>6. ASSUME NEW t \in Sessions \ {s}, HoldsRevision(t)
      PROVE  FALSE
  <2>1. num[t] = num[s]
    BY <1>5, <1>6 DEF RevisionOf
  <2>2. WaitsFor(s, t)
    BY <1>3, <1>6, <2>1 DEF WaitsFor
  <2> QED
    BY <1>3, <2>2 DEF Waiting
<1>7. \A t \in Sessions \ {s} : ~HoldsRevision(t)'
  BY <1>2, <1>6 DEF OthersUnchanged, HoldsRevision
<1>8. match[s] = 0
  BY <1>3 DEF RevisionOf
<1>9. RevisionOf(s)'
  BY <1>3, <1>5, <1>7, <1>8 DEF RevisionOf, HoldsRevision, rows
<1> QED
  BY <1>1, <1>2, <1>3, <1>4, <1>9, SessionStep

----------------------------------------------------------------------------
(* The commit. *)

Number(s) == IF match[s] = 0 THEN num[s] ELSE match[s]

EventOf(s) ==
    [rev |-> req[s].rev, key |-> req[s].key, path |-> draft[s].path, number |-> Number(s)]

\* What a session that commits has in hand.
LEMMA CommitRequest ==
    ASSUME InductiveInvariant, NEW s \in Sessions, Commit(s)
    PROVE  /\ req[s] \in Requests /\ draft[s] \in Drafts
           /\ Sound(req[s].rev, review[req[s].rev], req[s].key, draft[s].proj, draft[s].path)
           /\ EventsFor(req[s].rev, req[s].key) = {}
           /\ UNCHANGED review /\ Finish(s)
BY DEF Commit, InductiveInvariant, RequestOf, TypeOK, Drafts, EventRefused

\* What it does to the history: it appends its revision, or finds it there.
LEMMA CommitHistory ==
    ASSUME InductiveInvariant, NEW s \in Sessions, Commit(s)
    PROVE  /\ revs' \in Seq(Row) /\ Len(revs') \in Nat
           /\ Number(s) \in 1..Len(revs') /\ revs'[Number(s)].proj = draft[s].proj
           /\ Len(revs) <= Len(revs') /\ \A n \in 1..Len(revs) : revs'[n] = revs[n]
           /\ match[s] # 0 => revs' = revs
           /\ match[s] = 0 =>
                /\ Number(s) = Len(revs) + 1 /\ Len(revs') = Len(revs) + 1
                /\ revs'[Number(s)].source = req[s].rev
                /\ \A n \in 1..Len(revs) : revs[n].proj # draft[s].proj
                /\ \A t \in Sessions \ {s} : ~HoldsRevision(t)
<1>1. revs \in Seq(Row) /\ Len(revs) \in Nat /\ match[s] \in 0..Len(revs)
  BY DEF InductiveInvariant, TypeOK, Row
<1>2. CASE match[s] # 0
  BY <1>1, <1>2 DEF Commit, InductiveInvariant, RevisionOf, Number
<1>3. CASE match[s] = 0
  <2>1. HoldsRevision(s)
    BY <1>3 DEF Commit, HoldsRevision
  <2>2. /\ num[s] = Len(revs) + 1
        /\ \A n \in 1..Len(revs) : revs[n].proj # draft[s].proj
        /\ \A t \in Sessions \ {s} : ~HoldsRevision(t)
    BY <2>1 DEF InductiveInvariant, RevisionOf
  <2>3. revs' = Append(revs, NewRevision(s))
    BY <1>3 DEF Commit
  <2>4. NewRevision(s) \in Row
    BY CommitRequest DEF NewRevision, Row, Drafts, Requests
  <2>5. /\ revs' \in Seq(Row) /\ Len(revs') = Len(revs) + 1
        /\ revs'[Len(revs) + 1] = NewRevision(s)
        /\ \A n \in 1..Len(revs) : revs'[n] = revs[n]
    BY <1>1, <2>3, <2>4
  <2> QED
    BY <1>1, <1>3, <2>2, <2>5 DEF Number, NewRevision
<1> QED
  BY <1>2, <1>3

\* What it does to the Master and its events.
LEMMA CommitMaster ==
    ASSUME InductiveInvariant, NEW s \in Sessions, Commit(s)
    PROVE  /\ master' = [exists |-> TRUE, current |-> CurrentAfter(s),
                         verified |-> VerifiedAfter(s)]
           /\ events' = events \cup {EventOf(s)}
           /\ CurrentAfter(s) = Number(s)
              \/ (CurrentAfter(s) = master.current /\ master.exists)
           /\ VerifiedAfter(s) = VerifiedAt[req[s].rev]
              \/ (VerifiedAfter(s) = master.verified /\ master.exists)
<1>1. master' = [exists |-> TRUE, current |-> CurrentAfter(s), verified |-> VerifiedAfter(s)]
      /\ events' = events \cup {EventOf(s)}
  BY DEF Commit, EventOf, Number
<1>2. match[s] # 0 => master.exists
  <2>1. match[s] # 0 => revs # <<>>
    BY DEF InductiveInvariant, TypeOK
  <2> QED
    BY <2>1 DEF InductiveInvariant, MasterWhole
<1>3. seen[s].exists => master.exists
  BY DEF InductiveInvariant, RevisionOf
<1>4. CurrentAfter(s) = Number(s) \/ (CurrentAfter(s) = master.current /\ master.exists)
  BY <1>2 DEF CurrentAfter, Number
<1>5. VerifiedAfter(s) = VerifiedAt[req[s].rev]
      \/ (VerifiedAfter(s) = master.verified /\ master.exists)
  BY <1>3 DEF VerifiedAfter
<1> QED
  BY <1>1, <1>4, <1>5

LEMMA CommitType ==
    ASSUME InductiveInvariant, NEW s \in Sessions, Commit(s)
    PROVE  TypeOK'
<1>1. EventOf(s) \in [rev : Revisions, key : Posts \cup {Full}, path : Paths,
                      number : 1..Len(revs')]
  BY CommitRequest, CommitHistory DEF EventOf, Requests, Drafts
<1>2. Len(revs) \in Nat /\ Len(revs') \in Nat /\ Len(revs) <= Len(revs')
  BY CommitHistory DEF InductiveInvariant, TypeOK
<1>3. events' \subseteq [rev : Revisions, key : Posts \cup {Full}, path : Paths,
                         number : 1..Len(revs')]
  <2>1. \A e \in events : e \in [rev : Revisions, key : Posts \cup {Full}, path : Paths,
                                 number : 1..Len(revs')]
    BY <1>2 DEF InductiveInvariant, TypeOK
  <2> QED
    BY <1>1, <2>1, CommitMaster
<1>4. master' \in [exists : BOOLEAN, current : 0..Len(revs'), verified : Nat]
  <2>1. master \in [exists : BOOLEAN, current : 0..Len(revs), verified : Nat]
    BY DEF InductiveInvariant, TypeOK
  <2>2. VerifiedAt[req[s].rev] \in Nat
    BY CommitRequest, PublicationAssumption DEF Requests
  <2>3. CurrentAfter(s) \in 0..Len(revs') /\ VerifiedAfter(s) \in Nat
    BY <1>2, <2>1, <2>2, CommitMaster, CommitHistory
  <2>4. master' = [exists |-> TRUE, current |-> CurrentAfter(s),
                   verified |-> VerifiedAfter(s)]
    BY CommitMaster
  <2> QED
    BY <2>3, <2>4
<1>5. \A n \in 0..Len(revs) : n \in 0..Len(revs')
  BY <1>2
<1>6. \A n \in 0..(Len(revs) + 1) : n \in 0..(Len(revs') + 1)
  BY <1>2
<1>7. revs' \in Seq([proj : Projections, source : Revisions]) /\ UNCHANGED review /\ Finish(s)
  BY CommitHistory, CommitRequest DEF Row
<1>8. /\ pc' \in [Sessions -> Labels] /\ req' \in [Sessions -> Requests \cup {NoReq}]
      /\ keys' \in [Sessions -> SUBSET Posts]
      /\ draft' \in [Sessions -> Drafts \cup {NoDraft}]
      /\ seen' \in [Sessions -> [exists : BOOLEAN, current : Nat, verified : Nat]]
      /\ match' \in [Sessions -> 0..Len(revs)] /\ num' \in [Sessions -> 0..(Len(revs) + 1)]
  BY <1>7, FinishType DEF InductiveInvariant
<1>9. match' \in [Sessions -> 0..Len(revs')] /\ num' \in [Sessions -> 0..(Len(revs') + 1)]
  BY <1>5, <1>6, <1>8
<1> QED
  BY <1>3, <1>4, <1>7, <1>8, <1>9 DEF InductiveInvariant, TypeOK, Drafts

LEMMA CommitWhole ==
    ASSUME InductiveInvariant, NEW s \in Sessions, Commit(s)
    PROVE  MasterWhole'
<1> DEFINE n == Number(s)
           e == EventOf(s)
<1>1. /\ events' = events \cup {e} /\ e \in events' /\ master'.exists
      /\ n \in 1..Len(revs') /\ Len(revs') \in Nat /\ revs' \in Seq(Row)
  BY CommitMaster, CommitHistory
<1>2. e.number = n /\ e.rev = req[s].rev /\ e.key = req[s].key
  BY DEF EventOf
<1>3. master'.exists <=> revs' # <<>>
  BY <1>1
<1>4. \E f \in events' : f.number = master'.current
  <2>1. master'.current = n \/ (master'.current = master.current /\ master.exists)
    BY CommitMaster
  <2> QED
    BY <1>1, <1>2, <2>1 DEF InductiveInvariant, MasterWhole
<1>5. \E f \in events' : VerifiedAt[f.rev] = master'.verified
  <2>1. \/ master'.verified = VerifiedAt[e.rev]
        \/ master'.verified = master.verified /\ master.exists
    BY <1>2, CommitMaster
  <2> QED
    BY <1>1, <2>1 DEF InductiveInvariant, MasterWhole
<1>6. /\ \A l, m \in 1..Len(revs') : revs'[l].proj = revs'[m].proj => l = m
      /\ \A m \in 1..Len(revs') : \E f \in events' : f.number = m /\ f.rev = revs'[m].source
  <2>1. CASE match[s] # 0
    <3>1. revs' = revs
      BY <2>1, CommitHistory
    <3>2. /\ \A l, m \in 1..Len(revs) : revs[l].proj = revs[m].proj => l = m
          /\ \A m \in 1..Len(revs) : \E f \in events : f.number = m /\ f.rev = revs[m].source
      BY DEF InductiveInvariant, MasterWhole
    <3> QED
      BY <1>1, <3>1, <3>2
  <2>2. CASE match[s] = 0
    <3>1. /\ n = Len(revs) + 1 /\ Len(revs') = Len(revs) + 1 /\ Len(revs) \in Nat
          /\ revs'[n].source = e.rev
          /\ \A m \in 1..Len(revs) : revs'[m] = revs[m] /\ revs[m].proj # revs'[n].proj
      BY <1>2, <2>2, CommitHistory DEF InductiveInvariant, TypeOK
    <3>2. /\ \A l, m \in 1..Len(revs) : revs[l].proj = revs[m].proj => l = m
          /\ \A m \in 1..Len(revs) : \E f \in events : f.number = m /\ f.rev = revs[m].source
      BY DEF InductiveInvariant, MasterWhole
    <3>3. \A m \in 1..Len(revs') : m = n \/ m \in 1..Len(revs)
      BY <3>1
    <3>4. \A l, m \in 1..Len(revs') : revs'[l].proj = revs'[m].proj => l = m
      BY <3>1, <3>2, <3>3
    <3>5. \A m \in 1..Len(revs') : \E f \in events' : f.number = m /\ f.rev = revs'[m].source
      BY <1>1, <1>2, <3>1, <3>2, <3>3
    <3> QED
      BY <3>4, <3>5
  <2> QED
    BY <2>1, <2>2
<1>7. \A f, g \in events' : f.rev = g.rev /\ f.key = g.key => f = g
  <2>1. \A f \in events : f.rev # e.rev \/ f.key # e.key
    BY <1>2, CommitRequest DEF EventsFor
  <2>2. \A f, g \in events : f.rev = g.rev /\ f.key = g.key => f = g
    BY DEF InductiveInvariant, MasterWhole
  <2> QED
    BY <1>1, <2>1, <2>2
<1> QED
  BY <1>3, <1>4, <1>5, <1>6, <1>7 DEF MasterWhole

LEMMA InvariantCommit ==
    ASSUME InductiveInvariant, NEW s \in Sessions, Commit(s)
    PROVE  InductiveInvariant'
<1>1. TypeOK' /\ MasterWhole' /\ UNCHANGED review
  BY CommitType, CommitWhole, CommitRequest
<1>2. /\ OthersUnchanged(s) /\ pc'[s] = "idle" /\ ~seen'[s].exists /\ match'[s] = 0
  BY CommitRequest, FinishType DEF InductiveInvariant
<1>3. ASSUME NEW e \in events'
      PROVE  Sound(e.rev, review[e.rev], e.key, revs'[e.number].proj, e.path)
  <2>1. CASE e = EventOf(s)
    BY <2>1, CommitRequest, CommitHistory DEF EventOf
  <2>2. CASE e \in events
    <3>1. e.number \in 1..Len(revs)
      BY <2>2 DEF InductiveInvariant, TypeOK
    <3>2. Sound(e.rev, review[e.rev], e.key, revs[e.number].proj, e.path)
      BY <2>2 DEF InductiveInvariant
    <3>3. revs'[e.number] = revs[e.number]
      BY <3>1, CommitHistory
    <3> QED
      BY <3>2, <3>3
  <2> QED
    BY <2>1, <2>2, CommitMaster
<1>4. RequestOf(s)' /\ RevisionOf(s)'
  BY <1>2 DEF RequestOf, RevisionOf, HoldsRevision
<1>5. ASSUME NEW t \in Sessions \ {s}
      PROVE  RequestOf(t)' /\ RevisionOf(t)'
  <2>1. RequestOf(t) /\ RevisionOf(t)
    BY DEF InductiveInvariant
  <2>2. RequestOf(t)'
    BY <1>1, <1>2, <2>1 DEF RequestOf, OthersUnchanged
  <2>3. master'.exists
    BY CommitMaster
  <2>4. match[t] # 0 => match[t] \in 1..Len(revs)
    BY DEF InductiveInvariant, TypeOK
  <2>5. match[t] # 0 => revs'[match[t]] = revs[match[t]]
    BY <2>4, CommitHistory
  <2>6. HoldsRevision(t)' => HoldsRevision(t) /\ revs' = revs
    <3>1. HoldsRevision(t)' => HoldsRevision(t)
      BY <1>2 DEF HoldsRevision, OthersUnchanged
    <3> QED
      BY <3>1, CommitHistory
  <2>7. \A u \in Sessions : HoldsRevision(u)' => HoldsRevision(u)
    BY <1>2 DEF HoldsRevision, OthersUnchanged
  <2> QED
    BY <1>2, <2>1, <2>2, <2>3, <2>5, <2>6, <2>7 DEF RevisionOf, OthersUnchanged
<1> QED
  BY <1>1, <1>3, <1>4, <1>5, CommitMaster DEF InductiveInvariant

----------------------------------------------------------------------------
(* The theorems. *)

LEMMA InvariantNext ==
    ASSUME InductiveInvariant, [Next]_vars
    PROVE  InductiveInvariant'
<1>1. CASE Review
  BY <1>1, InvariantReview
<1>2. ASSUME NEW s \in Sessions, Request(s)
      PROVE  InductiveInvariant'
  BY <1>2, InvariantRequest DEF Request
<1>3. ASSUME NEW s \in Sessions, Step(s)
      PROVE  InductiveInvariant'
  <2>1. CASE ReadReview(s)
    BY <2>1, InvariantReadReview
  <2>2. CASE Replay(s)
    BY <2>2, InvariantRollback DEF Replay, Rollback
  <2>3. CASE FindMaster(s)
    BY <2>3, InvariantFindMaster
  <2>4. CASE InsertMaster(s)
    BY <2>4, InvariantInsertMaster
  <2>5. CASE FindRevision(s)
    BY <2>5, InvariantFindRevision
  <2>6. CASE ReadNumber(s)
    BY <2>6, InvariantReadNumber
  <2>7. CASE InsertRevision(s)
    BY <2>7, InvariantInsertRevision
  <2>8. CASE Commit(s)
    BY <2>8, InvariantCommit
  <2>9. CASE Raise(s)
    BY <2>9, InvariantRollback DEF Raise
  <2> QED
    BY <1>3, <2>1, <2>2, <2>3, <2>4, <2>5, <2>6, <2>7, <2>8, <2>9 DEF Step
<1>4. ASSUME NEW s \in Sessions, Lose(s)
      PROVE  InductiveInvariant'
  BY <1>4, InvariantRollback DEF Lose
<1>5. CASE UNCHANGED vars
  <2>1. UNCHANGED <<review, rows, pc, req, keys, draft, seen, match, num>>
    BY <1>5 DEF vars, rows
  <2>2. TypeOK'
    BY <2>1 DEF InductiveInvariant, TypeOK, rows
  <2>3. MasterWhole'
    BY <2>1 DEF InductiveInvariant, MasterWhole, rows
  <2>4. \A s \in Sessions : RequestOf(s)' /\ RevisionOf(s)'
    BY <2>1 DEF InductiveInvariant, RequestOf, RevisionOf, HoldsRevision, rows
  <2> QED
    BY <2>1, <2>2, <2>3, <2>4 DEF InductiveInvariant, rows
<1> QED
  BY <1>1, <1>2, <1>3, <1>4, <1>5 DEF Next

\* The inductive invariant is an invariant of publish.
THEOREM PublicationInvariant == Spec => []InductiveInvariant
<1>1. Init => InductiveInvariant
  BY InvariantInit
<1>2. InductiveInvariant /\ [Next]_vars => InductiveInvariant'
  BY InvariantNext
<1> QED
  BY <1>1, <1>2, PTL DEF Spec

\* Rows and publications in progress are well typed.
THEOREM TypeCorrect == Spec => []TypeOK
<1>1. InductiveInvariant => TypeOK
  BY DEF InductiveInvariant
<1> QED
  BY <1>1, PublicationInvariant, PTL

\* Colliding publications leave a whole Master.
THEOREM MasterStaysWhole == Spec => []MasterWhole
<1>1. InductiveInvariant => MasterWhole
  BY DEF InductiveInvariant
<1> QED
  BY <1>1, PublicationInvariant, PTL

\* An event names a revision that its candidate revision, path and Post produce.
THEOREM EventsAreSound == Spec => []EventsSound
<1>1. InductiveInvariant => EventsSound
  BY DEF InductiveInvariant, EventsSound, Sound
<1> QED
  BY <1>1, PublicationInvariant, PTL

\* Whatever is published was approved and holds what the decisions made of it:
\* the event that created a revision is sound, and names its source.
THEOREM OnlyApproved == Spec => []ApprovedOnly
<1>1. InductiveInvariant => ApprovedOnly
  <2> SUFFICES ASSUME InductiveInvariant, NEW n \in 1..Len(revs)
               PROVE  LET r == revs[n].source
                          K == PostsIn(revs[n].proj)
                      IN  /\ Policy[r] # "DIRECT" => Approved(review[r], K)
                          /\ revs[n].proj = Projection(r, review[r], K)
    BY DEF ApprovedOnly
  <2>1. PICK e \in events : e.number = n /\ e.rev = revs[n].source
    BY DEF InductiveInvariant, MasterWhole
  <2>2. Sound(e.rev, review[e.rev], e.key, revs[e.number].proj, e.path)
    BY DEF InductiveInvariant
  <2> QED
    BY <2>1, <2>2 DEF Sound
<1> QED
  BY <1>1, PublicationInvariant, PTL

\* Replaying a full publication passes the integrity validation: what it
\* projects now and what its event recorded are both what the review yields.
THEOREM FullReplaysPass == Spec => []FullReplays
<1>1. InductiveInvariant => FullReplays
  <2> SUFFICES ASSUME InductiveInvariant, NEW s \in Sessions, pc[s] = "lookup",
                      req[s].key = Full, NEW e \in EventsFor(req[s].rev, Full)
               PROVE  Replays(s, e)
    BY DEF FullReplays
  <2>1. Sound(req[s].rev, review[req[s].rev], Full, draft[s].proj, draft[s].path)
    BY DEF InductiveInvariant, RequestOf
  <2>2. Sound(req[s].rev, review[req[s].rev], Full, revs[e.number].proj, e.path)
    BY DEF InductiveInvariant, EventsFor
  <2> QED
    BY <2>1, <2>2 DEF Sound, Replays
<1> QED
  BY <1>1, PublicationInvariant, PTL

\* Only a commit changes a row.
LEMMA RowsChange ==
    ASSUME InductiveInvariant, [Next]_vars
    PROVE  UNCHANGED rows \/ \E s \in Sessions : Commit(s)
BY DEF Next, vars, rows, Review, Request, Begin, Step, ReadReview, Replay, FindMaster,
   InsertMaster, FindRevision, ReadNumber, InsertRevision, Raise, Rollback, Lose

----------------------------------------------------------------------------
(* Overlapping publications implement the catalogue. *)

LEMMA HistoryLength ==
    ASSUME NEW q \in Seq(Row)
    PROVE  /\ Len([n \in 1..Len(q) |-> q[n].proj]) = Len(q)
           /\ \A m \in 1..Len(q) : [n \in 1..Len(q) |-> q[n].proj][m] = q[m].proj
<1> DEFINE h == [n \in 1..Len(q) |-> q[n].proj]
<1>1. Len(q) \in Nat /\ DOMAIN h = 1..Len(q)
  OBVIOUS
<1>2. \A m \in 1..Len(q) : q[m].proj \in Projections
  <2>1. \A m \in 1..Len(q) : q[m] \in Row
    OBVIOUS
  <2> QED
    BY <2>1 DEF Row
<1>3. h \in [1..Len(q) -> Projections]
  BY <1>2
<1>4. h \in Seq(Projections)
  BY <1>1, <1>3
<1>5. Len(h) = Len(q)
  BY <1>1, <1>4
<1> QED
  BY <1>5

LEMMA CommitPublishes ==
    ASSUME InductiveInvariant, NEW s \in Sessions, Commit(s)
    PROVE  Catalogue!Next
<1> DEFINE r == req[s].rev
           k == req[s].key
           n == Number(s)
<1>1. r \in Revisions /\ k \in Posts \cup {Full}
  BY CommitRequest DEF Requests
<1>2. revs \in Seq(Row) /\ revs' \in Seq(Row) /\ Len(revs) \in Nat
  <2>1. revs \in Seq(Row)
    BY DEF InductiveInvariant, TypeOK, Row
  <2> QED
    BY <2>1, CommitHistory
<1>3. /\ Len(History) = Len(revs) /\ Len(History)' = Len(revs')
      /\ \A m \in 1..Len(revs) : History[m] = revs[m].proj
      /\ \A m \in 1..Len(revs') : History'[m] = revs'[m].proj
  BY <1>2, HistoryLength DEF History
<1>4. master'.current \in {n, master.current}
      /\ master'.verified \in {master.verified, VerifiedAt[r]}
  BY CommitMaster
<1>5. Catalogue!RecordEvent(r, k, n)
  <2>1. \A e \in events : <<e.rev, e.key>> # <<r, k>>
    BY CommitRequest DEF EventsFor
  <2>2. /\ EventOf(s) \in events' /\ events' = events \cup {EventOf(s)}
        /\ <<EventOf(s).rev, EventOf(s).key, EventOf(s).number>> = <<r, k, n>>
    BY CommitMaster DEF EventOf
  <2>3. k # Full => k \in DOMAIN History'[n]
    BY <1>3, CommitRequest, CommitHistory DEF Sound, PostsIn
  <2> QED
    BY <2>1, <2>2, <2>3 DEF Catalogue!RecordEvent
<1>6. CASE match[s] = 0
  <2>1. /\ n = Len(revs) + 1 /\ Len(revs') = Len(revs) + 1
        /\ \A m \in 1..Len(revs) : revs'[m] = revs[m] /\ revs[m].proj # revs'[n].proj
    BY <1>6, CommitHistory
  <2>2. \A m \in 1..Len(History) : History'[m] = History[m] /\ History'[n] # History[m]
    BY <1>2, <1>3, <2>1
  <2>3. master'.current = n
    BY <1>6, CommitMaster DEF CurrentAfter, Number
  <2>4. History = <<>> => master'.verified = VerifiedAt[r]
    <3>1. History = <<>> => ~master.exists
      BY <1>2, <1>3 DEF InductiveInvariant, MasterWhole
    <3> QED
      BY <3>1, CommitMaster
  <2>5. Catalogue!PublishNew(r, k)
    BY <1>3, <1>4, <1>5, <2>1, <2>2, <2>3, <2>4 DEF Catalogue!PublishNew
  <2> QED
    BY <1>1, <2>5 DEF Catalogue!Next
<1>7. CASE match[s] # 0
  <2>1. revs' = revs /\ n \in 1..Len(revs)
    BY <1>7, CommitHistory
  <2>2. Catalogue!PublishAgain(r, k, n)
    BY <1>4, <1>5, <2>1 DEF Catalogue!PublishAgain, History
  <2>3. n \in 1..Len(History)
    BY <1>3, <2>1
  <2> QED
    BY <1>1, <2>2, <2>3 DEF Catalogue!Next
<1> QED
  BY <1>6, <1>7

\* Publications that overlap in any way keep the catalogue's promise.
THEOREM ImplementsCatalogue == Spec => CatalogueSpec
<1>1. Init => Catalogue!Init
  BY DEF Init, Catalogue!Init, NoMaster, History
<1>2. InductiveInvariant /\ [Next]_vars => [Catalogue!Next]_(Catalogue!vars)
  <2> SUFFICES ASSUME InductiveInvariant, [Next]_vars
               PROVE  Catalogue!Next \/ UNCHANGED Catalogue!vars
    OBVIOUS
  <2>1. CASE UNCHANGED rows
    BY <2>1 DEF rows, Catalogue!vars, History
  <2> QED
    BY <2>1, CommitPublishes, RowsChange
<1> QED
  BY <1>1, <1>2, PublicationInvariant, PTL DEF Spec, CatalogueSpec, Catalogue!Spec
=============================================================================
