------------------------- MODULE ReviewCasesProofs -------------------------
(***************************************************************************)
(* Proofs about ReviewCases, for any items, posts and sessions.            *)
(***************************************************************************)
EXTENDS ReviewCases, TLAPS

USE DEF None, Ledger!None

----------------------------------------------------------------------------
(* Lemmas about the operators of the model. *)

\* The precedence yields one of the four outcomes, never NULL.
LEMMA OutcomeIsOutcome ==
    ASSUME NEW given
    PROVE  OutcomeOf(given) \in Outcomes /\ OutcomeOf(given) # None
BY DEF OutcomeOf, Outcomes

\* Updating a row gives a row.
LEMMA UpdatedRow ==
    ASSUME NEW row \in Rows, NEW w, NEW o \in Outcomes \cup {None}
    PROVE  Updated(row, w, o) \in Rows
BY DEF Rows, Updated

\* An UPDATE of no column leaves the row as it was.
LEMMA UpdatedNothing ==
    ASSUME NEW row \in Rows, NEW o
    PROVE  Updated(row, {}, o) = row
BY DEF Rows, Updated

\* What a session sees of an item is a decision or nothing.
LEMMA SeenType ==
    ASSUME TypeOK, NEW s \in Sessions, NEW i \in Items
    PROVE  Seen(s, i) \in Decisions \cup {None}
BY DEF TypeOK, Seen, MaybeDecided

LEMMA AllowedType == \A i \in Items : Allowed(i) \subseteq Decisions
BY DEF Allowed, Decisions

\* Overriding a function at an argument in its domain, or at none.
LEMMA ExceptType ==
    ASSUME NEW S, NEW T, NEW f \in [S -> T], NEW x, NEW v, x \in S => v \in T
    PROVE  [f EXCEPT ![x] = v] \in [S -> T]
<1> DEFINE g == [f EXCEPT ![x] = v]
<1>1. g = [y \in S |-> IF y = x THEN v ELSE f[y]]
  OBVIOUS
<1>2. \A y \in S : (IF y = x THEN v ELSE f[y]) \in T
  OBVIOUS
<1> QED
  BY <1>1, <1>2

----------------------------------------------------------------------------
(* Type correctness. *)

\* Ending a transaction resets the session to well-typed values.
LEMMA FinishType ==
    ASSUME TypeOK, NEW s \in Sessions, Finish(s)
    PROVE  /\ lock' \in Sessions \cup {NoSession}
           /\ pc' \in [Sessions ->
                {"idle", "create", "resolve", "read", "flush", "count", "commit"}]
           /\ plan' \in [Sessions -> MaybeDecided]
           /\ cur' \in [Sessions -> Items \cup {None}]
           /\ mine' \in [Sessions -> MaybeDecided]
           /\ writes' \in [Sessions -> SUBSET {"start", "cancel", "resolve"}]
           /\ verdict' \in [Sessions -> Outcomes \cup {None}]
<1>1. NoPlan \in MaybeDecided
  BY DEF NoPlan, MaybeDecided
<1> QED
  BY <1>1 DEF TypeOK, Finish, Released, Goto

LEMMA TypeInit == Init => TypeOK
<1>1. NoPlan \in MaybeDecided
  BY DEF NoPlan, MaybeDecided
<1> QED
  BY <1>1 DEF Init, TypeOK, NoCase, Rows

LEMMA TypeRequest ==
    ASSUME TypeOK, NEW s \in Sessions, Request(s)
    PROVE  TypeOK'
<1>1. CASE BeginCreate(s)
  BY <1>1 DEF TypeOK, BeginCreate, Goto, rows
<1>2. CASE BeginStart(s)
  BY <1>2 DEF TypeOK, BeginStart, Goto, rows
<1>3. CASE BeginCancel(s)
  BY <1>3 DEF TypeOK, BeginCancel, Goto, rows
<1>4. CASE BeginResolve(s)
  BY <1>4 DEF TypeOK, BeginResolve, Goto, rows
<1>5. ASSUME NEW i \in Items, NEW d \in Decisions, BeginDecide(s, i, d)
      PROVE  TypeOK'
  <2>1. [plan[s] EXCEPT ![i] = d] \in MaybeDecided
    BY <1>5 DEF TypeOK, MaybeDecided
  <2> QED
    BY <2>1, <1>5 DEF TypeOK, BeginDecide, Goto, rows
<1>6. ASSUME NEW k \in Posts \cup {Shared}, BeginScope(s, k)
      PROVE  TypeOK'
  <2>1. PICK form \in [PendingIn(k) -> Decisions \ {"REQUEST_REVERIFICATION"}] :
          plan' = [plan EXCEPT ![s] =
                [i \in Items |-> IF i \in PendingIn(k) THEN form[i] ELSE None]]
    BY <1>6 DEF BeginScope
  <2>2. [i \in Items |-> IF i \in PendingIn(k) THEN form[i] ELSE None] \in MaybeDecided
    BY DEF MaybeDecided
  <2> QED
    BY <2>1, <2>2, <1>6 DEF TypeOK, BeginScope, Goto, rows
<1>7. ASSUME NEW k \in Posts, BeginQuick(s, k)
      PROVE  TypeOK'
  <2>1. [i \in Items |-> IF i \in PendingIn(k) THEN "APPROVE_AS_IS" ELSE None]
          \in MaybeDecided
    BY DEF MaybeDecided, Decisions
  <2> QED
    BY <2>1, <1>7 DEF TypeOK, BeginQuick, Goto
<1> QED
  BY <1>1, <1>2, <1>3, <1>4, <1>5, <1>6, <1>7 DEF Request

LEMMA TypeRollback ==
    ASSUME TypeOK, NEW s \in Sessions, Rollback(s)
    PROVE  TypeOK'
BY FinishType DEF Rollback, TypeOK

LEMMA TypeStep ==
    ASSUME TypeOK, NEW s \in Sessions, Step(s)
    PROVE  TypeOK'
<1>1. CASE CommitCreate(s)
  BY <1>1, FinishType DEF TypeOK, CommitCreate, Opened, NoCase, Rows
<1>2. CASE Resolve(s)
  BY <1>2, OutcomeIsOutcome DEF TypeOK, Resolve, SetOutcome, Goto, rows
<1>3. ASSUME NEW i \in Items, ReplayDecision(s, i)
      PROVE  TypeOK'
  <2>1. [plan[s] EXCEPT ![i] = None] \in MaybeDecided
    BY DEF TypeOK, MaybeDecided
  <2> QED
    BY <2>1, <1>3 DEF TypeOK, ReplayDecision, Goto, rows
<1>4. ASSUME NEW i \in Items, CheckItem(s, i)
      PROVE  TypeOK'
  BY <1>4 DEF TypeOK, CheckItem, Goto, rows
<1>5. CASE FlushDecision(s)
  <2>1. [mine[s] EXCEPT ![cur[s]] = plan[s][cur[s]]] \in MaybeDecided
    <3>1. cur[s] \in Items => plan[s][cur[s]] \in Decisions \cup {None}
      BY DEF TypeOK, MaybeDecided
    <3>2. mine[s] \in [Items -> Decisions \cup {None}]
      BY DEF TypeOK, MaybeDecided
    <3> QED
      BY <3>1, <3>2, ExceptType DEF MaybeDecided
  <2>2. [plan[s] EXCEPT ![cur[s]] = None] \in MaybeDecided
    BY DEF TypeOK, MaybeDecided
  <2> QED
    BY <2>1, <2>2, <1>5 DEF TypeOK, FlushDecision, Goto, rows
<1>6. CASE CountPending(s)
  BY <1>6, OutcomeIsOutcome DEF TypeOK, CountPending, SetOutcome, Goto, rows
<1>7. CASE Commit(s)
  <2>1. CaseSeen(s) \in Rows
    BY UpdatedRow DEF TypeOK, CaseSeen
  <2>2. [i \in Items |-> Seen(s, i)] \in MaybeDecided
    BY SeenType DEF MaybeDecided
  <2> QED
    BY <1>7, <2>1, <2>2, FinishType DEF TypeOK, Commit
<1>8. CASE Raise(s)
  BY <1>8, TypeRollback DEF Raise
<1> QED
  BY <1>1, <1>2, <1>3, <1>4, <1>5, <1>6, <1>7, <1>8 DEF Step

LEMMA TypeNext == TypeOK /\ [Next]_vars => TypeOK'
<1> SUFFICES ASSUME TypeOK, [Next]_vars PROVE TypeOK'
  OBVIOUS
<1>1. CASE UNCHANGED vars
  BY <1>1 DEF vars, TypeOK
<1>2. ASSUME NEW s \in Sessions,
             Request(s) \/ Step(s) \/ BreakDeadlock(s) \/ Lose(s)
      PROVE  TypeOK'
  BY <1>2, TypeRequest, TypeStep, TypeRollback DEF BreakDeadlock, Lose
<1> QED
  BY <1>1, <1>2 DEF Next

\* Every row and every request variable keeps its type.
THEOREM TypeCorrect == Spec => []TypeOK
<1> QED
  BY TypeInit, TypeNext, PTL DEF Spec

----------------------------------------------------------------------------
(* The inductive invariant: decisions, keys and verdicts of overlapping    *)
(* requests stay consistent.                                               *)

LEMMA InitInvariant == Init => InductiveInvariant
<1> SUFFICES ASSUME Init PROVE InductiveInvariant
  OBVIOUS
<1>1. TypeOK /\ CaseChecked /\ OutcomeFollowsDecisions
  BY TypeInit DEF Init, CaseChecked, OutcomeFollowsDecisions, NoCase
<1>2. \A s \in Sessions, i \in Items : mine[s] = NoPlan /\ mine[s][i] = None
                                       /\ plan[s][i] = None
  BY DEF Init, NoPlan
<1>3. \A s \in Sessions, i \in Items : KeyOf(s, i)
  BY <1>2 DEF KeyOf, HoldsKey
<1>4. \A s \in Sessions : ShapeOf(s) /\ LockOf(s) /\ VerdictOf(s)
  BY <1>2, SessionsAssumption DEF Init, ShapeOf, LockOf, VerdictOf
<1> QED
  BY <1>1, <1>3, <1>4 DEF InductiveInvariant

\* The case row, the decisions and a session's own variables decide whether
\* its part of the invariant holds.
LEMMA OtherSessions ==
    ASSUME InductiveInvariant, NEW t \in Sessions,
           case' = case, decision' = decision,
           pc'[t] = pc[t], plan'[t] = plan[t], cur'[t] = cur[t], mine'[t] = mine[t],
           writes'[t] = writes[t], verdict'[t] = verdict[t], (lock' = t) <=> (lock = t)
    PROVE  ShapeOf(t)' /\ LockOf(t)' /\ VerdictOf(t)'
<1>1. ShapeOf(t) /\ LockOf(t) /\ VerdictOf(t)
  BY DEF InductiveInvariant
<1>2. ShapeOf(t)'
  BY <1>1 DEF ShapeOf
<1>3. LockOf(t)'
  BY <1>1 DEF LockOf
<1>4. \A i \in Items : Seen(t, i)' = Seen(t, i)
  BY DEF Seen
<1>5. {Seen(t, i) : i \in Items}' = {Seen(t, i) : i \in Items}
  BY <1>4
<1>6. VerdictOf(t)'
  BY <1>1, <1>4, <1>5 DEF VerdictOf, NothingPending
<1> QED
  BY <1>2, <1>3, <1>6

LEMMA InvariantRequest ==
    ASSUME InductiveInvariant, NEW s \in Sessions, Request(s)
    PROVE  InductiveInvariant'
<1> USE DEF InductiveInvariant
<1>1. TypeOK'
  BY TypeRequest
<1>2. case' = case /\ decision' = decision /\ mine' = mine /\ verdict' = verdict /\ cur' = cur
  BY DEF Request, BeginCreate, BeginStart, BeginCancel, BeginResolve, BeginDecide,
         BeginScope, BeginQuick, rows
<1>3. CaseChecked' /\ OutcomeFollowsDecisions'
  BY <1>2 DEF CaseChecked, OutcomeFollowsDecisions, LifecycleCheck
<1>4. ShapeOf(s) /\ LockOf(s)
  OBVIOUS
<1>5. Idle(s) /\ writes[s] = {} /\ mine[s] = NoPlan /\ lock # s
  BY <1>4 DEF Request, BeginCreate, BeginStart, BeginCancel, BeginResolve, BeginDecide,
         BeginScope, BeginQuick, Idle, ShapeOf, LockOf
<1>6. \A t \in Sessions : t # s =>
        /\ pc'[t] = pc[t] /\ plan'[t] = plan[t] /\ writes'[t] = writes[t]
        /\ (lock' = t) <=> (lock = t)
  BY SessionsAssumption DEF TypeOK, Request, BeginCreate, BeginStart, BeginCancel,
         BeginResolve, BeginDecide, BeginScope, BeginQuick, rows, Goto
<1>7. ASSUME NEW t \in Sessions, t # s
      PROVE  ShapeOf(t)' /\ LockOf(t)' /\ VerdictOf(t)'
  <2>1. /\ pc'[t] = pc[t] /\ plan'[t] = plan[t] /\ cur'[t] = cur[t]
        /\ mine'[t] = mine[t] /\ writes'[t] = writes[t] /\ verdict'[t] = verdict[t]
        /\ (lock' = t) <=> (lock = t)
    BY <1>2, <1>6, <1>7
  <2> QED
    BY <1>2, <2>1, OtherSessions
<1>8. /\ pc'[s] \in {"create", "commit", "resolve", "read"}
      /\ pc'[s] \in {"create", "resolve"} => writes'[s] = {}
      /\ pc'[s] # "create" => case.status # None
      /\ "cancel" \in writes'[s] => pc'[s] = "commit" /\ writes'[s] = {"cancel"}
      /\ "start" \in writes'[s] /\ lock' # s => pc'[s] = "commit" /\ writes'[s] = {"start"}
      /\ "resolve" \notin writes'[s]
      /\ lock' = s => /\ pc'[s] = "read" /\ "cancel" \notin writes'[s]
                      /\ case.status \in {"QUEUED", "IN_REVIEW"}
                      /\ case.status = "QUEUED" => "start" \in writes'[s]
  BY <1>5 DEF TypeOK, Request, BeginCreate, BeginStart, BeginCancel,
         BeginResolve, BeginDecide, BeginScope, BeginQuick, rows, Goto
<1>9. \A i \in Items : plan'[s][i] \in Allowed(i) \cup {None}
  <2>1. \A i \in Items : plan[s][i] \in Allowed(i) \cup {None}
    BY <1>4 DEF ShapeOf
  <2>2. CASE BeginCreate(s) \/ BeginStart(s) \/ BeginCancel(s) \/ BeginResolve(s)
    BY <2>1, <2>2 DEF BeginCreate, BeginStart, BeginCancel, BeginResolve
  <2>3. ASSUME NEW j \in Items, NEW d \in Decisions, BeginDecide(s, j, d)
        PROVE  \A i \in Items : plan'[s][i] \in Allowed(i) \cup {None}
    BY <2>1, <2>3 DEF BeginDecide, TypeOK, MaybeDecided
  <2>4. ASSUME NEW k \in Posts \cup {Shared}, BeginScope(s, k)
        PROVE  \A i \in Items : plan'[s][i] \in Allowed(i) \cup {None}
    <3>1. PICK form \in [PendingIn(k) -> Decisions \ {"REQUEST_REVERIFICATION"}] :
            /\ FormIsValid(k, form)
            /\ plan' = [plan EXCEPT ![s] =
                  [i \in Items |-> IF i \in PendingIn(k) THEN form[i] ELSE None]]
      BY <2>4 DEF BeginScope
    <3>2. plan'[s] = [i \in Items |-> IF i \in PendingIn(k) THEN form[i] ELSE None]
      BY <3>1 DEF TypeOK
    <3>3. \A i \in PendingIn(k) : form[i] \in Allowed(i)
      BY <3>1 DEF FormIsValid
    <3> QED
      BY <3>2, <3>3
  <2>5. ASSUME NEW k \in Posts, BeginQuick(s, k)
        PROVE  \A i \in Items : plan'[s][i] \in Allowed(i) \cup {None}
    <3>1. plan'[s] = [i \in Items |-> IF i \in PendingIn(k) THEN "APPROVE_AS_IS" ELSE None]
      BY <2>5 DEF BeginQuick, TypeOK
    <3>2. \A i \in Items : "APPROVE_AS_IS" \in Allowed(i)
      BY DEF Allowed, Decisions
    <3> QED
      BY <3>1, <3>2
  <2> QED
    BY <2>2, <2>3, <2>4, <2>5 DEF Request
<1>10. ShapeOf(s)'
  <2>1. \A i \in Items : mine'[s][i] \in Allowed(i) \cup {None}
    BY <1>2, <1>4 DEF ShapeOf
  <2>2. mine'[s] = NoPlan'
    BY <1>2, <1>5 DEF NoPlan
  <2> QED
    BY <1>2, <1>8, <1>9, <2>1, <2>2 DEF ShapeOf
<1>11. LockOf(s)' /\ VerdictOf(s)'
  BY <1>2, <1>8 DEF LockOf, VerdictOf
<1>12. \A t \in Sessions, i \in Items : KeyOf(t, i)'
  BY <1>2, <1>5, <1>6 DEF KeyOf, HoldsKey, NoPlan
<1> QED
  BY <1>1, <1>3, <1>7, <1>10, <1>11, <1>12

\* A session whose transaction is over satisfies its part, and leaves the
\* other sessions' variables alone.
LEMMA FinishedSession ==
    ASSUME InductiveInvariant, NEW s \in Sessions, Finish(s)
    PROVE  /\ ShapeOf(s)' /\ LockOf(s)' /\ VerdictOf(s)'
           /\ \A i \in Items : mine'[s][i] = None
           /\ \A t \in Sessions : t # s =>
                /\ pc'[t] = pc[t] /\ plan'[t] = plan[t] /\ cur'[t] = cur[t]
                /\ mine'[t] = mine[t] /\ writes'[t] = writes[t]
                /\ verdict'[t] = verdict[t]
                /\ (lock' = t) <=> (lock = t)
<1>1. /\ pc'[s] = "idle" /\ plan'[s] = NoPlan /\ mine'[s] = NoPlan
      /\ writes'[s] = {} /\ lock' # s
  BY SessionsAssumption DEF InductiveInvariant, TypeOK, Finish, Released, Goto
<1>2. \A i \in Items : mine'[s][i] = None /\ plan'[s][i] = None
  BY <1>1 DEF NoPlan
<1>3. mine'[s] = NoPlan'
  BY <1>1 DEF NoPlan
<1>4. ShapeOf(s)' /\ LockOf(s)' /\ VerdictOf(s)'
  BY <1>1, <1>2, <1>3 DEF ShapeOf, LockOf, VerdictOf
<1>5. \A t \in Sessions : t # s =>
        /\ pc'[t] = pc[t] /\ plan'[t] = plan[t] /\ cur'[t] = cur[t]
        /\ mine'[t] = mine[t] /\ writes'[t] = writes[t]
        /\ verdict'[t] = verdict[t]
        /\ (lock' = t) <=> (lock = t)
  BY SessionsAssumption DEF InductiveInvariant, TypeOK, Finish, Released, Goto
<1> QED
  BY <1>2, <1>4, <1>5

LEMMA InvariantRollback ==
    ASSUME InductiveInvariant, NEW s \in Sessions, Rollback(s)
    PROVE  InductiveInvariant'
<1>1. Finish(s) /\ case' = case /\ decision' = decision
  BY DEF Rollback
<1>2. TypeOK'
  BY TypeRollback DEF InductiveInvariant
<1>3. CaseChecked' /\ OutcomeFollowsDecisions'
  BY <1>1 DEF InductiveInvariant, CaseChecked, OutcomeFollowsDecisions, LifecycleCheck
<1>4. ASSUME NEW t \in Sessions
      PROVE  ShapeOf(t)' /\ LockOf(t)' /\ VerdictOf(t)'
  <2>1. CASE t = s
    BY <1>1, <2>1, FinishedSession
  <2>2. CASE t # s
    <3>1. /\ pc'[t] = pc[t] /\ plan'[t] = plan[t] /\ cur'[t] = cur[t]
          /\ mine'[t] = mine[t] /\ writes'[t] = writes[t] /\ verdict'[t] = verdict[t]
          /\ (lock' = t) <=> (lock = t)
      BY <1>1, <2>2, FinishedSession
    <3> QED
      BY <1>1, <3>1, OtherSessions
  <2> QED
    BY <2>1, <2>2
<1>5. ASSUME NEW t \in Sessions, NEW i \in Items
      PROVE  KeyOf(t, i)'
  <2>1. KeyOf(t, i)
    BY DEF InductiveInvariant
  <2> QED
    BY <1>1, <2>1, FinishedSession DEF KeyOf, HoldsKey
<1> QED
  BY <1>2, <1>3, <1>4, <1>5 DEF InductiveInvariant

LEMMA InvariantCreate ==
    ASSUME InductiveInvariant, NEW s \in Sessions, CommitCreate(s)
    PROVE  InductiveInvariant'
<1>1. Finish(s) /\ case' = Opened /\ decision' = decision /\ case.status = None
  BY DEF CommitCreate
<1>2. TypeOK'
  BY TypeStep DEF InductiveInvariant, Step
<1>3. CaseChecked' /\ OutcomeFollowsDecisions'
  BY <1>1 DEF CaseChecked, OutcomeFollowsDecisions, LifecycleCheck, Opened, NoCase
<1>4. ASSUME NEW t \in Sessions
      PROVE  pc[t] \in {"idle", "create"} /\ writes[t] = {} /\ mine[t] = NoPlan /\ lock # t
  <2>1. ShapeOf(t) /\ LockOf(t)
    BY DEF InductiveInvariant
  <2> QED
    BY <1>1, <2>1 DEF ShapeOf, LockOf
<1>5. ASSUME NEW t \in Sessions
      PROVE  ShapeOf(t)' /\ LockOf(t)' /\ VerdictOf(t)'
  <2>1. CASE t = s
    BY <1>1, <2>1, FinishedSession
  <2>2. CASE t # s
    <3>1. /\ pc'[t] = pc[t] /\ plan'[t] = plan[t]
          /\ mine'[t] = mine[t] /\ writes'[t] = writes[t] /\ lock' # t
      BY <1>1, <1>4, <2>2, FinishedSession
    <3>2. mine'[t] = NoPlan'
      BY <1>4, <3>1 DEF NoPlan
    <3>3. ShapeOf(t)
      BY DEF InductiveInvariant
    <3> QED
      BY <1>4, <3>1, <3>2, <3>3 DEF ShapeOf, LockOf, VerdictOf
  <2> QED
    BY <2>1, <2>2
<1>6. ASSUME NEW t \in Sessions, NEW i \in Items
      PROVE  KeyOf(t, i)'
  <2>1. mine'[t][i] = None
    BY <1>1, <1>4, FinishedSession DEF NoPlan
  <2> QED
    BY <2>1 DEF KeyOf, HoldsKey
<1> QED
  BY <1>2, <1>3, <1>5, <1>6 DEF InductiveInvariant

\* A step that touches neither the rows nor another session keeps the
\* invariant if it keeps the session's own part of it.
LEMMA InvariantLocal ==
    ASSUME InductiveInvariant, TypeOK', NEW s \in Sessions,
           case' = case, decision' = decision, lock' = lock,
           \A t \in Sessions : t # s =>
                /\ pc'[t] = pc[t] /\ plan'[t] = plan[t] /\ cur'[t] = cur[t]
                /\ mine'[t] = mine[t] /\ writes'[t] = writes[t]
                /\ verdict'[t] = verdict[t],
           \A i \in Items :
                \/ mine'[s][i] = mine[s][i]
                \/ /\ \A t \in Sessions : t # s => ~HoldsKey(t, i)
                   /\ decision[i] = None
                   /\ case.started \/ lock = s,
           ShapeOf(s)', LockOf(s)', VerdictOf(s)'
    PROVE  InductiveInvariant'
<1>1. CaseChecked' /\ OutcomeFollowsDecisions'
  BY DEF InductiveInvariant, CaseChecked, OutcomeFollowsDecisions, LifecycleCheck
<1>2. ASSUME NEW t \in Sessions
      PROVE  ShapeOf(t)' /\ LockOf(t)' /\ VerdictOf(t)'
  <2>1. CASE t = s
    BY <2>1
  <2>2. CASE t # s
    <3>1. /\ pc'[t] = pc[t] /\ plan'[t] = plan[t] /\ cur'[t] = cur[t]
          /\ mine'[t] = mine[t] /\ writes'[t] = writes[t] /\ verdict'[t] = verdict[t]
          /\ (lock' = t) <=> (lock = t)
      BY <2>2
    <3> QED
      BY <3>1, OtherSessions
  <2> QED
    BY <2>1, <2>2
<1>3. ASSUME NEW t \in Sessions, NEW i \in Items
      PROVE  KeyOf(t, i)'
  <2>1. KeyOf(t, i) /\ KeyOf(s, i)
    BY DEF InductiveInvariant
  <2>2. CASE mine'[s][i] = mine[s][i]
    <3>1. \A u \in Sessions : mine'[u][i] = mine[u][i]
      BY <2>2
    <3> QED
      BY <2>1, <3>1 DEF KeyOf, HoldsKey
  <2>3. CASE /\ \A u \in Sessions : u # s => ~HoldsKey(u, i)
             /\ decision[i] = None
             /\ case.started \/ lock = s
    <3>1. \A u \in Sessions : u # s => mine'[u][i] = None
      BY <2>3 DEF HoldsKey
    <3> QED
      BY <2>3, <3>1 DEF KeyOf, HoldsKey
  <2> QED
    BY <2>2, <2>3
<1> QED
  BY <1>1, <1>2, <1>3 DEF InductiveInvariant

LEMMA InvariantResolve ==
    ASSUME InductiveInvariant, NEW s \in Sessions, Resolve(s)
    PROVE  InductiveInvariant'
<1>1. TypeOK'
  BY TypeStep DEF InductiveInvariant, Step
<1>2. ShapeOf(s) /\ LockOf(s)
  BY DEF InductiveInvariant
<1>3. /\ pc'[s] = "commit" /\ writes'[s] = {"resolve"}
      /\ verdict'[s] = OutcomeOf({Seen(s, i) : i \in Items})
      /\ mine' = mine /\ plan' = plan /\ case' = case /\ decision' = decision
      /\ lock' = lock /\ lock # s
  BY <1>2 DEF Resolve, SetOutcome, Goto, rows, InductiveInvariant, TypeOK, ShapeOf, LockOf
<1>4. {Seen(s, i) : i \in Items}' = {Seen(s, i) : i \in Items}
  BY <1>3 DEF Seen
<1>5. VerdictOf(s)'
  <2>1. NothingPending(s)'
    BY <1>3 DEF Resolve, NothingPending, Seen
  <2> QED
    BY <1>3, <1>4, <2>1 DEF VerdictOf
<1>6. ShapeOf(s)' /\ LockOf(s)'
  BY <1>2, <1>3 DEF Resolve, ShapeOf, LockOf
<1>7. \A t \in Sessions : t # s =>
        /\ pc'[t] = pc[t] /\ plan'[t] = plan[t] /\ cur'[t] = cur[t]
        /\ mine'[t] = mine[t] /\ writes'[t] = writes[t] /\ verdict'[t] = verdict[t]
  BY DEF Resolve, SetOutcome, Goto, rows, InductiveInvariant, TypeOK
<1> QED
  BY <1>1, <1>3, <1>5, <1>6, <1>7, InvariantLocal

LEMMA InvariantReplay ==
    ASSUME InductiveInvariant, NEW s \in Sessions, NEW j \in Items, ReplayDecision(s, j)
    PROVE  InductiveInvariant'
<1>1. TypeOK'
  BY TypeStep DEF InductiveInvariant, Step
<1>2. ShapeOf(s) /\ LockOf(s) /\ VerdictOf(s)
  BY DEF InductiveInvariant
<1>3. /\ pc[s] = "read" /\ pc'[s] \in {"read", "commit"}
      /\ mine' = mine /\ writes' = writes /\ verdict' = verdict /\ cur' = cur
      /\ case' = case /\ decision' = decision /\ lock' = lock
  BY DEF ReplayDecision, Goto, rows, InductiveInvariant, TypeOK
<1>4. \A i \in Items : plan'[s][i] = plan[s][i] \/ plan'[s][i] = None
  BY DEF ReplayDecision, InductiveInvariant, TypeOK, MaybeDecided
<1>5. ShapeOf(s)' /\ LockOf(s)'
  BY <1>2, <1>3, <1>4 DEF ShapeOf, LockOf
<1>6. VerdictOf(s)'
  <2>1. {Seen(s, i) : i \in Items}' = {Seen(s, i) : i \in Items}
    BY <1>3 DEF Seen
  <2>2. NothingPending(s)' <=> NothingPending(s)
    BY <1>3 DEF NothingPending, Seen
  <2> QED
    BY <1>2, <1>3, <2>1, <2>2 DEF VerdictOf
<1>7. \A t \in Sessions : t # s => pc'[t] = pc[t] /\ plan'[t] = plan[t]
  BY DEF ReplayDecision, Goto, InductiveInvariant, TypeOK
<1> QED
  BY <1>1, <1>3, <1>5, <1>6, <1>7, InvariantLocal

LEMMA InvariantCheck ==
    ASSUME InductiveInvariant, NEW s \in Sessions, NEW j \in Items, CheckItem(s, j)
    PROVE  InductiveInvariant'
<1>1. TypeOK'
  BY TypeStep DEF InductiveInvariant, Step
<1>2. ShapeOf(s) /\ LockOf(s) /\ VerdictOf(s)
  BY DEF InductiveInvariant
<1>3. /\ pc[s] = "read" /\ pc'[s] = "flush" /\ cur'[s] = j /\ plan[s][j] # None
      /\ mine' = mine /\ writes' = writes /\ verdict' = verdict /\ plan' = plan
      /\ case' = case /\ decision' = decision /\ lock' = lock
  BY DEF CheckItem, Todo, Goto, rows, InductiveInvariant, TypeOK
<1>4. "resolve" \notin writes[s]
  BY <1>2 DEF CheckItem, VerdictOf, NothingPending
<1>5. case.started \/ lock = s
  <2>1. CaseSeen(s).status = "IN_REVIEW"
    BY DEF CheckItem
  <2>2. CASE writes[s] = {}
    <3>1. case.status = "IN_REVIEW"
      BY <2>1, <2>2, UpdatedNothing DEF InductiveInvariant, TypeOK, CaseSeen
    <3> QED
      BY <3>1 DEF InductiveInvariant, CaseChecked, LifecycleCheck
  <2>3. CASE writes[s] # {}
    <3>1. "start" \in writes[s]
      BY <1>2, <1>3, <1>4, <2>3 DEF InductiveInvariant, TypeOK, ShapeOf
    <3> QED
      BY <1>2, <1>3, <3>1 DEF ShapeOf
  <2> QED
    BY <2>2, <2>3
<1>6. ShapeOf(s)' /\ LockOf(s)'
  BY <1>2, <1>3, <1>4, <1>5 DEF ShapeOf, LockOf
<1>7. VerdictOf(s)'
  BY <1>3, <1>4 DEF VerdictOf
<1>8. \A t \in Sessions : t # s => pc'[t] = pc[t] /\ cur'[t] = cur[t]
  BY DEF CheckItem, Goto, InductiveInvariant, TypeOK
<1> QED
  BY <1>1, <1>3, <1>6, <1>7, <1>8, InvariantLocal

LEMMA InvariantFlush ==
    ASSUME InductiveInvariant, NEW s \in Sessions, FlushDecision(s)
    PROVE  InductiveInvariant'
<1> DEFINE c == cur[s]
<1>1. TypeOK'
  BY TypeStep DEF InductiveInvariant, Step
<1>2. ShapeOf(s) /\ LockOf(s)
  BY DEF InductiveInvariant
<1>3. /\ pc[s] = "flush" /\ pc'[s] = "count"
      /\ writes' = writes /\ verdict' = verdict
      /\ case' = case /\ decision' = decision /\ lock' = lock
  BY DEF FlushDecision, Goto, rows, InductiveInvariant, TypeOK
<1>4. /\ c \in Items /\ plan[s][c] # None /\ decision[c] = None
      /\ case.started \/ lock = s
      /\ "resolve" \notin writes[s]
  BY <1>2, <1>3 DEF ShapeOf, FlushDecision
<1>5. \A t \in Sessions : t # s => ~HoldsKey(t, c)
  BY <1>3 DEF FlushDecision, Waiting, WaitsFor
<1>6. \A i \in Items : /\ mine'[s][i] = IF i = c THEN plan[s][c] ELSE mine[s][i]
                       /\ plan'[s][i] = IF i = c THEN None ELSE plan[s][i]
  <2>1. mine[s] \in MaybeDecided /\ plan[s] \in MaybeDecided
    BY DEF InductiveInvariant, TypeOK
  <2>2. /\ mine'[s] = [mine[s] EXCEPT ![c] = plan[s][c]]
        /\ plan'[s] = [plan[s] EXCEPT ![c] = None]
    BY DEF FlushDecision, InductiveInvariant, TypeOK
  <2> QED
    BY <2>1, <2>2 DEF MaybeDecided
<1>7. ShapeOf(s)' /\ LockOf(s)'
  <2>1. \A i \in Items : /\ plan'[s][i] \in Allowed(i) \cup {None}
                         /\ mine'[s][i] \in Allowed(i) \cup {None}
    BY <1>2, <1>4, <1>6 DEF ShapeOf
  <2> QED
    BY <1>2, <1>3, <2>1 DEF ShapeOf, LockOf
<1>8. VerdictOf(s)'
  BY <1>3, <1>4 DEF VerdictOf
<1>9. \A t \in Sessions : t # s =>
        /\ pc'[t] = pc[t] /\ cur'[t] = cur[t] /\ plan'[t] = plan[t] /\ mine'[t] = mine[t]
  BY DEF FlushDecision, Goto, InductiveInvariant, TypeOK
<1>10. \A i \in Items :
          \/ mine'[s][i] = mine[s][i]
          \/ /\ \A t \in Sessions : t # s => ~HoldsKey(t, i)
             /\ decision[i] = None
             /\ case.started \/ lock = s
  BY <1>4, <1>5, <1>6
<1> HIDE DEF c
<1> QED
  BY <1>1, <1>3, <1>7, <1>8, <1>9, <1>10, InvariantLocal

LEMMA InvariantCount ==
    ASSUME InductiveInvariant, NEW s \in Sessions, CountPending(s)
    PROVE  InductiveInvariant'
<1>1. TypeOK'
  BY TypeStep DEF InductiveInvariant, Step
<1>2. ShapeOf(s) /\ LockOf(s) /\ VerdictOf(s)
  BY DEF InductiveInvariant
<1>3. /\ pc[s] = "count" /\ pc'[s] \in {"read", "commit"}
      /\ mine' = mine /\ plan' = plan /\ cur' = cur
      /\ case' = case /\ decision' = decision /\ lock' = lock
  BY DEF CountPending, Goto, rows, InductiveInvariant, TypeOK
<1>4. \/ /\ writes'[s] = writes[s] \cup {"resolve"}
         /\ verdict'[s] = OutcomeOf({Seen(s, i) : i \in Items})
         /\ NothingPending(s)
      \/ writes' = writes /\ verdict' = verdict
  BY DEF CountPending, SetOutcome, InductiveInvariant, TypeOK
<1>5. ShapeOf(s)' /\ LockOf(s)'
  BY <1>2, <1>3, <1>4 DEF ShapeOf, LockOf
<1>6. VerdictOf(s)'
  <2>1. {Seen(s, i) : i \in Items}' = {Seen(s, i) : i \in Items}
    BY <1>3 DEF Seen
  <2>2. NothingPending(s)' <=> NothingPending(s)
    BY <1>3 DEF NothingPending, Seen
  <2> QED
    BY <1>2, <1>4, <2>1, <2>2 DEF VerdictOf
<1>7. \A t \in Sessions : t # s =>
        pc'[t] = pc[t] /\ writes'[t] = writes[t] /\ verdict'[t] = verdict[t]
  BY DEF CountPending, SetOutcome, Goto, InductiveInvariant, TypeOK
<1> QED
  BY <1>1, <1>3, <1>5, <1>6, <1>7, InvariantLocal

\* What a committed transaction leaves of a row that was there before.
LEMMA CommittedRow ==
    ASSUME InductiveInvariant, NEW s \in Sessions, Commit(s)
    PROVE  /\ case.status # None
           /\ case' \in Rows
           /\ case'.status # None
           /\ case.started => case'.started
           /\ CaseChecked'
           /\ writes[s] = {} => case' = case
           /\ writes[s] # {} => LifecycleCheck(case')
           /\ \A t \in Sessions : t # s /\ lock = t => writes[s] = {}
           /\ \A i \in Items : decision'[i] = Seen(s, i)
<1>1. ShapeOf(s) /\ TypeOK /\ CaseChecked
  BY DEF InductiveInvariant
<1>2. case.status # None
  BY <1>1 DEF Commit, ShapeOf
<1>3. case' \in Rows /\ (case.started => case'.started)
  BY <1>1, UpdatedRow DEF Commit, CaseSeen, Updated, TypeOK
<1>4. writes[s] = {} => case' = case
  BY <1>1, UpdatedNothing DEF Commit, CaseSeen, TypeOK
<1>5. writes[s] # {} => LifecycleCheck(case')
  BY DEF Commit
<1>6. CaseChecked' /\ case'.status # None
  <2>1. CASE writes[s] = {}
    BY <1>1, <1>2, <1>4, <2>1 DEF CaseChecked, LifecycleCheck
  <2>2. CASE writes[s] # {}
    <3>1. LifecycleCheck(case')
      BY <1>5, <2>2
    <3>2. case'.status # None
      BY <3>1 DEF LifecycleCheck
    <3> QED
      BY <3>1, <3>2 DEF CaseChecked, LifecycleCheck
  <2> QED
    BY <2>1, <2>2
<1>7. \A t \in Sessions : t # s /\ lock = t => writes[s] = {}
  BY DEF Commit, Waiting, WaitsFor
<1>8. \A i \in Items : decision'[i] = Seen(s, i)
  BY DEF Commit
<1> QED
  BY <1>2, <1>3, <1>4, <1>5, <1>6, <1>7, <1>8

\* Because an open key belongs to an undecided item, a session sees what is
\* committed wherever something is.
LEMMA CommittedIsSeen ==
    ASSUME InductiveInvariant, NEW s \in Sessions, NEW i \in Items, decision[i] # None
    PROVE  Seen(s, i) = decision[i]
BY DEF InductiveInvariant, KeyOf, HoldsKey, Seen

\* The commit of one session's decisions changes nothing of what another
\* one sees of the items it has decided itself or seen decided.
LEMMA CommitLeavesVerdicts ==
    ASSUME InductiveInvariant, NEW s \in Sessions, Commit(s),
           NEW t \in Sessions, t # s, NothingPending(t), mine'[t] = mine[t]
    PROVE  \A i \in Items : Seen(t, i)' = Seen(t, i)
<1> SUFFICES ASSUME NEW i \in Items PROVE Seen(t, i)' = Seen(t, i)
  OBVIOUS
<1>1. decision'[i] = Seen(s, i)
  BY CommittedRow
<1>2. CASE decision[i] # None
  <2>1. Seen(s, i) = decision[i] /\ Seen(t, i) = decision[i]
    BY <1>2, CommittedIsSeen
  <2> QED
    BY <1>1, <2>1 DEF Seen
<1>3. CASE decision[i] = None
  <2>1. HoldsKey(t, i)
    BY <1>3 DEF NothingPending, Seen, HoldsKey
  <2>2. ~HoldsKey(s, i)
    BY <2>1 DEF InductiveInvariant, KeyOf
  <2> QED
    BY <1>1, <1>3, <2>2 DEF Seen, HoldsKey
<1> QED
  BY <1>2, <1>3

LEMMA InvariantCommit ==
    ASSUME InductiveInvariant, NEW s \in Sessions, Commit(s)
    PROVE  InductiveInvariant'
<1>1. TypeOK'
  BY TypeStep DEF InductiveInvariant, Step
<1>2. Finish(s)
  BY DEF Commit
<1>3. /\ case.status # None /\ case'.status # None
      /\ case.started => case'.started
      /\ CaseChecked'
      /\ writes[s] = {} => case' = case
      /\ \A t \in Sessions : t # s /\ lock = t => writes[s] = {}
      /\ \A i \in Items : decision'[i] = Seen(s, i)
  BY CommittedRow
<1>4. ASSUME NEW t \in Sessions, t # s
      PROVE  /\ pc'[t] = pc[t] /\ plan'[t] = plan[t] /\ cur'[t] = cur[t]
             /\ mine'[t] = mine[t] /\ writes'[t] = writes[t]
             /\ verdict'[t] = verdict[t]
             /\ (lock' = t) <=> (lock = t)
             /\ ShapeOf(t) /\ LockOf(t) /\ VerdictOf(t)
  BY <1>2, <1>4, FinishedSession DEF InductiveInvariant
<1>5. ASSUME NEW t \in Sessions
      PROVE  ShapeOf(t)' /\ LockOf(t)' /\ VerdictOf(t)'
  <2>1. CASE t = s
    BY <1>2, <2>1, FinishedSession
  <2>2. CASE t # s
    <3>1. ShapeOf(t)'
      BY <1>3, <1>4, <2>2 DEF ShapeOf
    <3>2. LockOf(t)'
      BY <1>3, <1>4, <2>2 DEF LockOf
    <3>3. VerdictOf(t)'
      <4> SUFFICES ASSUME "resolve" \in writes'[t]
                   PROVE  NothingPending(t)' /\
                          verdict'[t] = OutcomeOf({Seen(t, i) : i \in Items}')
        BY DEF VerdictOf
      <4>1. NothingPending(t) /\ verdict[t] = OutcomeOf({Seen(t, i) : i \in Items})
        BY <1>4, <2>2 DEF VerdictOf
      <4>2. \A i \in Items : Seen(t, i)' = Seen(t, i)
        BY <1>4, <2>2, <4>1, CommitLeavesVerdicts
      <4>3. {Seen(t, i) : i \in Items}' = {Seen(t, i) : i \in Items}
        BY <4>2
      <4> QED
        BY <1>4, <2>2, <4>1, <4>2, <4>3 DEF NothingPending
    <3> QED
      BY <3>1, <3>2, <3>3
  <2> QED
    BY <2>1, <2>2
<1>6. ASSUME NEW t \in Sessions, NEW i \in Items
      PROVE  KeyOf(t, i)'
  <2> SUFFICES ASSUME HoldsKey(t, i)' PROVE KeyOf(t, i)'
    BY DEF KeyOf
  <2>1. t # s
    BY <1>2, FinishedSession DEF HoldsKey
  <2>2. HoldsKey(t, i) /\ KeyOf(t, i)
    BY <1>4, <2>1 DEF HoldsKey, InductiveInvariant
  <2>3. \A u \in Sessions : HoldsKey(u, i)' => u = t
    <3> SUFFICES ASSUME NEW u \in Sessions, HoldsKey(u, i)' PROVE u = t
      OBVIOUS
    <3>1. u # s
      BY <1>2, FinishedSession DEF HoldsKey
    <3>2. HoldsKey(u, i)
      BY <1>4, <3>1 DEF HoldsKey
    <3> QED
      BY <2>2, <3>2 DEF KeyOf
  <2>4. decision'[i] = None
    <3>1. decision[i] = None /\ ~HoldsKey(s, i)
      BY <2>1, <2>2 DEF KeyOf
    <3> QED
      BY <1>3, <3>1 DEF Seen, HoldsKey
  <2>5. case'.started \/ lock' = t
    BY <1>3, <1>4, <2>1, <2>2 DEF KeyOf
  <2> QED
    BY <2>3, <2>4, <2>5 DEF KeyOf
<1>7. OutcomeFollowsDecisions'
  <2> SUFFICES ASSUME case'.status = "RESOLVED"
               PROVE  /\ \A i \in Items : decision'[i] # None
                      /\ case'.outcome = OutcomeOf({decision[i] : i \in Items}')
    BY DEF OutcomeFollowsDecisions
  <2>1. {decision[i] : i \in Items}' = {Seen(s, i) : i \in Items}
    BY <1>3
  <2>2. CASE "resolve" \in writes[s]
    <3>1. NothingPending(s) /\ verdict[s] = OutcomeOf({Seen(s, i) : i \in Items})
      BY <2>2 DEF InductiveInvariant, VerdictOf
    <3>2. case'.outcome = verdict[s]
      BY <2>2 DEF Commit, CaseSeen, Updated
    <3> QED
      BY <1>3, <2>1, <3>1, <3>2 DEF NothingPending
  <2>3. CASE "resolve" \notin writes[s]
    <3>1. case.status = "RESOLVED" /\ case'.outcome = case.outcome
      BY <2>3 DEF Commit, CaseSeen, Updated
    <3>2. /\ \A i \in Items : decision[i] # None
          /\ case.outcome = OutcomeOf({decision[i] : i \in Items})
      BY <3>1 DEF InductiveInvariant, OutcomeFollowsDecisions
    <3>3. \A i \in Items : decision'[i] = decision[i]
      BY <1>3, <3>2, CommittedIsSeen
    <3>4. {decision[i] : i \in Items}' = {decision[i] : i \in Items}
      BY <3>3
    <3> QED
      BY <3>1, <3>2, <3>3, <3>4
  <2> QED
    BY <2>2, <2>3
<1> QED
  BY <1>1, <1>3, <1>5, <1>6, <1>7 DEF InductiveInvariant

LEMMA InvariantNext == InductiveInvariant /\ [Next]_vars => InductiveInvariant'
<1> SUFFICES ASSUME InductiveInvariant, [Next]_vars PROVE InductiveInvariant'
  OBVIOUS
<1>1. CASE UNCHANGED vars
  <2>1. TypeOK'
    BY <1>1, TypeNext DEF InductiveInvariant
  <2>2. CaseChecked' /\ OutcomeFollowsDecisions'
    BY <1>1 DEF vars, InductiveInvariant, CaseChecked, OutcomeFollowsDecisions, LifecycleCheck
  <2>3. ASSUME NEW t \in Sessions PROVE ShapeOf(t)' /\ LockOf(t)' /\ VerdictOf(t)'
    BY <1>1, OtherSessions DEF vars
  <2>4. \A t \in Sessions, i \in Items : KeyOf(t, i)'
    BY <1>1 DEF vars, InductiveInvariant, KeyOf, HoldsKey
  <2> QED
    BY <2>1, <2>2, <2>3, <2>4 DEF InductiveInvariant
<1>2. ASSUME NEW s \in Sessions,
             Request(s) \/ Step(s) \/ BreakDeadlock(s) \/ Lose(s)
      PROVE  InductiveInvariant'
  <2>1. CASE Request(s)
    BY <2>1, InvariantRequest
  <2>2. CASE Step(s)
    BY <2>2, InvariantCreate, InvariantResolve, InvariantReplay, InvariantCheck,
       InvariantFlush, InvariantCount, InvariantCommit, InvariantRollback DEF Step, Raise
  <2>3. CASE BreakDeadlock(s) \/ Lose(s)
    BY <2>3, InvariantRollback DEF BreakDeadlock, Lose
  <2> QED
    BY <1>2, <2>1, <2>2, <2>3
<1> QED
  BY <1>1, <1>2 DEF Next

\* Overlapping requests keep the shape, the keys, the row lock and the
\* verdicts of the inductive invariant.
THEOREM InvariantHolds == Spec => []InductiveInvariant
<1> QED
  BY InitInvariant, InvariantNext, PTL DEF Spec

\* A resolved case has every decision, and the outcome they give.
THEOREM OutcomeCorrect == Spec => []OutcomeFollowsDecisions
<1>1. InductiveInvariant => OutcomeFollowsDecisions
  BY DEF InductiveInvariant
<1> QED
  BY <1>1, InvariantHolds, PTL

\* A quick approval holds the row, so what it read of the case is still so
\* when it commits and the row it writes satisfies the CHECK constraint.
THEOREM QuickApprovalCommits == Spec => []QuickCommits
<1>1. InductiveInvariant => QuickCommits
  <2> SUFFICES ASSUME InductiveInvariant,
                      NEW s \in Sessions, lock = s, pc[s] = "commit"
               PROVE  LifecycleCheck(CaseSeen(s))
    BY DEF QuickCommits
  <2>1. /\ CaseChecked /\ ShapeOf(s) /\ LockOf(s) /\ VerdictOf(s) /\ TypeOK
    BY DEF InductiveInvariant
  <2>2. /\ case.status \in {"QUEUED", "IN_REVIEW"}
        /\ case.status = "QUEUED" => "start" \in writes[s]
        /\ "cancel" \notin writes[s]
    BY <2>1 DEF LockOf
  <2>3. /\ LifecycleCheck(case) /\ ~case.resolved /\ case.outcome = None
        /\ case.status = "IN_REVIEW" => case.started
    BY <2>1, <2>2 DEF CaseChecked, LifecycleCheck
  <2>4. "resolve" \in writes[s] => verdict[s] # None
    BY <2>1, OutcomeIsOutcome DEF VerdictOf
  <2> QED
    BY <2>2, <2>3, <2>4 DEF CaseSeen, Updated, LifecycleCheck
<1> QED
  BY <1>1, InvariantHolds, PTL

\* The two projections of a resolved case release the same Posts, and an
\* approving outcome releases all of them.
THEOREM ProjectionsCorrect == Spec => []ProjectionsAgree
<1>1. OutcomeFollowsDecisions => ProjectionsAgree
  <2> SUFFICES ASSUME OutcomeFollowsDecisions, case.status = "RESOLVED"
               PROVE  /\ PostsReleased = {k \in Posts : PostReleased(k)}
                      /\ case.outcome \in {"APPROVED", "APPROVED_WITH_CORRECTIONS"} =>
                            PostsReleased = Posts
    BY DEF ProjectionsAgree
  <2> DEFINE refused == {PostOf[i] : i \in {j \in Items : decision[j] \in Refusals}}
  <2>1. \A i \in Items : decision[i] # None
    BY DEF OutcomeFollowsDecisions
  <2>2. PostsReleased = IF Shared \in refused THEN {} ELSE Posts \ refused
    BY DEF PostsReleased
  <2>3. ASSUME NEW k \in Posts
        PROVE  PostReleased(k) <=> Shared \notin refused /\ k \notin refused
    BY <2>1 DEF PostReleased, ScopeOf
  <2>4. PostsReleased = {k \in Posts : PostReleased(k)}
    <3> HIDE DEF refused
    <3> QED
      BY <2>2, <2>3
  <2>5. ASSUME case.outcome \in {"APPROVED", "APPROVED_WITH_CORRECTIONS"}
        PROVE  PostsReleased = Posts
    <3>1. OutcomeOf({decision[i] : i \in Items})
            \in {"APPROVED", "APPROVED_WITH_CORRECTIONS"}
      BY <2>5 DEF OutcomeFollowsDecisions
    <3>2. {decision[i] : i \in Items} \cap {"REQUEST_REVERIFICATION", "REJECT"} = {}
      BY <3>1 DEF OutcomeOf
    <3>3. refused = {}
      BY <3>2 DEF Refusals
    <3> HIDE DEF refused
    <3> QED
      BY <2>2, <3>3
  <2> QED
    BY <2>4, <2>5
<1> QED
  BY <1>1, OutcomeCorrect, PTL

----------------------------------------------------------------------------
(* What a step may never do. *)

\* Only a commit, or the creation of the case, changes a committed row.
LEMMA RowsChange ==
    ASSUME InductiveInvariant, [Next]_vars
    PROVE  \/ case' = case /\ decision' = decision
           \/ case.status = None /\ case' = Opened /\ decision' = decision
           \/ \E s \in Sessions : Commit(s)
<1>1. CASE UNCHANGED vars
  BY <1>1 DEF vars
<1>2. ASSUME NEW s \in Sessions,
             Request(s) \/ Step(s) \/ BreakDeadlock(s) \/ Lose(s)
      PROVE  \/ case' = case /\ decision' = decision
             \/ case.status = None /\ case' = Opened /\ decision' = decision
             \/ Commit(s)
  <2>1. CASE Request(s)
    BY <2>1 DEF Request, BeginCreate, BeginStart, BeginCancel, BeginResolve,
       BeginDecide, BeginScope, BeginQuick, rows
  <2>2. CASE Step(s)
    BY <2>2 DEF Step, CommitCreate, Resolve, ReplayDecision, CheckItem,
       FlushDecision, CountPending, Raise, Rollback, rows
  <2>3. CASE BreakDeadlock(s) \/ Lose(s)
    BY <2>3 DEF BreakDeadlock, Lose, Rollback
  <2> QED
    BY <1>2, <2>1, <2>2, <2>3
<1> QED
  BY <1>1, <1>2 DEF Next

\* No commit replaces or removes the decision another session has committed:
\* a session writes its own rows over what is there, and the unique key, as
\* long as it is waited for, keeps them off the decided items.
THEOREM DecisionsAreFinal == Spec => DecisionsFinal
<1>1. InductiveInvariant /\ [Next]_vars =>
        [\A i \in Items : decision[i] # None => decision'[i] = decision[i]]_vars
  <2> SUFFICES ASSUME InductiveInvariant, [Next]_vars,
                      NEW i \in Items, decision[i] # None
               PROVE  decision'[i] = decision[i]
    OBVIOUS
  <2>1. ASSUME NEW s \in Sessions, Commit(s) PROVE decision'[i] = decision[i]
    BY <2>1, CommittedIsSeen DEF Commit
  <2> QED
    BY <2>1, RowsChange
<1> QED
  BY <1>1, InvariantHolds, PTL DEF Spec, DecisionsFinal

\* A commit leaves a resolved case as it is.
LEMMA ResolvedStays ==
    ASSUME InductiveInvariant, NEW s \in Sessions, Commit(s), case.status = "RESOLVED"
    PROVE  case' = case
<1>1. /\ case \in Rows /\ case' \in Rows /\ VerdictOf(s)
      /\ writes[s] # {} => LifecycleCheck(case')
      /\ writes[s] = {} => case' = case
  BY CommittedRow DEF InductiveInvariant, TypeOK
<1>2. /\ \A i \in Items : decision[i] # None
      /\ case.outcome = OutcomeOf({decision[i] : i \in Items})
  BY DEF InductiveInvariant, OutcomeFollowsDecisions
<1>3. case.started /\ case.resolved /\ case.outcome # None
  BY DEF InductiveInvariant, CaseChecked, LifecycleCheck
<1>4. CASE "resolve" \in writes[s]
  <2>1. {Seen(s, i) : i \in Items} = {decision[i] : i \in Items}
    BY <1>2, CommittedIsSeen
  <2>2. verdict[s] = case.outcome
    BY <1>1, <1>2, <1>4, <2>1 DEF VerdictOf
  <2> QED
    BY <1>1, <1>3, <1>4, <2>2 DEF Commit, CaseSeen, Updated, Rows
<1>5. CASE writes[s] # {} /\ "resolve" \notin writes[s]
  <2>1. LifecycleCheck(case')
    BY <1>1, <1>5
  <2>2. case'.outcome = case.outcome /\ case'.resolved = TRUE
    BY <1>3, <1>5 DEF Commit, CaseSeen, Updated
  <2>3. case'.status \in {"CANCELLED", "IN_REVIEW"} \/ writes[s] \cap {"start", "cancel"} = {}
    BY <1>5 DEF Commit, CaseSeen, Updated
  <2>4. writes[s] \in SUBSET {"start", "cancel", "resolve"}
    BY DEF InductiveInvariant, TypeOK
  <2>5. FALSE
    BY <1>3, <1>5, <2>1, <2>2, <2>3, <2>4 DEF LifecycleCheck
  <2> QED
    BY <2>5
<1> QED
  BY <1>1, <1>4, <1>5

\* No step changes a resolved case.
THEOREM ResolvedIsFinal == Spec => ResolvedFinal
<1>1. InductiveInvariant /\ [Next]_vars => [case.status = "RESOLVED" => case' = case]_vars
  <2> SUFFICES ASSUME InductiveInvariant, [Next]_vars, case.status = "RESOLVED"
               PROVE  case' = case
    OBVIOUS
  <2> QED
    BY RowsChange, ResolvedStays
<1> QED
  BY <1>1, InvariantHolds, PTL DEF Spec, ResolvedFinal

----------------------------------------------------------------------------
(* Overlapping review requests implement the ledger. *)

\* The ledger speaks of the same decisions and outcomes.
LEMMA SameVocabulary ==
    /\ Ledger!Decisions = Decisions
    /\ \A i \in Items : Ledger!Allowed(i) = Allowed(i)
    /\ \A given : Ledger!OutcomeOf(given) = OutcomeOf(given)
<1>1. Ledger!Decisions = Decisions
  BY DEF Ledger!Decisions, Decisions
<1>2. \A i \in Items : Ledger!Allowed(i) = Allowed(i)
  BY <1>1 DEF Ledger!Allowed, Allowed
<1>3. \A given : Ledger!OutcomeOf(given) = OutcomeOf(given)
  BY DEF Ledger!OutcomeOf, OutcomeOf
<1> QED
  BY <1>1, <1>2, <1>3

LEMMA LedgerInit == Init => Ledger!Init
BY DEF Init, NoCase, NoPlan, Ledger!Init

\* A commit adds allowed decisions to undecided items, and takes none away.
LEMMA CommitAddsDecisions ==
    ASSUME InductiveInvariant, NEW s \in Sessions, Commit(s)
    PROVE  /\ decision' \in [Items -> Decisions \cup {None}]
           /\ \A i \in Items :
                 \/ decision'[i] = decision[i]
                 \/ decision[i] = None /\ decision'[i] \in Allowed(i)
<1>1. \A i \in Items : mine[s][i] \in Allowed(i) \cup {None}
  BY DEF InductiveInvariant, ShapeOf
<1>2. decision' = [i \in Items |-> Seen(s, i)]
  BY DEF Commit
<1>3. \A i \in Items : Seen(s, i) \in Decisions \cup {None}
  BY SeenType DEF InductiveInvariant
<1>4. ASSUME NEW i \in Items
      PROVE  \/ decision'[i] = decision[i]
             \/ decision[i] = None /\ decision'[i] \in Allowed(i)
  <2>1. CASE decision[i] # None
    BY <1>2, <2>1, CommittedIsSeen
  <2>2. CASE decision[i] = None
    BY <1>1, <1>2, <2>2 DEF Seen
  <2> QED
    BY <2>1, <2>2
<1> QED
  BY <1>2, <1>3, <1>4

\* A commit that leaves the case started adds its decisions to the ledger.
LEMMA LedgerAddition ==
    ASSUME InductiveInvariant, NEW s \in Sessions, Commit(s),
           case.started \/ case.status = "QUEUED", case'.started = TRUE
    PROVE  Ledger!AddDecisions
BY CommitAddsDecisions, SameVocabulary DEF Ledger!AddDecisions

\* Without decisions of its own a commit leaves the decisions alone.
LEMMA CommitWithoutDecisions ==
    ASSUME InductiveInvariant, NEW s \in Sessions, Commit(s),
           \A i \in Items : mine[s][i] = None
    PROVE  decision' = decision
<1>1. decision' = [i \in Items |-> Seen(s, i)]
  BY DEF Commit
<1>2. decision \in [Items -> Decisions \cup {None}]
  BY DEF InductiveInvariant, TypeOK, MaybeDecided
<1>3. \A i \in Items : Seen(s, i) = decision[i]
  BY DEF Seen
<1> QED
  BY <1>1, <1>2, <1>3

LEMMA LedgerCommit ==
    ASSUME InductiveInvariant, NEW s \in Sessions, Commit(s)
    PROVE  Ledger!Next \/ UNCHANGED Ledger!vars
<1>1. /\ ShapeOf(s) /\ LockOf(s) /\ VerdictOf(s) /\ CaseChecked
      /\ case \in Rows
      /\ writes[s] \in SUBSET {"start", "cancel", "resolve"}
  BY DEF InductiveInvariant, TypeOK
<1>2. /\ case.status # None
      /\ writes[s] = {} => case' = case
      /\ writes[s] # {} => LifecycleCheck(case')
      /\ \A i \in Items : decision'[i] = Seen(s, i)
  BY CommittedRow
<1>3. pc[s] = "commit" /\ LifecycleCheck(case)
  BY <1>1, <1>2 DEF Commit, CaseChecked
<1>4. case' = Updated(case, writes[s], verdict[s])
  BY DEF Commit, CaseSeen
<1>5. CASE "cancel" \in writes[s]
  <2>1. writes[s] = {"cancel"} /\ mine[s] = NoPlan
    BY <1>1, <1>5 DEF ShapeOf
  <2>2. decision' = decision
    BY <2>1, CommitWithoutDecisions DEF NoPlan
  <2>3. /\ case'.status = "CANCELLED" /\ case'.started = case.started
        /\ case'.outcome = case.outcome
    BY <1>1, <1>4, <2>1 DEF Updated, Rows
  <2>4. case.outcome = None
    BY <1>2, <2>1, <2>3 DEF LifecycleCheck
  <2>5. case.status \in {"QUEUED", "IN_REVIEW", "CANCELLED"}
    BY <1>3, <2>4 DEF LifecycleCheck
  <2>6. CASE case.status = "CANCELLED"
    BY <2>2, <2>3, <2>6 DEF Ledger!vars
  <2>7. CASE case.status \in {"QUEUED", "IN_REVIEW"}
    BY <2>2, <2>3, <2>7 DEF Ledger!Next, Ledger!Cancel
  <2> QED
    BY <2>5, <2>6, <2>7
<1>6. CASE "resolve" \in writes[s]
  <2>1. case'.status = "RESOLVED" /\ LifecycleCheck(case')
    BY <1>2, <1>4, <1>6 DEF Updated
  <2>2. case'.started = TRUE
    BY <2>1, CommittedRow DEF LifecycleCheck, Rows
  <2>3. \A i \in Items : decision'[i] # None
    BY <1>1, <1>2, <1>6 DEF VerdictOf, NothingPending
  <2>4. case.started \/ case.status = "QUEUED"
    <3> SUFFICES ASSUME ~case.started PROVE case.status = "QUEUED"
      OBVIOUS
    <3>1. "start" \in writes[s]
      BY <1>4, <2>2 DEF Updated
    <3>2. lock = s
      BY <1>1, <1>6, <3>1 DEF ShapeOf
    <3> QED
      BY <1>1, <1>3, <3>2 DEF LockOf, LifecycleCheck
  <2>5. CASE case.outcome = None
    <3>1. Ledger!AddDecisions
      BY <2>2, <2>4, LedgerAddition
    <3>2. case'.outcome = OutcomeOf({decision'[i] : i \in Items})
      <4>1. {decision'[i] : i \in Items} = {Seen(s, i) : i \in Items}
        BY <1>2
      <4> QED
        BY <1>1, <1>4, <1>6, <4>1 DEF VerdictOf, Updated
    <3> QED
      BY <2>1, <2>3, <2>5, <3>1, <3>2, SameVocabulary DEF Ledger!Next, Ledger!Resolve, Ledger!AllDecided
  <2>6. CASE case.outcome # None
    <3>1. case.status = "RESOLVED"
      BY <1>3, <2>6 DEF LifecycleCheck
    <3>2. case' = case
      BY <3>1, ResolvedStays
    <3>3. \A i \in Items : mine[s][i] = None
      BY <3>1 DEF InductiveInvariant, OutcomeFollowsDecisions, KeyOf, HoldsKey
    <3> QED
      BY <3>2, <3>3, CommitWithoutDecisions DEF Ledger!vars
  <2> QED
    BY <2>5, <2>6
<1>7. CASE "start" \in writes[s] /\ "cancel" \notin writes[s] /\ "resolve" \notin writes[s]
  <2>1. case'.status = "IN_REVIEW" /\ case'.started = TRUE /\ case'.outcome = case.outcome
        /\ case'.resolved = case.resolved
    BY <1>1, <1>4, <1>7 DEF Updated, Rows
  <2>2. ~case.resolved
    BY <1>2, <1>7, <2>1 DEF LifecycleCheck
  <2>3. \/ case.status = "QUEUED"
        \/ case.status = "IN_REVIEW" /\ case.started
    BY <1>3, <2>2 DEF LifecycleCheck
  <2>4. Ledger!AddDecisions
    BY <2>1, <2>3, LedgerAddition
  <2> QED
    BY <2>1, <2>3, <2>4 DEF Ledger!Next, Ledger!Record
<1>8. CASE writes[s] = {}
  <2>1. case' = case
    BY <1>2, <1>8
  <2>2. CASE \A i \in Items : mine[s][i] = None
    BY <2>1, <2>2, CommitWithoutDecisions DEF Ledger!vars
  <2>3. CASE \E i \in Items : mine[s][i] # None
    <3>1. case.started \/ lock = s
      BY <2>3 DEF InductiveInvariant, KeyOf, HoldsKey
    <3>2. case.started /\ case.status # "QUEUED"
      BY <1>1, <1>3, <1>8, <3>1 DEF LockOf, LifecycleCheck
    <3>3. case.started = TRUE
      BY <1>1, <3>2 DEF Rows
    <3>4. Ledger!AddDecisions
      BY <2>1, <3>2, <3>3, LedgerAddition
    <3> QED
      BY <2>1, <3>2, <3>4 DEF Ledger!Next, Ledger!Record
  <2> QED
    BY <2>2, <2>3
<1> QED
  BY <1>1, <1>5, <1>6, <1>7, <1>8

\* Every behaviour of the review requests is one of the ledger: decisions are
\* only added, to a started case, and a verdict is never taken back.
THEOREM ImplementsLedger == Spec => LedgerSpec
<1>1. InductiveInvariant /\ [Next]_vars => [Ledger!Next]_(Ledger!vars)
  <2> SUFFICES ASSUME InductiveInvariant, [Next]_vars
               PROVE  Ledger!Next \/ UNCHANGED Ledger!vars
    OBVIOUS
  <2>1. CASE case' = case /\ decision' = decision
    BY <2>1 DEF Ledger!vars
  <2>2. CASE case.status = None /\ case' = Opened /\ decision' = decision
    BY <2>2 DEF InductiveInvariant, CaseChecked, NoCase, Opened, Ledger!Next, Ledger!Open
  <2> QED
    BY <2>1, <2>2, RowsChange, LedgerCommit
<1> QED
  BY <1>1, LedgerInit, InvariantHolds, PTL DEF Spec, LedgerSpec, Ledger!Spec


----------------------------------------------------------------------------
(* Requests that do not overlap keep the documented lifecycle.             *)

\* At most one request is under way.
NoOverlap == \A s, t \in Sessions : pc[s] # "idle" /\ pc[t] # "idle" => s = t

\* What is true of the case when nobody comes between a request's reads and
\* its commit: an open case, and one that is still to be made, has an item left
\* to decide, and the row still is as the request has read it.
OpenPending ==
    case.status \in {None, "QUEUED", "IN_REVIEW"} => \E i \in Items : decision[i] = None

Decides(s) == \E i \in Items : mine[s][i] # None

RowAsRead(s) ==
    /\ pc[s] = "create" => case.status = None
    /\ pc[s] = "resolve" => case.status = "IN_REVIEW"
    /\ writes[s] # {} => case.status \in {"QUEUED", "IN_REVIEW"}
    /\ "start" \in writes[s] => case.status = "QUEUED"
    /\ pc[s] \in {"flush", "count"} \/ Decides(s) =>
          \/ case.status = "IN_REVIEW"
          \/ lock = s /\ case.status = "QUEUED" /\ "start" \in writes[s]
    /\ lock = s => \A i \in Items : /\ plan[s][i] \in {None, "APPROVE_AS_IS"}
                                    /\ mine[s][i] \in {None, "APPROVE_AS_IS"}
    /\ pc[s] \in {"read", "commit"} /\ Decides(s) /\ NothingPending(s) =>
          "resolve" \in writes[s]

SerialInvariant == OpenPending /\ \A s \in Sessions : RowAsRead(s)


\* Nothing is asked of a session without a request.
IdleUnread == \A s \in Sessions : pc[s] = "idle" => RowAsRead(s)

LEMMA IdleIsUnread == InductiveInvariant => IdleUnread
BY DEF InductiveInvariant, ShapeOf, LockOf, IdleUnread, RowAsRead, Decides, NoPlan

\* A step is of one session, which has a request before it or after it.
LEMMA StepOfOne ==
    ASSUME InductiveInvariant, NEW s \in Sessions,
           Request(s) \/ Step(s) \/ BreakDeadlock(s) \/ Lose(s)
    PROVE  /\ pc[s] # "idle" \/ pc'[s] # "idle"
           /\ \A t \in Sessions : t # s => pc'[t] = pc[t]
<1>1. TypeOK
  BY DEF InductiveInvariant
<1>2. CASE Request(s)
  BY <1>1, <1>2 DEF TypeOK, Request, BeginCreate, BeginStart, BeginCancel, BeginResolve,
         BeginDecide, BeginScope, BeginQuick, Goto
<1>3. CASE Step(s)
  BY <1>1, <1>3 DEF TypeOK, Step, CommitCreate, Resolve, ReplayDecision, CheckItem,
         FlushDecision, CountPending, Commit, Raise, Raises, Rollback, Finish, Goto
<1>4. CASE BreakDeadlock(s) \/ Lose(s)
  <2>1. pc[s] # "idle"
    BY <1>4 DEF BreakDeadlock, Deadlocked, WaitsFor, Lose, Idle
  <2> QED
    BY <1>1, <1>4, <2>1 DEF TypeOK, BreakDeadlock, Lose, Rollback, Finish, Goto
<1> QED
  BY <1>2, <1>3, <1>4

LEMMA SerialInit == Init => SerialInvariant
<1> SUFFICES ASSUME Init PROVE SerialInvariant
  OBVIOUS
<1>1. OpenPending
  BY ItemsAssumption DEF Init, NoPlan, OpenPending
<1>2. ASSUME NEW s \in Sessions PROVE RowAsRead(s)
  BY <1>2, SessionsAssumption DEF Init, NoPlan, RowAsRead, Decides
<1> QED
  BY <1>1, <1>2 DEF SerialInvariant

\* A request begins without a write or a decision of its own.
LEMMA SerialRequest ==
    ASSUME InductiveInvariant, SerialInvariant, NEW s \in Sessions, Request(s)
    PROVE  OpenPending' /\ RowAsRead(s)'
<1>1. ShapeOf(s) /\ LockOf(s) /\ TypeOK
  BY DEF InductiveInvariant
<1>2. case' = case /\ decision' = decision /\ mine' = mine
  BY DEF Request, BeginCreate, BeginStart, BeginCancel, BeginResolve, BeginDecide,
         BeginScope, BeginQuick, rows
<1>3. Idle(s) /\ writes[s] = {} /\ mine[s] = NoPlan /\ lock # s
  BY <1>1 DEF Request, BeginCreate, BeginStart, BeginCancel, BeginResolve, BeginDecide,
         BeginScope, BeginQuick, Idle, ShapeOf, LockOf
<1>4. \A i \in Items : mine'[s][i] = None
  BY <1>2, <1>3 DEF NoPlan
<1>5. /\ pc'[s] \notin {"flush", "count"}
      /\ pc'[s] = "create" => case.status = None
      /\ pc'[s] = "resolve" => case.status = "IN_REVIEW"
      /\ writes'[s] # {} => case.status \in {"QUEUED", "IN_REVIEW"}
      /\ "start" \in writes'[s] => case.status = "QUEUED"
  BY <1>1, <1>3 DEF TypeOK, Request, BeginCreate, BeginStart, BeginCancel,
         BeginResolve, BeginDecide, BeginScope, BeginQuick, rows, Goto
<1>6. lock' = s => \A i \in Items : plan'[s][i] \in {None, "APPROVE_AS_IS"}
  <2> SUFFICES ASSUME lock' = s PROVE \A i \in Items : plan'[s][i] \in {None, "APPROVE_AS_IS"}
    OBVIOUS
  <2>1. PICK k \in Posts : BeginQuick(s, k)
    BY <1>3 DEF Request, BeginCreate, BeginStart, BeginCancel, BeginResolve, BeginDecide,
         BeginScope, rows
  <2>2. plan'[s] = [i \in Items |-> IF i \in PendingIn(k) THEN "APPROVE_AS_IS" ELSE None]
    BY <1>1, <2>1 DEF BeginQuick, TypeOK
  <2> QED
    BY <2>2
<1>7. OpenPending'
  BY <1>2 DEF SerialInvariant, OpenPending
<1> QED
  BY <1>2, <1>4, <1>5, <1>6, <1>7 DEF RowAsRead, Decides

\* A session that has finished holds nothing.
LEMMA SerialFinished ==
    ASSUME InductiveInvariant, NEW s \in Sessions, Finish(s)
    PROVE  RowAsRead(s)'
<1>1. \A i \in Items : mine'[s][i] = None
  BY FinishedSession
<1>2. pc'[s] = "idle" /\ writes'[s] = {} /\ lock' # s
  BY SessionsAssumption DEF InductiveInvariant, TypeOK, Finish, Released, Goto
<1> QED
  BY <1>1, <1>2 DEF RowAsRead, Decides

\* A step within a transaction leaves the committed rows as they are.
LEMMA SerialWithin ==
    ASSUME InductiveInvariant, SerialInvariant, NEW s \in Sessions,
           \/ Resolve(s)
           \/ \E i \in Items : ReplayDecision(s, i) \/ CheckItem(s, i)
           \/ FlushDecision(s) \/ CountPending(s)
    PROVE  OpenPending' /\ RowAsRead(s)'
<1>1. /\ ShapeOf(s) /\ LockOf(s) /\ TypeOK /\ OpenPending /\ RowAsRead(s) /\ CaseChecked
  BY DEF InductiveInvariant, SerialInvariant
<1>2. case' = case /\ decision' = decision /\ lock' = lock
  BY DEF Resolve, ReplayDecision, CheckItem, FlushDecision, CountPending, rows
<1>3. OpenPending'
  BY <1>1, <1>2 DEF OpenPending
<1>4. CASE Resolve(s)
  <2>1. case.status = "IN_REVIEW" /\ mine[s] = NoPlan
    BY <1>1, <1>4 DEF Resolve, RowAsRead, ShapeOf
  <2>2. PICK i \in Items : decision[i] = None
    BY <1>1, <2>1 DEF OpenPending
  <2>3. Seen(s, i) = None
    BY <2>1, <2>2 DEF Seen, NoPlan
  <2> QED
    BY <1>4, <2>3 DEF Resolve, NothingPending
<1>5. CASE \E i \in Items : ReplayDecision(s, i)
  <2>1. PICK i \in Items : ReplayDecision(s, i)
    BY <1>5
  <2>2. /\ mine' = mine /\ writes' = writes /\ pc[s] = "read" /\ pc'[s] \in {"read", "commit"}
        /\ \A j \in Items : plan'[s][j] \in {plan[s][j], None}
    BY <1>1, <2>1 DEF ReplayDecision, Goto, TypeOK, MaybeDecided
  <2>3. NothingPending(s)' <=> NothingPending(s)
    BY <1>2, <2>2 DEF NothingPending, Seen
  <2> QED
    BY <1>1, <1>2, <1>3, <2>2, <2>3 DEF RowAsRead, Decides
<1>6. CASE \E i \in Items : CheckItem(s, i)
  <2>1. /\ mine' = mine /\ writes' = writes /\ plan' = plan /\ pc'[s] = "flush"
    BY <1>1, <1>6 DEF CheckItem, Goto, TypeOK
  <2>2. "start" \in writes[s] => lock = s
    BY <1>1, <1>6 DEF CheckItem, ShapeOf
  <2>3. CaseSeen(s).status = "IN_REVIEW"
    BY <1>6 DEF CheckItem
  <2>4. case.status = "IN_REVIEW" \/ "start" \in writes[s]
    BY <2>3 DEF CaseSeen, Updated
  <2>5. case.status = "IN_REVIEW"
        \/ (lock = s /\ case.status = "QUEUED" /\ "start" \in writes[s])
    BY <1>1, <2>2, <2>4 DEF RowAsRead
  <2> QED
    BY <1>1, <1>2, <1>3, <2>1, <2>5 DEF RowAsRead, Decides
<1>7. CASE FlushDecision(s)
  <2> DEFINE c == cur[s]
  <2>1. pc[s] = "flush" /\ c \in Items
    BY <1>1, <1>7 DEF FlushDecision, ShapeOf
  <2>2. /\ pc'[s] = "count" /\ writes' = writes
        /\ \A j \in Items : plan'[s][j] \in {plan[s][j], None}
        /\ \A j \in Items : mine'[s][j] = IF j = c THEN plan[s][c] ELSE mine[s][j]
    BY <1>1, <1>7, <2>1 DEF FlushDecision, Goto, TypeOK, MaybeDecided
  <2> HIDE DEF c
  <2> QED
    BY <1>1, <1>2, <1>3, <2>1, <2>2 DEF RowAsRead, Decides
<1>8. CASE CountPending(s)
  <2>1. mine' = mine /\ plan' = plan /\ pc[s] = "count" /\ pc'[s] \in {"read", "commit"}
    BY <1>1, <1>8 DEF CountPending, Goto, TypeOK
  <2>2. writes'[s] = IF NothingPending(s) THEN writes[s] \cup {"resolve"} ELSE writes[s]
    BY <1>1, <1>8 DEF CountPending, SetOutcome, TypeOK
  <2>3. NothingPending(s)' <=> NothingPending(s)
    BY <1>2, <2>1 DEF NothingPending, Seen
  <2> QED
    BY <1>1, <1>2, <1>3, <2>1, <2>2, <2>3 DEF RowAsRead, Decides
<1> QED
  BY <1>4, <1>5, <1>6, <1>7, <1>8

\* A commit leaves a case in review only with an item to decide.
LEMMA SerialCommit ==
    ASSUME InductiveInvariant, SerialInvariant, NEW s \in Sessions, Commit(s)
    PROVE  OpenPending'
<1> SUFFICES ASSUME case'.status \in {None, "QUEUED", "IN_REVIEW"}
             PROVE  \E i \in Items : decision'[i] = None
  BY DEF OpenPending
<1>1. /\ pc[s] = "commit" /\ OpenPending /\ RowAsRead(s) /\ ShapeOf(s) /\ CaseChecked
      /\ case' = Updated(case, writes[s], verdict[s])
      /\ writes[s] \in SUBSET {"start", "cancel", "resolve"}
  BY DEF Commit, CaseSeen, InductiveInvariant, SerialInvariant, TypeOK
<1>2. \A i \in Items : decision'[i] = Seen(s, i)
  BY CommittedRow
<1>3. /\ "resolve" \notin writes[s] /\ "cancel" \notin writes[s]
      /\ case'.status # None
  BY <1>1, CommittedRow DEF Updated
<1>4. CASE Decides(s)
  BY <1>1, <1>2, <1>3, <1>4 DEF RowAsRead, NothingPending
<1>5. CASE ~Decides(s)
  <2>1. case.status \in {"QUEUED", "IN_REVIEW"}
    BY <1>1, <1>3 DEF Updated, RowAsRead
  <2> QED
    BY <1>1, <1>2, <1>5, <2>1 DEF OpenPending, Decides, Seen
<1> QED
  BY <1>4, <1>5

LEMMA SerialNext ==
    InductiveInvariant /\ InductiveInvariant' /\ NoOverlap /\ NoOverlap'
        /\ SerialInvariant /\ [Next]_vars => SerialInvariant'
<1> SUFFICES ASSUME InductiveInvariant, InductiveInvariant', NoOverlap, NoOverlap',
                    SerialInvariant, [Next]_vars
             PROVE  SerialInvariant'
  OBVIOUS
<1>0. IdleUnread'
  BY IdleIsUnread, PTL
<1>1. CASE UNCHANGED vars
  <2>1. OpenPending'
    BY <1>1 DEF vars, SerialInvariant, OpenPending
  <2>2. ASSUME NEW s \in Sessions PROVE RowAsRead(s)'
    <3>1. RowAsRead(s)
      BY DEF SerialInvariant
    <3>2. NothingPending(s)' <=> NothingPending(s)
      BY <1>1 DEF vars, NothingPending, Seen
    <3> QED
      BY <1>1, <3>1, <3>2 DEF vars, RowAsRead, Decides
  <2> QED
    BY <2>1, <2>2 DEF SerialInvariant
<1>2. ASSUME NEW s \in Sessions,
             Request(s) \/ Step(s) \/ BreakDeadlock(s) \/ Lose(s)
      PROVE  OpenPending' /\ RowAsRead(s)'
  <2>1. CASE Request(s)
    BY <2>1, SerialRequest
  <2>2. CASE Rollback(s) \/ CommitCreate(s) \/ Commit(s)
    <3>1. RowAsRead(s)'
      BY <2>2, SerialFinished DEF Rollback, CommitCreate, Commit
    <3>2. CASE Rollback(s)
      BY <3>1, <3>2 DEF Rollback, SerialInvariant, OpenPending
    <3>3. CASE CommitCreate(s)
      BY <3>1, <3>3 DEF CommitCreate, SerialInvariant, OpenPending
    <3> QED
      BY <2>2, <3>1, <3>2, <3>3, SerialCommit
  <2>3. CASE Step(s) /\ ~Rollback(s) /\ ~CommitCreate(s) /\ ~Commit(s)
    BY <2>3, SerialWithin DEF Step, Raise
  <2> QED
    BY <1>2, <2>1, <2>2, <2>3 DEF BreakDeadlock, Lose, Raise
<1>3. CASE Next
  <2>1. PICK s \in Sessions : Request(s) \/ Step(s) \/ BreakDeadlock(s) \/ Lose(s)
    BY <1>3 DEF Next
  <2>2. \A t \in Sessions : t # s => pc'[t] = "idle"
    BY <2>1, StepOfOne DEF NoOverlap
  <2> QED
    BY <1>0, <1>2, <2>1, <2>2 DEF IdleUnread, SerialInvariant
<1> QED
  BY <1>1, <1>3

\* The lifecycle speaks of the same decisions and outcomes.
LEMMA LifecycleVocabulary ==
    /\ Lifecycle!None = None /\ Lifecycle!Decisions = Decisions
    /\ \A i \in Items : Lifecycle!Allowed(i) = Allowed(i)
    /\ \A given : Lifecycle!OutcomeOf(given) = OutcomeOf(given)
<1>1. Lifecycle!None = None /\ Lifecycle!Decisions = Decisions
  BY DEF Lifecycle!None, Lifecycle!Decisions, Decisions
<1>2. \A i \in Items : Lifecycle!Allowed(i) = Allowed(i)
  BY <1>1 DEF Lifecycle!Allowed, Allowed
<1>3. \A given : Lifecycle!OutcomeOf(given) = OutcomeOf(given)
  BY DEF Lifecycle!OutcomeOf, OutcomeOf
<1> QED
  BY <1>1, <1>2, <1>3

\* A commit with decisions of its own is one decision of the lifecycle.
LEMMA LifecycleDecide ==
    ASSUME InductiveInvariant, SerialInvariant, NEW s \in Sessions, Commit(s), Decides(s)
    PROVE  Lifecycle!Decide
<1> DEFINE S == {i \in Items : mine[s][i] # None}
           form == [i \in S |-> mine[s][i]]
           U == Lifecycle!Undecided
<1>1. /\ pc[s] = "commit" /\ OpenPending /\ RowAsRead(s) /\ ShapeOf(s) /\ CaseChecked
      /\ LockOf(s) /\ VerdictOf(s)
      /\ case \in Rows /\ case' = Updated(case, writes[s], verdict[s])
      /\ writes[s] \in SUBSET {"start", "cancel", "resolve"}
  BY DEF Commit, CaseSeen, InductiveInvariant, SerialInvariant, TypeOK
<1>2. decision' = [i \in Items |-> Seen(s, i)]
  BY DEF Commit
<1>3. U = {i \in Items : decision[i] = None}
  BY DEF Lifecycle!Undecided, Lifecycle!None, None
<1>4. \A i \in S : decision[i] = None /\ mine[s][i] \in Allowed(i)
  BY <1>1 DEF InductiveInvariant, KeyOf, HoldsKey, ShapeOf
<1>5. S \in (SUBSET U) \ {{}} /\ form \in [S -> Decisions]
  BY <1>3, <1>4, AllowedType DEF Decides
<1>6. decision' = [i \in Items |-> IF i \in S THEN form[i] ELSE decision[i]]
  <2>1. \A i \in Items : Seen(s, i) = IF i \in S THEN form[i] ELSE decision[i]
    BY <1>4 DEF Seen
  <2> QED
    BY <1>2, <2>1
<1>7. \/ case.status = "IN_REVIEW"
      \/ lock = s /\ case.status = "QUEUED" /\ "start" \in writes[s]
  BY <1>1 DEF RowAsRead
<1>8. case.status = "QUEUED" => \A i \in S : form[i] = "APPROVE_AS_IS"
  BY <1>1, <1>7 DEF RowAsRead
<1>9. "cancel" \notin writes[s] /\ case.outcome = None
  BY <1>1, <1>7 DEF ShapeOf, Decides, NoPlan, CaseChecked, LifecycleCheck
<1>10. NothingPending(s) <=> S = U
  BY <1>3, <1>4 DEF NothingPending, Seen
<1>11. "resolve" \in writes[s] <=> S = U
  BY <1>1, <1>10 DEF RowAsRead, VerdictOf
<1>12. IF S = U
       THEN /\ case'.status = "RESOLVED"
            /\ case'.outcome = OutcomeOf({decision'[i] : i \in Items})
       ELSE case'.status = "IN_REVIEW" /\ case'.outcome = case.outcome
  <2>1. {decision'[i] : i \in Items} = {Seen(s, i) : i \in Items}
    BY <1>2
  <2>2. CASE S = U
    BY <1>1, <1>11, <2>1, <2>2 DEF Updated, VerdictOf
  <2>3. CASE S # U
    BY <1>1, <1>7, <1>9, <1>11, <2>3 DEF Updated
  <2> QED
    BY <2>2, <2>3
<1>13. /\ case.status \in {"QUEUED", "IN_REVIEW"}
       /\ form \in [S -> Lifecycle!Decisions]
       /\ \A i \in S : form[i] \in Lifecycle!Allowed(i)
       /\ IF S = U
          THEN /\ case'.status = "RESOLVED"
               /\ case'.outcome = Lifecycle!OutcomeOf({decision'[i] : i \in Items})
          ELSE case'.status = "IN_REVIEW" /\ case'.outcome = case.outcome
  BY <1>4, <1>5, <1>7, <1>12, LifecycleVocabulary
<1> HIDE DEF S, form, U
<1> QED
  BY <1>5, <1>6, <1>8, <1>13, Zenon DEF Lifecycle!Decide, U

LEMMA LifecycleCommit ==
    ASSUME InductiveInvariant, SerialInvariant, NEW s \in Sessions, Commit(s)
    PROVE  Lifecycle!Next \/ UNCHANGED Lifecycle!vars
<1>1. /\ pc[s] = "commit" /\ OpenPending /\ RowAsRead(s) /\ ShapeOf(s) /\ VerdictOf(s)
      /\ case \in Rows /\ case' = Updated(case, writes[s], verdict[s])
      /\ writes[s] \in SUBSET {"start", "cancel", "resolve"}
  BY DEF Commit, CaseSeen, InductiveInvariant, SerialInvariant, TypeOK
<1>2. CASE Decides(s)
  BY <1>2, LifecycleDecide DEF Lifecycle!Next
<1>3. CASE ~Decides(s)
  <2>1. decision' = decision
    BY <1>3, CommitWithoutDecisions DEF Decides
  <2>2. "resolve" \notin writes[s]
    BY <1>1, <1>3 DEF OpenPending, RowAsRead, VerdictOf, NothingPending, Seen, Decides
  <2>3. CASE writes[s] = {}
    BY <2>1, <2>3, CommittedRow DEF Lifecycle!vars
  <2>4. CASE "cancel" \in writes[s]
    <3>1. case'.status = "CANCELLED" /\ case'.outcome = case.outcome
      BY <1>1, <2>2, <2>4 DEF Updated
    <3> QED
      BY <1>1, <2>1, <2>4, <3>1 DEF Lifecycle!Next, Lifecycle!Cancel, RowAsRead
  <2>5. CASE "start" \in writes[s] /\ "cancel" \notin writes[s]
    <3>1. case'.status = "IN_REVIEW" /\ case'.outcome = case.outcome
      BY <1>1, <2>2, <2>5 DEF Updated
    <3> QED
      BY <1>1, <2>1, <2>5, <3>1 DEF Lifecycle!Next, Lifecycle!Start, RowAsRead
  <2> QED
    BY <1>1, <2>2, <2>3, <2>4, <2>5
<1> QED
  BY <1>2, <1>3

\* As long as no request overlaps another, whatever sessions there are, the
\* review requests keep the documented lifecycle: only an open case takes
\* decisions, the last of them resolves it, and nothing follows a cancellation.
THEOREM SerialLifecycle == Spec /\ []NoOverlap => LifecycleSpec
<1>1. Init => Lifecycle!Init
  BY LifecycleVocabulary DEF Init, NoCase, NoPlan, Lifecycle!Init
<1>2. InductiveInvariant /\ SerialInvariant /\ [Next]_vars
        => [Lifecycle!Next]_(Lifecycle!vars)
  <2> SUFFICES ASSUME InductiveInvariant, SerialInvariant, [Next]_vars
               PROVE  Lifecycle!Next \/ UNCHANGED Lifecycle!vars
    OBVIOUS
  <2>1. CASE case' = case /\ decision' = decision
    BY <2>1 DEF Lifecycle!vars
  <2>2. CASE case.status = None /\ case' = Opened /\ decision' = decision
    BY <2>2, LifecycleVocabulary DEF InductiveInvariant, CaseChecked, NoCase, Opened,
       Lifecycle!Next, Lifecycle!Open
  <2> QED
    BY <2>1, <2>2, RowsChange, LifecycleCommit
<1>3. Spec /\ []NoOverlap => []SerialInvariant
  BY SerialInit, SerialNext, InvariantHolds, PTL DEF Spec
<1> QED
  BY <1>1, <1>2, <1>3, InvariantHolds, PTL DEF Spec, LifecycleSpec, Lifecycle!Spec

\* In particular what the documents say of the lifecycle and overlapping
\* requests break holds while none overlaps: the final decision resolves the
\* case, and a cancelled case stays as it is.
THEOREM SerialFinality ==
    Spec /\ []NoOverlap => []FinalDecisionResolves /\ CancelledFinal
<1>1. SerialInvariant => FinalDecisionResolves
  BY DEF SerialInvariant, OpenPending, FinalDecisionResolves
<1>2. InductiveInvariant /\ SerialInvariant /\ [Next]_vars
        => [case.status = "CANCELLED" => case' = case]_vars
  <2> SUFFICES ASSUME InductiveInvariant, SerialInvariant, [Next]_vars, case.status = "CANCELLED"
               PROVE  case' = case
    OBVIOUS
  <2>1. ASSUME NEW s \in Sessions, Commit(s)
        PROVE  case' = case
    <3>1. case' = Updated(case, writes[s], verdict[s]) /\ case \in Rows
      BY <2>1 DEF Commit, CaseSeen, InductiveInvariant, TypeOK
    <3>2. writes[s] = {}
      BY DEF SerialInvariant, RowAsRead
    <3> QED
      BY <3>1, <3>2 DEF Updated, Rows
  <2>2. None # "CANCELLED"
    BY LifecycleVocabulary
  <2> QED
    BY <2>1, <2>2, RowsChange
<1>3. Spec /\ []NoOverlap => []SerialInvariant
  BY SerialInit, SerialNext, InvariantHolds, PTL DEF Spec
<1> QED
  BY <1>1, <1>2, <1>3, InvariantHolds, PTL DEF Spec, CancelledFinal
=============================================================================
