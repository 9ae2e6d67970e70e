--------------------------- MODULE PipelineProofs ---------------------------
(***************************************************************************)
(* Proofs about SourcePipelines, for any revisions, sources and processes. *)
(***************************************************************************)
EXTENDS SourcePipelines, FiniteSetTheorems, NaturalsInduction, WellFoundedInduction, TLAPS

----------------------------------------------------------------------------
(* The inductive invariant. *)

Rows == [item : Items, route : {"direct", "review"}, event : BOOLEAN, case : Cases]
ItemsTyped == revisions \subseteq Items /\ wanted \subseteq Items /\ table \in Seq(Rows)

Labels == WithLock \cup {"idle", "next"}
CommandNames == {"none", "due", "all", "pipeline", "dry", "verification", "publisher"}
Stages == [StageNames -> StageStatuses \cup {"none"}]
Done == {"SUCCESS", "PARTIAL"}

RegistryTyped == registered \subseteq Sources /\ due \subseteq Sources
LocksTyped ==
    /\ lock \in [Sources -> Procs \cup {NoProc}]
    /\ running \in [Sources -> SUBSET (Procs \cup {NoProc})]
    /\ unlocked \subseteq Procs
ProcsTyped ==
    /\ at \in [Procs -> Labels] /\ cmd \in [Procs -> CommandNames]
    /\ todo \in [Procs -> SUBSET Sources] /\ src \in [Procs -> Sources \cup {NoSource}]
    /\ work \in [Procs -> SUBSET Nat] /\ stage \in [Procs -> Stages]
CountersTyped == commands \in 0..MaxCommands /\ events \in 0..MaxEvents

\* Which processes can be where, and what they work on.
Placed(p) ==
    /\ at[p] \in {"next", "open", "record", "discover", "close"} => IsPipeline(p)
    /\ at[p] = "pending" => ~IsPipeline(p)
    /\ IsPipeline(p) /\ at[p] \in WithLock => src[p] \in Sources
    /\ at[p] = "verify" => work[p] \subseteq Items

\* What is recorded of the stages when a process has come to a label.
Staged(p) ==
    /\ at[p] \in {"idle", "next", "open", "discover"} => stage[p] = NoStages
    /\ IsPipeline(p) /\ at[p] = "select" =>
          /\ stage[p]["DISCOVERY"] \in Done
          /\ stage[p]["VERIFICATION"] = "none" /\ stage[p]["MASTER_PUBLISHER"] = "none"
    /\ IsPipeline(p) /\ at[p] = "verify" =>
          /\ stage[p]["DISCOVERY"] \in Done /\ stage[p]["VERIFICATION"] \in Done
          /\ stage[p]["MASTER_PUBLISHER"] = "none"
    /\ IsPipeline(p) /\ at[p] = "publish" => \A x \in StageNames : stage[p][x] \in Done
    /\ at[p] = "close" =>
          \/ /\ stage[p]["DISCOVERY"] = "FAILED"
             /\ stage[p]["VERIFICATION"] = "none" /\ stage[p]["MASTER_PUBLISHER"] = "none"
          \/ /\ stage[p]["DISCOVERY"] \in Done /\ stage[p]["VERIFICATION"] = "FAILED"
             /\ stage[p]["MASTER_PUBLISHER"] = "none"
          \/ /\ stage[p]["DISCOVERY"] \in Done /\ stage[p]["VERIFICATION"] \in Done
             /\ stage[p]["MASTER_PUBLISHER"] = "FAILED"

\* A pipeline with a RUNNING row, and one that took its source's lock.
Working(p, s) == IsPipeline(p) /\ at[p] \in InRun /\ src[p] = s
Holding(p, s) == IsPipeline(p) /\ at[p] \in WithLock /\ src[p] = s

PipelineInvariant == TypeOK /\ RunsGuarded /\ \A p \in Procs : Placed(p) /\ Staged(p)

----------------------------------------------------------------------------
(* Choosing the work. *)

LEMMA FirstIn ==
    ASSUME NEW S \in SUBSET Nat, S # {}
    PROVE  First(S) \in S
<1>1. PICK x \in S : TRUE
  OBVIOUS
<1>2. \E n \in S : \A m \in S : ~(<<m, n>> \in OpToRel(<, Nat))
  BY <1>1, NatLessThanWellFounded, WFMin
<1>3. PICK n \in S : \A m \in S : ~(<<m, n>> \in OpToRel(<, Nat))
  BY <1>2
<1>4. ASSUME NEW m \in S PROVE n <= m
  <2>1. m \in Nat /\ n \in Nat
    OBVIOUS
  <2>2. m < n => <<m, n>> \in OpToRel(<, Nat)
    BY <2>1 DEF OpToRel
  <2>3. ~(m < n)
    BY <1>3, <2>2, Zenon
  <2> QED
    BY <2>1, <2>3
<1> QED
  BY <1>4 DEF First

LEMMA BatchOf == \A S : Batch(S) \subseteq S
BY DEF Batch

LEMMA FirstWork ==
    ASSUME TypeOK, NEW p \in Procs, work[p] # {}
    PROVE  First(work[p]) \in work[p]
<1>1. work[p] \in SUBSET Nat
  BY DEF TypeOK
<1> QED
  BY <1>1, FirstIn

----------------------------------------------------------------------------
(* What the workers and reviewers do to the items. *)

LEMMA TypeParts ==
    TypeOK <=> ItemsTyped /\ RegistryTyped /\ LocksTyped /\ ProcsTyped /\ CountersTyped
BY DEF TypeOK, ItemsTyped, Rows, RegistryTyped, LocksTyped, ProcsTyped, CountersTyped, Labels,
    CommandNames, Stages

LEMMA TypePartsNext ==
    TypeOK' <=> ItemsTyped' /\ RegistryTyped' /\ LocksTyped' /\ ProcsTyped' /\ CountersTyped'
BY DEF TypeOK, ItemsTyped, Rows, RegistryTyped, LocksTyped, ProcsTyped, CountersTyped, Labels,
    CommandNames, Stages

LEMMA VerifyTyped ==
    ASSUME ItemsTyped, NEW i \in Items, Verify(i)
    PROVE  ItemsTyped'
<1>1. Scored(i) \in Rows
  BY ItemsAssumption DEF Scored, Rows, Cases
<1>2. Append(table, Scored(i)) \in Seq(Rows)
  BY <1>1 DEF ItemsTyped
<1> QED
  BY <1>2 DEF Verify, ItemsTyped

\* A row that is replaced by another one.
LEMMA RowReplaced ==
    ASSUME ItemsTyped, NEW n \in DOMAIN table, NEW r \in Rows
    PROVE  [table EXCEPT ![n] = r] \in Seq(Rows)
BY DEF ItemsTyped

LEMMA PublishTyped ==
    ASSUME ItemsTyped, NEW n \in Nat, Publish(n)
    PROVE  ItemsTyped'
<1>1. CASE n \in DOMAIN table
  <2>1. table[n] \in Rows
    BY <1>1 DEF ItemsTyped
  <2>2. [table[n] EXCEPT !.event = TRUE] \in Rows
    BY <2>1 DEF Rows
  <2>3. table' = [table EXCEPT ![n] = [table[n] EXCEPT !.event = TRUE]]
    BY DEF Publish
  <2> QED
    BY <1>1, <2>2, <2>3, RowReplaced DEF Publish, ItemsTyped
<1>2. CASE n \notin DOMAIN table
  <2>1. table' = table
    BY <1>2 DEF Publish, ItemsTyped
  <2> QED
    BY <2>1 DEF Publish, ItemsTyped
<1> QED
  BY <1>1, <1>2

LEMMA DecideTyped ==
    ASSUME ItemsTyped, NEW n \in DOMAIN table, NEW outcome \in Outcomes, Decide(n, outcome)
    PROVE  ItemsTyped'
<1>1. table[n] \in Rows
  BY DEF ItemsTyped
<1>2. [table[n] EXCEPT !.case = outcome] \in Rows
  BY <1>1 DEF Rows, Cases
<1>3. table' = [table EXCEPT ![n] = [table[n] EXCEPT !.case = outcome]]
  BY DEF Decide
<1>4. wanted' \subseteq Items
  BY <1>1 DEF Decide, ItemsTyped, Rows
<1> QED
  BY <1>2, <1>3, <1>4, RowReplaced DEF Decide, ItemsTyped

LEMMA PersistTyped ==
    ASSUME ItemsTyped, NEW s, NEW new \in NewRevisions(s), Persist(new)
    PROVE  ItemsTyped'
BY DEF ItemsTyped, NewRevisions, Persist

----------------------------------------------------------------------------
(* What a step leaves of the types. *)

LEMMA RecordTyped ==
    ASSUME stage \in [Procs -> Stages], NEW p \in Procs, NEW x \in StageNames,
           NEW status \in StageStatuses, Record(p, x, status)
    PROVE  stage' \in [Procs -> Stages]
<1>1. [stage[p] EXCEPT ![x] = status] \in Stages
  BY DEF Stages
<1>2. stage' = [stage EXCEPT ![p] = [stage[p] EXCEPT ![x] = status]]
  BY DEF Record
<1> QED
  BY <1>1, <1>2

LEMMA IdleTyped ==
    ASSUME ProcsTyped, NEW p \in Procs, Idle(p)
    PROVE  ProcsTyped'
<1>1. NoStages \in Stages
  BY DEF NoStages, Stages
<1> QED
  BY <1>1 DEF ProcsTyped, Idle, Goto, Labels, CommandNames, NoSource

LEMMA LeaveTyped ==
    ASSUME ProcsTyped, LocksTyped, NEW p \in Procs, Leave(p)
    PROVE  ProcsTyped' /\ lock' \in [Sources -> Procs \cup {NoProc}] /\ unlocked' \subseteq Procs
<1>1. NoStages \in Stages
  BY DEF NoStages, Stages
<1>2. ProcsTyped'
  BY <1>1 DEF ProcsTyped, Leave, Goto, Labels, NoSource
<1> QED
  BY <1>2 DEF LocksTyped, Leave, Unlock

LEMMA AbandonTyped ==
    ASSUME LocksTyped, NEW p \in Procs, Abandon(p)
    PROVE  running' \in [Sources -> SUBSET (Procs \cup {NoProc})]
BY DEF LocksTyped, Abandon

LEMMA RestTyped ==
    ASSUME work \in [Procs -> SUBSET Nat], NEW p \in Procs, Rest(p)
    PROVE  work' \in [Procs -> SUBSET Nat]
BY DEF Rest

LEMMA BatchTyped ==
    ASSUME ItemsTyped, NEW p \in Procs, work \in [Procs -> SUBSET Nat], NEW S \in SUBSET Nat
    PROVE  [work EXCEPT ![p] = Batch(S)] \in [Procs -> SUBSET Nat]
BY BatchOf

LEMMA StopTyped ==
    ASSUME TypeOK, NEW p \in Procs, NEW x \in StageNames, Stop(p, x)
    PROVE  ItemsTyped' /\ RegistryTyped' /\ LocksTyped' /\ ProcsTyped'
<1>1. ItemsTyped' /\ RegistryTyped' /\ LocksTyped'
  BY TypeParts DEF Stop, ItemsTyped, RegistryTyped, LocksTyped, items, registry, locks
<1>2. CASE IsPipeline(p)
  <2>1. stage' \in [Procs -> Stages]
    BY <1>2, TypeParts, RecordTyped DEF Stop, ProcsTyped, StageStatuses
  <2> QED
    BY <1>1, <1>2, <2>1, TypeParts DEF Stop, ProcsTyped, Goto, Labels, WithLock, InRun
<1>3. CASE ~IsPipeline(p)
  BY <1>1, <1>3, TypeParts, IdleTyped DEF Stop
<1> QED
  BY <1>2, <1>3

LEMMA ItemFailedTyped ==
    ASSUME TypeOK, NEW p \in Procs, NEW x \in StageNames, ItemFailed(p, x)
    PROVE  ItemsTyped' /\ RegistryTyped' /\ LocksTyped' /\ ProcsTyped'
<1>1. ItemsTyped' /\ RegistryTyped' /\ LocksTyped'
  BY TypeParts DEF ItemFailed, ItemsTyped, RegistryTyped, LocksTyped, items, registry, locks
<1>2. work' \in [Procs -> SUBSET Nat]
  BY TypeParts, RestTyped DEF ItemFailed, ProcsTyped
<1>3. stage' \in [Procs -> Stages]
  BY TypeParts, RecordTyped DEF ItemFailed, ProcsTyped, StageStatuses
<1> QED
  BY <1>1, <1>2, <1>3, TypeParts DEF ItemFailed, ProcsTyped

LEMMA UnscheduledTyped ==
    ASSUME CountersTyped, Unscheduled
    PROVE  CountersTyped'
BY ProcsAssumption DEF CountersTyped, Unscheduled

LEMMA StartTyped ==
    ASSUME TypeOK, NEW p \in Procs, NEW c \in Commands[p], Start(p, c)
    PROVE  TypeOK'
<1>1. ItemsTyped' /\ RegistryTyped' /\ LocksTyped'
  BY TypeParts DEF Start, ItemsTyped, RegistryTyped, LocksTyped, items, registry, locks
<1>2. CountersTyped'
  BY TypeParts, ProcsAssumption DEF Start, CountersTyped
<1>3. c \in CommandNames
  BY ProcsAssumption DEF CommandNames
<1>4. Selected(c) \in SUBSET Sources
  BY DEF Selected
<1>5. at' \in [Procs -> Labels] /\ cmd' \in [Procs -> CommandNames]
  BY <1>3, TypeParts DEF Start, Goto, ProcsTyped, Labels, WithLock, InRun
<1>6. todo' \in [Procs -> SUBSET Sources] /\ src' \in [Procs -> Sources \cup {NoSource}]
  BY <1>4, TypeParts DEF Start, ProcsTyped
<1>7. ProcsTyped'
  BY <1>5, <1>6, TypeParts DEF Start, ProcsTyped
<1> QED
  BY <1>1, <1>2, <1>7, TypePartsNext

LEMMA DiscoverTyped ==
    ASSUME TypeOK, NEW p \in Procs, src[p] \in Sources, Discover(p)
    PROVE  TypeOK'
<1>1. ItemsTyped'
  <2>1. CASE DryRun(p)
    BY <2>1, TypeParts DEF Discover, ItemsTyped, items
  <2>2. CASE ~DryRun(p)
    BY <2>2, TypeParts, PersistTyped DEF Discover
  <2> QED
    BY <2>1, <2>2
<1>2. RegistryTyped'
  BY TypeParts DEF Discover, RegistryTyped
<1>3. LocksTyped' /\ CountersTyped'
  BY TypeParts DEF Discover, LocksTyped, CountersTyped, locks, counters
<1>4. stage' \in [Procs -> Stages]
  BY TypeParts, RecordTyped DEF Discover, ProcsTyped, StageNames, StageStatuses
<1>5. ProcsTyped'
  BY <1>4, TypeParts DEF Discover, ProcsTyped, Goto, Labels, WithLock, InRun
<1> QED
  BY <1>1, <1>2, <1>3, <1>5, TypePartsNext

LEMMA SelectRevisionsTyped ==
    ASSUME TypeOK, NEW p \in Procs, SelectRevisions(p)
    PROVE  TypeOK' /\ work'[p] \subseteq Items
<1> DEFINE S == {i \in Items : SourceOf[i] = src[p] /\ NeedsVerification(i)}
<1>1. S \subseteq Items /\ S \in SUBSET Nat /\ Batch(S) \subseteq S
  BY ItemsAssumption, BatchOf
<1>2. work' = [work EXCEPT ![p] = Batch(S)]
  BY DEF SelectRevisions
<1> HIDE DEF S
<1>3. ItemsTyped' /\ RegistryTyped' /\ LocksTyped' /\ CountersTyped'
  BY TypeParts DEF SelectRevisions, ItemsTyped, RegistryTyped, LocksTyped, CountersTyped,
    items, registry, locks, counters
<1>4. stage' \in [Procs -> Stages]
  BY TypeParts, RecordTyped DEF SelectRevisions, ProcsTyped, StageNames, StageStatuses
<1>5. work' \in [Procs -> SUBSET Nat] /\ work'[p] \subseteq Items
  BY <1>1, <1>2, TypeParts DEF ProcsTyped
<1>6. ProcsTyped'
  BY <1>4, <1>5, TypeParts DEF SelectRevisions, ProcsTyped, Goto, Labels, WithLock, InRun
<1> QED
  BY <1>3, <1>5, <1>6, TypePartsNext

LEMMA VerifyItemTyped ==
    ASSUME TypeOK, NEW p \in Procs, work[p] \subseteq Items, VerifyItem(p)
    PROVE  TypeOK'
<1>1. First(work[p]) \in Items
  BY FirstWork DEF VerifyItem
<1>2. ItemsTyped'
  <2>1. CASE DryRun(p)
    BY <2>1, TypeParts DEF VerifyItem, ItemsTyped, items
  <2>2. CASE ~DryRun(p)
    BY <1>1, <2>2, TypeParts, VerifyTyped DEF VerifyItem
  <2> QED
    BY <2>1, <2>2
<1>3. RegistryTyped' /\ LocksTyped' /\ CountersTyped'
  BY TypeParts DEF VerifyItem, RegistryTyped, LocksTyped, CountersTyped, registry, locks, counters
<1>4. work' \in [Procs -> SUBSET Nat]
  BY TypeParts, RestTyped DEF VerifyItem, ProcsTyped
<1>5. ProcsTyped'
  BY <1>4, TypeParts DEF VerifyItem, ProcsTyped
<1> QED
  BY <1>2, <1>3, <1>5, TypePartsNext

LEMMA SelectPendingTyped ==
    ASSUME TypeOK, NEW p \in Procs, SelectPending(p)
    PROVE  TypeOK'
<1>1. Pending \in SUBSET Nat
  BY TypeParts DEF Pending, ItemsTyped
<1>2. ItemsTyped' /\ RegistryTyped' /\ LocksTyped' /\ CountersTyped'
  BY TypeParts DEF SelectPending, ItemsTyped, RegistryTyped, LocksTyped, CountersTyped,
    items, registry, locks, counters
<1>3. stage' \in [Procs -> Stages]
  BY TypeParts, RecordTyped DEF SelectPending, ProcsTyped, StageNames, StageStatuses
<1>4. work' \in [Procs -> SUBSET Nat]
  BY <1>1, TypeParts, BatchTyped DEF SelectPending, ProcsTyped
<1>5. ProcsTyped'
  BY <1>3, <1>4, TypeParts DEF SelectPending, ProcsTyped, Goto, Labels, WithLock, InRun
<1> QED
  BY <1>2, <1>5, TypePartsNext

LEMMA PublishItemTyped ==
    ASSUME TypeOK, NEW p \in Procs, PublishItem(p)
    PROVE  TypeOK'
<1>1. First(work[p]) \in Nat
  BY TypeParts, FirstWork DEF PublishItem, ProcsTyped
<1>2. ItemsTyped'
  <2>1. CASE DryRun(p) \/ ~Approved(table[First(work[p])])
    BY <2>1, TypeParts DEF PublishItem, ItemsTyped, items
  <2>2. CASE ~(DryRun(p) \/ ~Approved(table[First(work[p])]))
    BY <1>1, <2>2, TypeParts, PublishTyped DEF PublishItem
  <2> QED
    BY <2>1, <2>2
<1>3. RegistryTyped' /\ LocksTyped' /\ CountersTyped'
  BY TypeParts DEF PublishItem, RegistryTyped, LocksTyped, CountersTyped, registry, locks, counters
<1>4. work' \in [Procs -> SUBSET Nat]
  BY TypeParts, RestTyped DEF PublishItem, ProcsTyped
<1>5. ProcsTyped'
  BY <1>4, TypeParts DEF PublishItem, ProcsTyped
<1> QED
  BY <1>2, <1>3, <1>5, TypePartsNext

LEMMA ReviewersTyped ==
    ASSUME TypeOK, Reviewers
    PROVE  TypeOK'
<1>1. PICK n \in DOMAIN table :
          \/ PublishReviewed(n) /\ UNCHANGED counters
          \/ \E outcome \in Outcomes :
                /\ Decide(n, outcome)
                /\ IF outcome = "REVERIFICATION_REQUESTED"
                   THEN Unscheduled ELSE UNCHANGED counters
  BY DEF Reviewers
<1>2. n \in Nat
  BY TypeParts DEF ItemsTyped
<1>3. ItemsTyped'
  BY <1>1, <1>2, TypeParts, PublishTyped, DecideTyped DEF PublishReviewed
<1>4. CountersTyped'
  <2>1. (UNCHANGED counters) => CountersTyped'
    BY TypeParts DEF counters, CountersTyped
  <2> QED
    BY <1>1, <2>1, TypeParts, UnscheduledTyped
<1>5. RegistryTyped' /\ LocksTyped' /\ ProcsTyped'
  BY TypeParts DEF Reviewers, RegistryTyped, LocksTyped, ProcsTyped, registry, locks, procs
<1> QED
  BY <1>3, <1>4, <1>5, TypePartsNext

LEMMA LockTyped ==
    ASSUME TypeOK, NEW p \in Procs, Lock(p)
    PROVE  TypeOK' /\ First(todo[p]) \in Sources
<1>1. First(todo[p]) \in todo[p] /\ todo[p] \subseteq Sources
  <2>1. todo[p] \in SUBSET Sources
    BY TypeParts DEF ProcsTyped
  <2> QED
    BY <2>1, ItemsAssumption, FirstIn DEF Lock
<1>2. First(todo[p]) \in Sources
  BY <1>1
<1> DEFINE s == First(todo[p])
<1>3. /\ todo' = [todo EXCEPT ![p] = @ \ {s}]
      /\ \/ /\ lock' = [lock EXCEPT ![s] = p] /\ src' = [src EXCEPT ![p] = s]
            /\ at' = [at EXCEPT ![p] = "open"]
         \/ UNCHANGED <<lock, src, at>>
  BY DEF Lock, Goto
<1> HIDE DEF s
<1>4. ItemsTyped' /\ RegistryTyped' /\ CountersTyped'
  BY TypeParts DEF Lock, ItemsTyped, RegistryTyped, CountersTyped, items, registry, counters
<1>5. s \in Sources
  BY <1>2 DEF s
<1>6. LocksTyped'
  BY <1>3, <1>5, TypeParts DEF Lock, LocksTyped
<1>7. ProcsTyped'
  BY <1>3, <1>5, TypeParts DEF Lock, ProcsTyped, Labels, WithLock
<1> QED
  BY <1>2, <1>4, <1>6, <1>7, TypePartsNext

\* Steps that end something, or that the schedule does not do.
LEMMA OtherTyped ==
    ASSUME TypeOK, NEW p \in Procs,
           \/ End(p) \/ Open(p) \/ DiscoverRaises(p) \/ PublishFails(p) \/ EndBatch(p)
           \/ Close(p) \/ RecordAttempt(p) \/ Fault(p)
    PROVE  TypeOK'
<1>1. CASE End(p) \/ EndBatch(p)
  <2>1. ProcsTyped'
    BY <1>1, TypeParts, IdleTyped DEF End, EndBatch
  <2>2. ItemsTyped' /\ RegistryTyped' /\ LocksTyped' /\ CountersTyped'
    BY <1>1, TypeParts DEF End, EndBatch, ItemsTyped, RegistryTyped, LocksTyped, CountersTyped,
      items, registry, locks, counters
  <2> QED
    BY <2>1, <2>2, TypePartsNext
<1>2. CASE Open(p) \/ Close(p)
  <2>1. running' \in [Sources -> SUBSET (Procs \cup {NoProc})]
    BY <1>2, TypeParts DEF Open, Close, LocksTyped
  <2>2. ItemsTyped' /\ RegistryTyped' /\ LocksTyped' /\ CountersTyped'
    BY <1>2, <2>1, TypeParts DEF Open, Close, ItemsTyped, RegistryTyped, LocksTyped,
      CountersTyped, items, registry, counters
  <2>3. ProcsTyped'
    BY <1>2, TypeParts DEF Open, Close, ProcsTyped, Goto, Labels, WithLock, InRun
  <2> QED
    BY <2>2, <2>3, TypePartsNext
<1>3. CASE DiscoverRaises(p)
  <2>1. ItemsTyped' /\ RegistryTyped' /\ LocksTyped' /\ ProcsTyped'
    BY <1>3, StopTyped DEF DiscoverRaises, StageNames
  <2>2. CountersTyped'
    BY <1>3, TypeParts DEF DiscoverRaises, CountersTyped, counters
  <2> QED
    BY <2>1, <2>2, TypePartsNext
<1>4. CASE PublishFails(p)
  <2>1. ItemsTyped' /\ RegistryTyped' /\ LocksTyped' /\ ProcsTyped'
    BY <1>4, ItemFailedTyped DEF PublishFails, StageNames
  <2>2. CountersTyped'
    BY <1>4, TypeParts DEF PublishFails, CountersTyped, counters
  <2> QED
    BY <2>1, <2>2, TypePartsNext
<1>5. CASE RecordAttempt(p)
  <2>1. ProcsTyped' /\ LocksTyped'
    BY <1>5, TypeParts, LeaveTyped DEF RecordAttempt, LocksTyped
  <2>2. RegistryTyped'
    BY <1>5, TypeParts DEF RecordAttempt, RegistryTyped
  <2>3. ItemsTyped' /\ CountersTyped'
    BY <1>5, TypeParts DEF RecordAttempt, ItemsTyped, CountersTyped, items, counters
  <2> QED
    BY <2>1, <2>2, <2>3, TypePartsNext
<1>6. CASE VerifyFails(p)
  <2>1. ItemsTyped' /\ RegistryTyped' /\ LocksTyped' /\ ProcsTyped'
    BY <1>6, ItemFailedTyped DEF VerifyFails, StageNames
  <2> QED
    BY <1>6, <2>1, TypeParts, TypePartsNext, UnscheduledTyped DEF VerifyFails
<1>7. CASE StageRaises(p)
  <2>1. ItemsTyped' /\ RegistryTyped' /\ LocksTyped' /\ ProcsTyped'
    BY <1>7, StopTyped DEF StageRaises, StageNames
  <2> QED
    BY <1>7, <2>1, TypeParts, TypePartsNext, UnscheduledTyped DEF StageRaises
<1>8. CASE Raises(p)
  <2>1. ProcsTyped' /\ LocksTyped'
    BY <1>8, TypeParts, LeaveTyped, AbandonTyped DEF Raises, LocksTyped
  <2>2. ItemsTyped' /\ RegistryTyped'
    BY <1>8, TypeParts DEF Raises, ItemsTyped, RegistryTyped, items, registry
  <2> QED
    BY <1>8, <2>1, <2>2, TypeParts, TypePartsNext, UnscheduledTyped DEF Raises
<1>9. CASE Crash(p)
  <2>1. ProcsTyped'
    BY <1>9, TypeParts, IdleTyped DEF Crash
  <2>2. LocksTyped'
    BY <1>9, TypeParts, AbandonTyped DEF Crash, Unlock, LocksTyped
  <2>3. ItemsTyped' /\ RegistryTyped'
    BY <1>9, TypeParts DEF Crash, ItemsTyped, RegistryTyped, items, registry
  <2> QED
    BY <1>9, <2>1, <2>2, <2>3, TypeParts, TypePartsNext, UnscheduledTyped DEF Crash
<1>10. CASE LoseLock(p)
  <2>1. LocksTyped'
    BY <1>10, TypeParts DEF LoseLock, LocksTyped
  <2>2. ItemsTyped' /\ RegistryTyped' /\ ProcsTyped'
    BY <1>10, TypeParts DEF LoseLock, ItemsTyped, RegistryTyped, ProcsTyped, items, registry,
      procs
  <2> QED
    BY <1>10, <2>1, <2>2, TypeParts, TypePartsNext, UnscheduledTyped DEF LoseLock
<1> QED
  BY <1>1, <1>2, <1>3, <1>4, <1>5, <1>6, <1>7, <1>8, <1>9, <1>10 DEF Fault

----------------------------------------------------------------------------
(* Where the processes are, and what they have recorded. *)

\* A step of p leaves the other processes where they are.
Apart(p) == \A q \in Procs \ {p} :
    /\ at'[q] = at[q] /\ cmd'[q] = cmd[q] /\ src'[q] = src[q]
    /\ work'[q] = work[q] /\ stage'[q] = stage[q]

LEMMA StartApart ==
    ASSUME ProcsTyped, NEW p \in Procs, NEW c \in Commands[p], Start(p, c)
    PROVE  Apart(p)
BY DEF ProcsTyped, Apart, Start, Goto

LEMMA IdleApart ==
    ASSUME ProcsTyped, NEW p \in Procs, Idle(p)
    PROVE  Apart(p)
BY DEF ProcsTyped, Apart, Idle, Goto

LEMMA LeaveApart ==
    ASSUME ProcsTyped, NEW p \in Procs, Leave(p)
    PROVE  Apart(p)
BY DEF ProcsTyped, Apart, Leave, Goto

LEMMA StopApart ==
    ASSUME ProcsTyped, NEW p \in Procs, NEW x \in StageNames, Stop(p, x)
    PROVE  Apart(p)
<1>1. CASE IsPipeline(p)
  BY <1>1 DEF Stop, ProcsTyped, Apart, Goto, Record
<1>2. CASE ~IsPipeline(p)
  BY <1>2, IdleApart DEF Stop
<1> QED
  BY <1>1, <1>2

LEMMA ItemFailedApart ==
    ASSUME ProcsTyped, NEW p \in Procs, NEW x \in StageNames, ItemFailed(p, x)
    PROVE  Apart(p)
BY DEF ProcsTyped, Apart, ItemFailed, Rest, Record

LEMMA StepApart ==
    ASSUME ProcsTyped, NEW p \in Procs, Work(p) \/ Fault(p)
    PROVE  Apart(p)
<1>1. CASE End(p) \/ EndBatch(p) \/ Crash(p)
  BY <1>1, IdleApart DEF End, EndBatch, Crash
<1>2. CASE RecordAttempt(p) \/ Raises(p)
  BY <1>2, LeaveApart DEF RecordAttempt, Raises
<1>3. CASE DiscoverRaises(p) \/ StageRaises(p)
  BY <1>3, StopApart DEF DiscoverRaises, StageRaises, StageNames
<1>4. CASE PublishFails(p) \/ VerifyFails(p)
  BY <1>4, ItemFailedApart DEF PublishFails, VerifyFails, StageNames
<1>5. CASE Lock(p)
  <2>1. PICK s : /\ \/ /\ src' = [src EXCEPT ![p] = s] /\ Goto(p, "open")
                    \/ UNCHANGED <<src, at>>
                 /\ UNCHANGED <<cmd, work, stage>>
    BY <1>5 DEF Lock
  <2> QED
    BY <2>1 DEF Goto, ProcsTyped, Apart
<1>6. CASE Open(p) \/ Close(p)
  BY <1>6 DEF Open, Close, ProcsTyped, Apart, Goto
<1>7. CASE Discover(p)
  BY <1>7 DEF Discover, ProcsTyped, Apart, Goto, Record
<1>8. CASE SelectRevisions(p)
  BY <1>8 DEF SelectRevisions, ProcsTyped, Apart, Goto, Record
<1>9. CASE VerifyItem(p) \/ PublishItem(p)
  BY <1>9 DEF VerifyItem, PublishItem, Rest, ProcsTyped, Apart
<1>10. CASE SelectPending(p)
  BY <1>10 DEF SelectPending, ProcsTyped, Apart, Goto, Record
<1>11. CASE LoseLock(p)
  BY <1>11 DEF LoseLock, procs, Apart
<1> QED
  BY <1>1, <1>2, <1>3, <1>4, <1>5, <1>6, <1>7, <1>8, <1>9, <1>10, <1>11 DEF Work, Fault

LEMMA ApartKeeps ==
    ASSUME NEW p \in Procs, Apart(p), \A q \in Procs : Placed(q) /\ Staged(q),
           Placed(p)', Staged(p)'
    PROVE  \A q \in Procs : (Placed(q) /\ Staged(q))'
<1>1. ASSUME NEW q \in Procs \ {p} PROVE Placed(q)' /\ Staged(q)'
  <2>1. /\ at'[q] = at[q] /\ cmd'[q] = cmd[q] /\ src'[q] = src[q]
        /\ work'[q] = work[q] /\ stage'[q] = stage[q]
    BY DEF Apart
  <2>2. Placed(q) /\ Staged(q)
    OBVIOUS
  <2> QED
    BY <2>1, <2>2 DEF Placed, Staged, IsPipeline
<1> QED
  BY <1>1

LEMMA IdlePlaced ==
    ASSUME ProcsTyped, NEW p \in Procs, Idle(p)
    PROVE  Placed(p)' /\ Staged(p)' /\ at'[p] = "idle"
<1>1. at'[p] = "idle" /\ cmd'[p] = "none" /\ stage'[p] = NoStages
  BY DEF ProcsTyped, Idle, Goto
<1> QED
  BY <1>1 DEF Placed, Staged, IsPipeline, WithLock, InRun

LEMMA LeavePlaced ==
    ASSUME ProcsTyped, NEW p \in Procs, IsPipeline(p), Leave(p)
    PROVE  Placed(p)' /\ Staged(p)' /\ at'[p] = "next"
<1>1. at'[p] = "next" /\ cmd'[p] = cmd[p] /\ stage'[p] = NoStages
  BY DEF ProcsTyped, Leave, Goto
<1> QED
  BY <1>1 DEF Placed, Staged, IsPipeline, WithLock, InRun

LEMMA StopPlaced ==
    ASSUME ProcsTyped, NEW p \in Procs, Placed(p), NEW x \in StageNames, Stop(p, x),
           IsPipeline(p) => at[p] \in WithLock,
           IsPipeline(p) =>
              \/ x = "DISCOVERY" /\ stage[p] = NoStages
              \/ /\ x = "VERIFICATION" /\ stage[p]["DISCOVERY"] \in Done
                 /\ stage[p]["MASTER_PUBLISHER"] = "none"
              \/ /\ x = "MASTER_PUBLISHER" /\ stage[p]["DISCOVERY"] \in Done
                 /\ stage[p]["VERIFICATION"] \in Done
    PROVE  Placed(p)' /\ Staged(p)'
<1>1. CASE IsPipeline(p)
  <2>1. /\ at'[p] = "close" /\ cmd'[p] = cmd[p] /\ src'[p] = src[p]
        /\ stage'[p] = [stage[p] EXCEPT ![x] = "FAILED"]
    BY <1>1 DEF Stop, ProcsTyped, Goto, Record
  <2>2. DOMAIN stage[p] = StageNames
    BY DEF ProcsTyped, Stages
  <2>3. Placed(p)'
    BY <1>1, <2>1 DEF Placed, IsPipeline, WithLock, InRun
  <2>4. Staged(p)'
    BY <1>1, <2>1, <2>2 DEF Staged, IsPipeline, StageNames, NoStages
  <2> QED
    BY <2>3, <2>4
<1>2. CASE ~IsPipeline(p)
  BY <1>2, IdlePlaced DEF Stop
<1> QED
  BY <1>1, <1>2

LEMMA StartPlaced ==
    ASSUME ProcsTyped, NEW p \in Procs, NEW c \in Commands[p], Placed(p), Staged(p), Start(p, c)
    PROVE  Placed(p)' /\ Staged(p)'
<1>1. cmd'[p] = c /\ stage'[p] = stage[p] /\ work'[p] = work[p] /\ stage[p] = NoStages
  BY DEF Start, ProcsTyped, Staged
<1>2. \/ c \in {"due", "all", "pipeline", "dry"} /\ at'[p] = "next"
      \/ c = "verification" /\ at'[p] = "select"
      \/ c = "publisher" /\ at'[p] = "pending"
  BY DEF Start, ProcsTyped, Goto
<1> QED
  BY <1>1, <1>2 DEF Placed, Staged, IsPipeline, WithLock, InRun

\* A batch that loses its first item.
LEMMA RestPlaced ==
    ASSUME ProcsTyped, NEW p \in Procs, Placed(p), Staged(p), Rest(p),
           UNCHANGED <<at, cmd, src, stage>>
    PROVE  Placed(p)' /\ Staged(p)'
<1>1. work'[p] \subseteq work[p]
  BY DEF Rest, ProcsTyped
<1> QED
  BY <1>1 DEF Placed, Staged, IsPipeline

LEMMA ItemFailedPlaced ==
    ASSUME ProcsTyped, NEW p \in Procs, Placed(p), Staged(p), NEW x \in StageNames,
           ItemFailed(p, x),
           at[p] = "verify" => x = "VERIFICATION", at[p] = "publish" => x = "MASTER_PUBLISHER",
           at[p] \in {"verify", "publish"}
    PROVE  Placed(p)' /\ Staged(p)'
<1>1. work'[p] \subseteq work[p] /\ at'[p] = at[p] /\ cmd'[p] = cmd[p] /\ src'[p] = src[p]
  BY DEF ItemFailed, Rest, ProcsTyped
<1>2. Placed(p)'
  BY <1>1 DEF Placed, IsPipeline
<1>3. CASE IsPipeline(p)
  <2>1. stage'[p] = [stage[p] EXCEPT ![x] = "PARTIAL"] /\ DOMAIN stage[p] = StageNames
    BY <1>3 DEF ItemFailed, Record, ProcsTyped, Stages
  <2>2. stage'[p][x] = "PARTIAL" /\ \A y \in StageNames : y # x => stage'[p][y] = stage[p][y]
    BY <2>1
  <2> QED
    BY <1>1, <1>2, <1>3, <2>2 DEF Staged, IsPipeline, StageNames, Done
<1>4. CASE ~IsPipeline(p)
  BY <1>1, <1>2, <1>4 DEF ItemFailed, Staged, IsPipeline
<1> QED
  BY <1>3, <1>4

LEMMA StagePlaced ==
    ASSUME TypeOK, NEW p \in Procs, Placed(p), Staged(p),
           Discover(p) \/ SelectRevisions(p) \/ SelectPending(p)
    PROVE  Placed(p)' /\ Staged(p)'
<1>1. ProcsTyped /\ DOMAIN stage[p] = StageNames /\ cmd'[p] = cmd[p] /\ src'[p] = src[p]
  BY TypeParts DEF ProcsTyped, Stages, Discover, SelectRevisions, SelectPending
<1>2. CASE Discover(p)
  <2>1. at'[p] = "select" /\ IsPipeline(p)
    BY <1>1, <1>2 DEF Discover, Goto, ProcsTyped, Placed
  <2>2. PICK status \in Done : stage'[p] = [stage[p] EXCEPT !["DISCOVERY"] = status]
    BY <1>1, <1>2 DEF Discover, Record, Done, ProcsTyped
  <2>3. stage[p] = NoStages
    BY <1>2 DEF Discover, Staged
  <2>4. Placed(p)'
    BY <1>1, <1>2, <2>1 DEF Placed, IsPipeline, Discover, WithLock, InRun
  <2>5. Staged(p)'
    BY <2>1, <2>2, <2>3 DEF Staged, NoStages, StageNames
  <2> QED
    BY <2>4, <2>5
<1>3. CASE SelectRevisions(p)
  <2>1. at'[p] = "verify" /\ work'[p] \subseteq Items
    BY <1>1, <1>3, SelectRevisionsTyped DEF SelectRevisions, Goto, ProcsTyped
  <2>2. Placed(p)'
    BY <1>1, <1>3, <2>1 DEF Placed, IsPipeline, SelectRevisions, WithLock, InRun
  <2>3. CASE IsPipeline(p)
    <3>1. stage'[p] = [stage[p] EXCEPT !["VERIFICATION"] = "SUCCESS"]
      BY <1>1, <1>3, <2>3 DEF SelectRevisions, Record, ProcsTyped
    <3>2. Staged(p)'
      BY <1>1, <1>3, <2>1, <2>3, <3>1 DEF SelectRevisions, Staged, StageNames, Done
    <3> QED
      BY <2>2, <3>2
  <2>4. CASE ~IsPipeline(p)
    BY <1>1, <1>3, <2>1, <2>2, <2>4 DEF SelectRevisions, Staged, IsPipeline
  <2> QED
    BY <2>3, <2>4
<1>4. CASE SelectPending(p)
  <2>1. at'[p] = "publish"
    BY <1>1, <1>4 DEF SelectPending, Goto, ProcsTyped
  <2>2. Placed(p)'
    BY <1>1, <1>4, <2>1 DEF Placed, IsPipeline, SelectPending, WithLock, InRun
  <2>3. CASE IsPipeline(p)
    <3>1. stage'[p] = [stage[p] EXCEPT !["MASTER_PUBLISHER"] = "SUCCESS"] /\ at[p] = "verify"
      BY <1>1, <1>4, <2>3 DEF SelectPending, Record, ProcsTyped, Placed
    <3>2. Staged(p)'
      BY <1>1, <2>1, <2>3, <3>1 DEF Staged, StageNames, Done
    <3> QED
      BY <2>2, <3>2
  <2>4. CASE ~IsPipeline(p)
    BY <1>1, <1>4, <2>1, <2>2, <2>4 DEF SelectPending, Staged, IsPipeline
  <2> QED
    BY <2>3, <2>4
<1> QED
  BY <1>2, <1>3, <1>4

LEMMA StepPlaced ==
    ASSUME TypeOK, NEW p \in Procs, Placed(p), Staged(p), Work(p) \/ Fault(p)
    PROVE  Placed(p)' /\ Staged(p)'
<1>1. ProcsTyped
  BY TypeParts
<1>2. CASE End(p) \/ EndBatch(p) \/ Crash(p)
  BY <1>1, <1>2, IdlePlaced DEF End, EndBatch, Crash
<1>3. CASE RecordAttempt(p) \/ Raises(p)
  <2>1. IsPipeline(p)
    BY <1>3 DEF RecordAttempt, Raises, Returned, Placed
  <2> QED
    BY <1>1, <1>3, <2>1, LeavePlaced DEF RecordAttempt, Raises
<1>4. CASE DiscoverRaises(p) \/ StageRaises(p)
  <2>1. CASE at[p] = "discover" /\ Stop(p, "DISCOVERY")
    BY <1>1, <2>1, StopPlaced DEF StageNames, Staged, WithLock, InRun
  <2>2. CASE at[p] = "select" /\ Stop(p, "VERIFICATION")
    BY <1>1, <2>2, StopPlaced DEF StageNames, Staged, WithLock, InRun
  <2>3. CASE at[p] \in {"pending", "publish", "verify"} /\ Stop(p, "MASTER_PUBLISHER")
    BY <1>1, <2>3, StopPlaced DEF StageNames, Staged, Placed, WithLock, InRun
  <2> QED
    BY <1>4, <2>1, <2>2, <2>3 DEF DiscoverRaises, StageRaises
<1>5. CASE PublishFails(p) \/ VerifyFails(p)
  <2> "MASTER_PUBLISHER" \in StageNames /\ "VERIFICATION" \in StageNames
    BY DEF StageNames
  <2>1. CASE at[p] = "publish" /\ ItemFailed(p, "MASTER_PUBLISHER")
    BY <1>1, <2>1, ItemFailedPlaced
  <2>2. CASE at[p] = "verify" /\ ItemFailed(p, "VERIFICATION")
    BY <1>1, <2>2, ItemFailedPlaced
  <2> QED
    BY <1>5, <2>1, <2>2 DEF PublishFails, VerifyFails
<1>6. CASE Lock(p)
  <2>1. /\ cmd'[p] = cmd[p] /\ stage'[p] = stage[p] /\ work'[p] = work[p] /\ at[p] = "next"
        /\ \/ at'[p] = "open" /\ src'[p] = First(todo[p])
           \/ at'[p] = at[p] /\ src'[p] = src[p]
    BY <1>1, <1>6 DEF Lock, Goto, ProcsTyped
  <2>2. First(todo[p]) \in Sources
    BY <1>6, LockTyped
  <2>3. Placed(p)'
    BY <2>1, <2>2 DEF Placed, IsPipeline
  <2>4. Staged(p)'
    BY <2>1 DEF Staged, IsPipeline
  <2> QED
    BY <2>3, <2>4
<1>7. CASE Open(p)
  <2>1. /\ cmd'[p] = cmd[p] /\ stage'[p] = stage[p] /\ src'[p] = src[p]
        /\ at[p] = "open" /\ at'[p] = "discover"
    BY <1>1, <1>7 DEF Open, Goto, ProcsTyped
  <2> QED
    BY <2>1 DEF Placed, Staged, IsPipeline, WithLock, InRun
<1>8. CASE Close(p)
  <2>1. /\ cmd'[p] = cmd[p] /\ stage'[p] = stage[p] /\ src'[p] = src[p]
        /\ at'[p] = "record" /\ IsPipeline(p) /\ at[p] \in WithLock
    BY <1>1, <1>8 DEF Close, Returned, Goto, ProcsTyped, Placed, WithLock, InRun
  <2> QED
    BY <2>1 DEF Placed, Staged, IsPipeline
<1>9. CASE Discover(p) \/ SelectRevisions(p) \/ SelectPending(p)
  BY <1>9, StagePlaced
<1>10. CASE VerifyItem(p) \/ PublishItem(p)
  BY <1>1, <1>10, RestPlaced DEF VerifyItem, PublishItem
<1>11. CASE LoseLock(p)
  BY <1>11 DEF LoseLock, procs, Placed, Staged, IsPipeline
<1> QED
  BY <1>2, <1>3, <1>4, <1>5, <1>6, <1>7, <1>8, <1>9, <1>10, <1>11 DEF Work, Fault

----------------------------------------------------------------------------
(* The rows and the locks of the sources. *)

LEMMA GuardedBy ==
    RunsGuarded <=> \A s \in Sources :
        /\ running[s] \ {NoProc} = {q \in Procs : Working(q, s)}
        /\ \A q \in Procs : Holding(q, s) => lock[s] = q \/ q \in unlocked
BY DEF RunsGuarded, Working, Holding

LEMMA GuardedByNext ==
    RunsGuarded' <=> \A s \in Sources :
        /\ running'[s] \ {NoProc} = {q \in Procs : Working(q, s)'}
        /\ \A q \in Procs : Holding(q, s)' => lock'[s] = q \/ q \in unlocked'
BY DEF RunsGuarded, Working, Holding

LEMMA OthersWork ==
    ASSUME NEW p \in Procs, Apart(p), NEW s, NEW q \in Procs, q # p
    PROVE  (Working(q, s)' <=> Working(q, s)) /\ (Holding(q, s)' <=> Holding(q, s))
BY DEF Apart, Working, Holding, IsPipeline

\* A step that neither begins nor ends a run.
LEMMA StillGuarded ==
    ASSUME RunsGuarded, NEW p \in Procs, Apart(p), UNCHANGED locks,
           \A s \in Sources : (Working(p, s)' <=> Working(p, s)) /\ (Holding(p, s)' => Holding(p, s))
    PROVE  RunsGuarded'
<1>1. ASSUME NEW s \in Sources, NEW q \in Procs
      PROVE  (Working(q, s)' <=> Working(q, s)) /\ (Holding(q, s)' => Holding(q, s))
  BY OthersWork
<1>2. ASSUME NEW s \in Sources
      PROVE  {q \in Procs : Working(q, s)'} = {q \in Procs : Working(q, s)}
  BY <1>1
<1> QED
  BY <1>1, <1>2, GuardedBy, GuardedByNext DEF locks

\* A process that leaves a source, whatever it leaves behind.
LEMMA LeftGuarded ==
    ASSUME TypeOK, RunsGuarded, NEW p \in Procs, Apart(p), Unlock(p), at'[p] \notin WithLock,
           Abandon(p) \/ (running' = running /\ \A s \in Sources : ~Working(p, s))
    PROVE  RunsGuarded'
<1>1. \A s \in Sources : ~Working(p, s)' /\ ~Holding(p, s)'
  BY DEF Working, Holding, WithLock
<1>2. ASSUME NEW s \in Sources
      PROVE  running'[s] \ {NoProc} = (running[s] \ {NoProc}) \ {p}
  <2>1. p # NoProc
    BY ProcsAssumption
  <2>2. CASE Abandon(p)
    BY <2>1, <2>2 DEF Abandon
  <2>3. CASE running' = running /\ ~Working(p, s)
    BY <2>3, GuardedBy
  <2> QED
    BY <2>2, <2>3
<1>3. ASSUME NEW s \in Sources
      PROVE  {q \in Procs : Working(q, s)'} = {q \in Procs : Working(q, s)} \ {p}
  BY <1>1, OthersWork
<1>4. ASSUME NEW s \in Sources, NEW q \in Procs, Holding(q, s)'
      PROVE  lock'[s] = q \/ q \in unlocked'
  <2>1. q # p /\ Holding(q, s)
    BY <1>1, <1>4, OthersWork
  <2>2. lock[s] = q \/ q \in unlocked
    BY <2>1, GuardedBy
  <2> QED
    BY <2>1, <2>2 DEF Unlock
<1> QED
  BY <1>2, <1>3, <1>4, GuardedBy, GuardedByNext

LEMMA LockGuarded ==
    ASSUME TypeOK, RunsGuarded, NEW p \in Procs, Lock(p)
    PROVE  RunsGuarded'
<1>1. ProcsTyped /\ LocksTyped /\ Apart(p) /\ First(todo[p]) \in Sources
  BY TypeParts, LockTyped, StepApart DEF Work
<1> DEFINE r == First(todo[p])
<1>2. /\ at[p] = "next" /\ running' = running /\ unlocked' = unlocked /\ cmd' = cmd
      /\ \/ /\ lock[r] = NoProc /\ lock' = [lock EXCEPT ![r] = p]
            /\ src' = [src EXCEPT ![p] = r] /\ at' = [at EXCEPT ![p] = "open"]
         \/ UNCHANGED <<lock, src, at>>
  BY DEF Lock, Goto
<1>3. r \in Sources
  BY <1>1
<1> HIDE DEF r
<1>4. CASE UNCHANGED <<lock, src, at>>
  <2>1. \A s \in Sources : (Working(p, s)' <=> Working(p, s)) /\ (Holding(p, s)' => Holding(p, s))
    BY <1>2, <1>4 DEF Working, Holding, IsPipeline
  <2> QED
    BY <1>1, <1>2, <1>4, <2>1, StillGuarded DEF locks
<1>5. CASE /\ lock[r] = NoProc /\ lock' = [lock EXCEPT ![r] = p]
           /\ src' = [src EXCEPT ![p] = r] /\ at' = [at EXCEPT ![p] = "open"]
  <2>1. at'[p] = "open" /\ src'[p] = r /\ lock'[r] = p
    BY <1>1, <1>3, <1>5 DEF ProcsTyped, LocksTyped
  <2>2. \A s \in Sources : ~Working(p, s)' /\ ~Working(p, s) /\ (Holding(p, s)' => s = r)
    BY <1>2, <2>1 DEF Working, Holding, InRun
  <2>3. ASSUME NEW s \in Sources
        PROVE  {q \in Procs : Working(q, s)'} = {q \in Procs : Working(q, s)}
    BY <1>1, <2>2, OthersWork
  <2>4. ASSUME NEW s \in Sources, NEW q \in Procs, Holding(q, s)'
        PROVE  lock'[s] = q \/ q \in unlocked'
    <3>1. CASE q = p
      BY <2>1, <2>2, <2>4, <3>1
    <3>2. CASE q # p
      <4>1. lock[s] = q \/ q \in unlocked
        BY <1>1, <2>4, <3>2, OthersWork, GuardedBy
      <4>2. q # NoProc
        BY ProcsAssumption
      <4> QED
        BY <1>1, <1>2, <1>5, <4>1, <4>2 DEF LocksTyped
    <3> QED
      BY <3>1, <3>2
  <2> QED
    BY <1>2, <2>3, <2>4, GuardedBy, GuardedByNext
<1> QED
  BY <1>2, <1>4, <1>5

LEMMA OpenGuarded ==
    ASSUME TypeOK, RunsGuarded, NEW p \in Procs, Placed(p), Open(p)
    PROVE  RunsGuarded'
<1>1. ProcsTyped /\ LocksTyped /\ Apart(p) /\ p # NoProc
  BY TypeParts, StepApart, ProcsAssumption DEF Work
<1>2. /\ at[p] = "open" /\ at'[p] = "discover" /\ cmd'[p] = cmd[p] /\ src'[p] = src[p]
      /\ IsPipeline(p) /\ src[p] \in Sources /\ lock' = lock /\ unlocked' = unlocked
      /\ running' = [running EXCEPT ![src[p]] = @ \cup {p}]
  BY <1>1 DEF Open, Goto, ProcsTyped, Placed, WithLock
<1>3. \A s \in Sources : (Working(p, s)' <=> s = src[p]) /\ ~Working(p, s)
                         /\ (Holding(p, s)' => Holding(p, s))
  BY <1>2 DEF Working, Holding, IsPipeline, WithLock, InRun
<1>4. ASSUME NEW s \in Sources
      PROVE  running'[s] \ {NoProc} = {q \in Procs : Working(q, s)'}
  <2>1. running'[s] = IF s = src[p] THEN running[s] \cup {p} ELSE running[s]
    BY <1>1, <1>2 DEF LocksTyped
  <2>2. {q \in Procs : Working(q, s)'}
          = {q \in Procs : Working(q, s)} \cup (IF s = src[p] THEN {p} ELSE {})
    BY <1>1, <1>3, OthersWork
  <2> QED
    BY <1>1, <2>1, <2>2, GuardedBy
<1>5. ASSUME NEW s \in Sources, NEW q \in Procs, Holding(q, s)'
      PROVE  lock'[s] = q \/ q \in unlocked'
  <2>1. Holding(q, s)
    BY <1>1, <1>3, <1>5, OthersWork
  <2> QED
    BY <1>2, <2>1, GuardedBy
<1> QED
  BY <1>4, <1>5, GuardedByNext

LEMMA CloseGuarded ==
    ASSUME TypeOK, RunsGuarded, NEW p \in Procs, Placed(p), Close(p)
    PROVE  RunsGuarded'
<1>1. ProcsTyped /\ LocksTyped /\ Apart(p) /\ p # NoProc
  BY TypeParts, StepApart, ProcsAssumption DEF Work
<1>2. /\ at[p] \in InRun /\ at'[p] = "record" /\ cmd'[p] = cmd[p] /\ src'[p] = src[p]
      /\ IsPipeline(p) /\ src[p] \in Sources /\ lock' = lock /\ unlocked' = unlocked
      /\ running' = [running EXCEPT ![src[p]] = @ \ {p}]
  BY <1>1 DEF Close, Returned, Goto, ProcsTyped, Placed, WithLock, InRun
<1>3. \A s \in Sources : (Working(p, s) <=> s = src[p]) /\ ~Working(p, s)'
                         /\ (Holding(p, s)' => Holding(p, s))
  BY <1>2 DEF Working, Holding, IsPipeline, WithLock, InRun
<1>4. ASSUME NEW s \in Sources
      PROVE  running'[s] \ {NoProc} = {q \in Procs : Working(q, s)'}
  <2>1. running'[s] = IF s = src[p] THEN running[s] \ {p} ELSE running[s]
    BY <1>1, <1>2 DEF LocksTyped
  <2>2. {q \in Procs : Working(q, s)'}
          = {q \in Procs : Working(q, s)} \ (IF s = src[p] THEN {p} ELSE {})
    BY <1>1, <1>3, OthersWork
  <2> QED
    BY <1>1, <2>1, <2>2, GuardedBy
<1>5. ASSUME NEW s \in Sources, NEW q \in Procs, Holding(q, s)'
      PROVE  lock'[s] = q \/ q \in unlocked'
  <2>1. Holding(q, s)
    BY <1>1, <1>3, <1>5, OthersWork
  <2> QED
    BY <1>2, <2>1, GuardedBy
<1> QED
  BY <1>4, <1>5, GuardedByNext

LEMMA StepGuarded ==
    ASSUME TypeOK, RunsGuarded, NEW p \in Procs, Placed(p), Work(p) \/ Fault(p)
    PROVE  RunsGuarded'
<1>1. ProcsTyped /\ Apart(p)
  BY TypeParts, StepApart
<1>2. CASE End(p) \/ EndBatch(p)
  <2>1. \A s \in Sources : ~Working(p, s) /\ ~Working(p, s)' /\ ~Holding(p, s)'
    BY <1>1, <1>2, IdlePlaced DEF End, EndBatch, Working, Holding, InRun, WithLock
  <2> QED
    BY <1>1, <1>2, <2>1, StillGuarded DEF End, EndBatch
<1>3. CASE RecordAttempt(p)
  <2>1. at'[p] = "next" /\ \A s \in Sources : ~Working(p, s)
    BY <1>1, <1>3 DEF RecordAttempt, Leave, Goto, ProcsTyped, Working, InRun
  <2> QED
    BY <1>1, <1>3, <2>1, LeftGuarded DEF RecordAttempt, Leave, WithLock, InRun
<1>4. CASE Raises(p)
  <2>1. at'[p] \notin WithLock /\ Unlock(p) /\ Abandon(p)
    BY <1>1, <1>4 DEF Raises, Leave, Goto, ProcsTyped, WithLock, InRun
  <2> QED
    BY <1>1, <2>1, LeftGuarded
<1>5. CASE Crash(p)
  <2>1. at'[p] \notin WithLock /\ Unlock(p) /\ Abandon(p)
    BY <1>1, <1>5, IdlePlaced DEF Crash, WithLock, InRun
  <2> QED
    BY <1>1, <2>1, LeftGuarded
<1>6. CASE DiscoverRaises(p) \/ StageRaises(p)
  <2>1. PICK x \in StageNames : Stop(p, x) /\ at[p] \in InRun
    BY <1>6 DEF DiscoverRaises, StageRaises, StageNames, InRun
  <2>2. UNCHANGED locks
    BY <2>1 DEF Stop
  <2>3. CASE IsPipeline(p)
    <3>1. at'[p] = "close" /\ cmd'[p] = cmd[p] /\ src'[p] = src[p]
      BY <1>1, <2>1, <2>3 DEF Stop, Goto, ProcsTyped
    <3>2. \A s \in Sources :
             (Working(p, s)' <=> Working(p, s)) /\ (Holding(p, s)' => Holding(p, s))
      BY <2>1, <3>1 DEF Working, Holding, IsPipeline, WithLock, InRun
    <3> QED
      BY <1>1, <2>2, <3>2, StillGuarded
  <2>4. CASE ~IsPipeline(p)
    <3>1. \A s \in Sources : ~Working(p, s) /\ ~Working(p, s)' /\ ~Holding(p, s)'
      BY <1>1, <2>1, <2>4, IdlePlaced DEF Stop, Working, Holding, InRun, WithLock
    <3> QED
      BY <1>1, <2>2, <3>1, StillGuarded
  <2> QED
    BY <2>3, <2>4
<1>7. CASE PublishFails(p) \/ VerifyFails(p)
  <2>1. UNCHANGED <<locks, at, cmd, src>>
    BY <1>7 DEF PublishFails, VerifyFails, ItemFailed
  <2>2. \A s \in Sources : (Working(p, s)' <=> Working(p, s)) /\ (Holding(p, s)' => Holding(p, s))
    BY <2>1 DEF Working, Holding, IsPipeline
  <2> QED
    BY <1>1, <2>1, <2>2, StillGuarded
<1>8. CASE Discover(p) \/ SelectRevisions(p) \/ SelectPending(p)
  <2>1. /\ UNCHANGED <<locks, cmd, src>> /\ at'[p] \in InRun
        /\ IsPipeline(p) => at[p] \in InRun
    BY <1>1, <1>8 DEF Discover, SelectRevisions, SelectPending, Goto, ProcsTyped, Placed, InRun
  <2>2. \A s \in Sources : (Working(p, s)' <=> Working(p, s)) /\ (Holding(p, s)' => Holding(p, s))
    BY <2>1 DEF Working, Holding, IsPipeline, WithLock
  <2> QED
    BY <1>1, <2>1, <2>2, StillGuarded
<1>9. CASE VerifyItem(p) \/ PublishItem(p)
  <2>1. UNCHANGED <<locks, at, cmd, src>>
    BY <1>9 DEF VerifyItem, PublishItem
  <2>2. \A s \in Sources : (Working(p, s)' <=> Working(p, s)) /\ (Holding(p, s)' => Holding(p, s))
    BY <2>1 DEF Working, Holding, IsPipeline
  <2> QED
    BY <1>1, <2>1, <2>2, StillGuarded
<1>10. CASE LoseLock(p)
  <2>1. \A q \in Procs, s \in Sources :
           (Working(q, s)' <=> Working(q, s)) /\ (Holding(q, s)' <=> Holding(q, s))
    BY <1>10 DEF LoseLock, procs, Working, Holding, IsPipeline
  <2>2. ASSUME NEW s \in Sources
        PROVE  {q \in Procs : Working(q, s)'} = {q \in Procs : Working(q, s)}
    BY <2>1
  <2>3. ASSUME NEW s \in Sources, NEW q \in Procs, lock[s] = q \/ q \in unlocked
        PROVE  lock'[s] = q \/ q \in unlocked'
    BY <1>10, <2>3 DEF LoseLock
  <2> QED
    BY <1>10, <2>1, <2>2, <2>3, GuardedBy, GuardedByNext DEF LoseLock
<1> QED
  BY <1>2, <1>3, <1>4, <1>5, <1>6, <1>7, <1>8, <1>9, <1>10, LockGuarded, OpenGuarded,
    CloseGuarded DEF Work, Fault

----------------------------------------------------------------------------
(* The theorems. *)

LEMMA InitInvariant == Init => PipelineInvariant
<1> SUFFICES ASSUME Init PROVE PipelineInvariant
  OBVIOUS
<1>1. ItemsTyped /\ RegistryTyped /\ LocksTyped /\ CountersTyped
  BY ProcsAssumption DEF Init, ItemsTyped, RegistryTyped, LocksTyped, CountersTyped
<1>2. NoStages \in Stages
  BY DEF NoStages, Stages
<1>3. ProcsTyped
  BY <1>2 DEF Init, ProcsTyped, Labels, CommandNames
<1>4. TypeOK
  BY <1>1, <1>3, TypeParts
<1>5. ASSUME NEW p \in Procs PROVE Placed(p) /\ Staged(p)
  BY DEF Init, Placed, Staged, IsPipeline, WithLock, InRun
<1>6. \A p \in Procs, s \in Sources : ~Working(p, s) /\ ~Holding(p, s)
  BY DEF Init, Working, Holding, IsPipeline
<1>7. RunsGuarded
  BY <1>6, GuardedBy DEF Init
<1> QED
  BY <1>4, <1>5, <1>7 DEF PipelineInvariant

LEMMA NextInvariant == PipelineInvariant /\ [Next]_vars => PipelineInvariant'
<1> SUFFICES ASSUME PipelineInvariant, [Next]_vars PROVE PipelineInvariant'
  OBVIOUS
<1>1. TypeOK /\ RunsGuarded /\ ProcsTyped /\ \A q \in Procs : Placed(q) /\ Staged(q)
  BY TypeParts DEF PipelineInvariant
<1>2. ASSUME NEW p \in Procs, Work(p) \/ Fault(p)
      PROVE  PipelineInvariant'
  <2>1. TypeOK'
    <3>1. CASE SelectRevisions(p)
      BY <1>1, <3>1, SelectRevisionsTyped
    <3>2. CASE Lock(p)
      BY <1>1, <3>2, LockTyped
    <3>3. CASE Discover(p)
      <4>1. src[p] \in Sources
        BY <1>1, <3>3 DEF Discover, Placed, WithLock, InRun
      <4> QED
        BY <1>1, <3>3, <4>1, DiscoverTyped
    <3>4. CASE VerifyItem(p)
      <4>1. work[p] \subseteq Items
        BY <1>1, <3>4 DEF VerifyItem, Placed
      <4> QED
        BY <1>1, <3>4, <4>1, VerifyItemTyped
    <3> QED
      BY <1>1, <1>2, <3>1, <3>2, <3>3, <3>4, SelectPendingTyped, PublishItemTyped, OtherTyped
      DEF Work
  <2>2. Apart(p) /\ Placed(p)' /\ Staged(p)' /\ RunsGuarded'
    BY <1>1, <1>2, StepApart, StepPlaced, StepGuarded
  <2>3. \A q \in Procs : (Placed(q) /\ Staged(q))'
    BY <1>1, <2>2, ApartKeeps
  <2> QED
    BY <2>1, <2>2, <2>3 DEF PipelineInvariant
<1>3. ASSUME NEW p \in Procs, NEW c \in Commands[p], Start(p, c)
      PROVE  PipelineInvariant'
  <2>1. TypeOK' /\ Apart(p) /\ Placed(p)' /\ Staged(p)'
    BY <1>1, <1>3, StartTyped, StartApart, StartPlaced
  <2>2. \A s \in Sources : ~Working(p, s) /\ ~Working(p, s)' /\ ~Holding(p, s)'
    <3>1. /\ at[p] = "idle" /\ cmd'[p] = c
          /\ at'[p] = "next" \/ c \in {"verification", "publisher"}
      BY <1>1, <1>3 DEF Start, Goto, ProcsTyped
    <3> QED
      BY <3>1 DEF Working, Holding, IsPipeline, WithLock, InRun
  <2>3. UNCHANGED locks
    BY <1>3 DEF Start
  <2>4. RunsGuarded'
    BY <1>1, <2>1, <2>2, <2>3, StillGuarded
  <2>5. \A q \in Procs : (Placed(q) /\ Staged(q))'
    BY <1>1, <2>1, ApartKeeps
  <2> QED
    BY <2>1, <2>4, <2>5 DEF PipelineInvariant
<1>4. ASSUME UNCHANGED <<locks, procs>>
      PROVE  RunsGuarded' /\ \A q \in Procs : (Placed(q) /\ Staged(q))'
  <2>1. \A q \in Procs : Placed(q)' /\ Staged(q)'
    BY <1>1, <1>4 DEF procs, Placed, Staged, IsPipeline
  <2>2. RunsGuarded'
    BY <1>1, <1>4 DEF locks, procs, RunsGuarded, IsPipeline
  <2> QED
    BY <2>1, <2>2
<1>5. ASSUME NEW s \in Sources, Elapse(s)
      PROVE  PipelineInvariant'
  <2>1. TypeOK'
    BY <1>1, <1>5, TypeParts, TypePartsNext DEF Elapse, ItemsTyped, RegistryTyped, LocksTyped,
      ProcsTyped, CountersTyped, items, locks, procs, counters
  <2> QED
    BY <1>4, <1>5, <2>1 DEF Elapse, PipelineInvariant
<1>6. CASE Reviewers
  BY <1>1, <1>4, <1>6, ReviewersTyped DEF Reviewers, PipelineInvariant
<1>7. CASE UNCHANGED vars
  <2>1. TypeOK'
    BY <1>1, <1>7, TypeParts, TypePartsNext DEF vars, ItemsTyped, RegistryTyped, LocksTyped,
      ProcsTyped, CountersTyped, items, registry, locks, procs, counters
  <2> QED
    BY <1>4, <1>7, <2>1 DEF vars, PipelineInvariant
<1> QED
  BY <1>2, <1>3, <1>5, <1>6, <1>7 DEF Next

THEOREM PipelinesInvariant == Spec => []PipelineInvariant
BY InitInvariant, NextInvariant, PTL DEF Spec

\* Every reachable state is well typed.
THEOREM TypeCorrect == Spec => []TypeOK
<1>1. PipelineInvariant => TypeOK
  BY DEF PipelineInvariant
<1> QED
  BY <1>1, PipelinesInvariant, PTL

\* The records of a run that has returned follow from what is recorded on the way.
LEMMA RecordsFollow == PipelineInvariant => RecordsTruthful
<1> SUFFICES ASSUME PipelineInvariant, NEW p \in Procs, Returned(p)
             PROVE  /\ RunStatus(p) = "FAILED" <=> ~(Statuses(p) \subseteq {"SUCCESS", "PARTIAL"})
                    /\ stage[p]["VERIFICATION"] # "none" => stage[p]["DISCOVERY"] \in Done
                    /\ stage[p]["MASTER_PUBLISHER"] # "none" => stage[p]["VERIFICATION"] \in Done
  BY DEF RecordsTruthful, Done
<1>1. Staged(p) /\ Placed(p)
  BY DEF PipelineInvariant
<1>2. CASE at[p] = "publish" /\ IsPipeline(p)
  <2>1. \A x \in StageNames : stage[p][x] \in Done
    BY <1>1, <1>2 DEF Staged
  <2>2. Statuses(p) \subseteq Done
    BY <2>1 DEF Statuses
  <2> QED
    BY <2>1, <2>2 DEF RunStatus, Done, StageNames
<1>3. CASE at[p] = "close"
  <2>1. \E x \in StageNames : stage[p][x] = "FAILED"
    BY <1>1, <1>3 DEF Staged, StageNames
  <2>2. "FAILED" \in Statuses(p)
    BY <2>1 DEF Statuses
  <2>3. RunStatus(p) = "FAILED" /\ ~(Statuses(p) \subseteq {"SUCCESS", "PARTIAL"})
    BY <2>2 DEF RunStatus
  <2> QED
    BY <1>1, <1>3, <2>3 DEF Staged, Done
<1> QED
  BY <1>2, <1>3 DEF Returned

\* pipeline_lock.py, pipeline_history.py: the RUNNING rows of a source are those of the
\* pipelines that hold its lock or have lost it, and rows nobody will complete;
\* and a run's record says FAILED exactly when a stage of it did.
THEOREM RunsAreSound == Spec => []RunsSound
<1>1. PipelineInvariant => RunsSound
  BY RecordsFollow DEF PipelineInvariant, RunsSound
<1> QED
  BY <1>1, PipelinesInvariant, PTL

----------------------------------------------------------------------------
(* Who works on a source, who will, and what they are bound by. *)

\* p has selected i, or is about to select the revisions of its source.
Busy(p, i) ==
    /\ at[p] \in {"open", "discover", "select", "verify"} /\ src[p] = SourceOf[i]
    /\ at[p] = "verify" => i \in work[p] /\ ~DryRun(p)

\* A run of i that takes something out of the schedule is still to be expected of p:
\* of what an operator started, and of a pipeline whose lock was lost.
Unbound(p) == p \in Operators \/ p \in unlocked
Coming(p, i) == p \in Operators /\ SourceOf[i] \in todo[p]
Charge(p, i) == (Unbound(p) /\ Busy(p, i)) \/ Coming(p, i)
Charged(i) == {p \in Procs : Charge(p, i)}

\* A run that the schedule has still to make, or is making under the source's lock.
Making(p, i) == ~Unbound(p) /\ at[p] = "verify" /\ Busy(p, i)
Owed(i) == Runs(i) = {} \/ i \in wanted \/ \E p \in Procs : Making(p, i)

\* What a process holds, and what it has left to do.
Held(p) ==
    /\ \A s \in Sources : lock[s] = p => IsPipeline(p) /\ at[p] \in WithLock /\ src[p] = s
    /\ p \in unlocked => IsPipeline(p) /\ at[p] \in WithLock
    /\ at[p] = "idle" => todo[p] = {}
    /\ at[p] \in WithLock => src[p] \notin todo[p]
    /\ at[p] = "verify" => \A i \in work[p] : SourceOf[i] = src[p]
    /\ at[p] # "idle" => cmd[p] \in Commands[p]
    /\ at[p] \in {"select", "verify"} /\ ~IsPipeline(p) => cmd[p] = "verification"

\* A run for every revision, and one for each command and event.
Total(i) == Cardinality(Runs(i)) + Cardinality(Charged(i)) + (IF Owed(i) THEN 1 ELSE 0)
Budget(i) ==
    /\ IsFiniteSet(Runs(i)) /\ IsFiniteSet(Charged(i))
    /\ Total(i) <= 1 + commands + events

DemandInvariant ==
    PipelineInvariant /\ (\A p \in Procs : Held(p)) /\ \A i \in Items : Budget(i)

\* A step of p leaves the locks and the plans of the others.
Aside(p) == \A q \in Procs \ {p} :
    /\ todo'[q] = todo[q] /\ (q \in unlocked' <=> q \in unlocked)
    /\ \A s \in Sources : lock'[s] = q => lock[s] = q

LEMMA UnlockAside ==
    ASSUME TypeOK, NEW p \in Procs, Unlock(p)
    PROVE  /\ \A q \in Procs \ {p} : (q \in unlocked' <=> q \in unlocked)
                                     /\ \A s \in Sources : lock'[s] = q => lock[s] = q
           /\ p \notin unlocked' /\ \A s \in Sources : lock'[s] # p
<1>1. NoProc \notin Procs
  BY ProcsAssumption
<1>2. ASSUME NEW s \in Sources PROVE lock'[s] = IF lock[s] = p THEN NoProc ELSE lock[s]
  BY DEF Unlock
<1> QED
  BY <1>1, <1>2 DEF Unlock

LEMMA StepAside ==
    ASSUME TypeOK, NEW p \in Procs, Work(p) \/ Fault(p)
    PROVE  Aside(p)
<1>1. ProcsTyped /\ LocksTyped
  BY TypeParts
<1>2. CASE End(p) \/ EndBatch(p)
  BY <1>1, <1>2 DEF End, EndBatch, Idle, Aside, ProcsTyped, locks
<1>3. CASE Crash(p)
  <2>1. Unlock(p) /\ todo' = [todo EXCEPT ![p] = {}]
    BY <1>3 DEF Crash, Idle
  <2>2. \A q \in Procs \ {p} : todo'[q] = todo[q]
    BY <1>1, <2>1 DEF ProcsTyped
  <2> QED
    BY <2>1, <2>2, UnlockAside DEF Aside
<1>4. CASE RecordAttempt(p) \/ Raises(p)
  <2>1. Unlock(p) /\ todo' = todo
    BY <1>4 DEF RecordAttempt, Raises, Leave
  <2> QED
    BY <2>1, UnlockAside DEF Aside
<1>5. CASE DiscoverRaises(p) \/ StageRaises(p)
  <2>1. PICK x : Stop(p, x)
    BY <1>5 DEF DiscoverRaises, StageRaises
  <2>2. UNCHANGED locks /\ (todo' = todo \/ todo' = [todo EXCEPT ![p] = {}])
    BY <2>1 DEF Stop, Idle
  <2> QED
    BY <1>1, <2>2 DEF Aside, locks, ProcsTyped
<1>6. CASE PublishFails(p) \/ VerifyFails(p)
  BY <1>6 DEF PublishFails, VerifyFails, ItemFailed, Aside, locks
<1>7. CASE Lock(p)
  <2> DEFINE r == First(todo[p])
  <2>1. /\ todo' = [todo EXCEPT ![p] = @ \ {r}] /\ unlocked' = unlocked
        /\ lock' = lock \/ lock' = [lock EXCEPT ![r] = p]
    BY <1>7 DEF Lock
  <2> HIDE DEF r
  <2>2. \A q \in Procs \ {p} : todo'[q] = todo[q]
    BY <1>1, <2>1 DEF ProcsTyped
  <2>3. \A q \in Procs \ {p}, s \in Sources : lock'[s] = q => lock[s] = q
    BY <1>1, <2>1 DEF LocksTyped
  <2> QED
    BY <2>1, <2>2, <2>3 DEF Aside
<1>8. CASE Open(p) \/ Close(p)
  BY <1>8 DEF Open, Close, Aside
<1>9. CASE Discover(p) \/ SelectRevisions(p) \/ SelectPending(p)
  BY <1>9 DEF Discover, SelectRevisions, SelectPending, Aside, locks
<1>10. CASE VerifyItem(p) \/ PublishItem(p)
  BY <1>10 DEF VerifyItem, PublishItem, Aside, locks
<1>11. CASE LoseLock(p)
  <2>1. /\ todo' = todo /\ unlocked' = unlocked \cup {p}
        /\ lock' = [s \in Sources |-> IF lock[s] = p THEN NoProc ELSE lock[s]]
    BY <1>11 DEF LoseLock, procs
  <2>2. NoProc \notin Procs
    BY ProcsAssumption
  <2> QED
    BY <2>1, <2>2 DEF Aside
<1> QED
  BY <1>2, <1>3, <1>4, <1>5, <1>6, <1>7, <1>8, <1>9, <1>10, <1>11 DEF Work, Fault

LEMMA OthersHeld ==
    ASSUME NEW p \in Procs, Apart(p), Aside(p), NEW q \in Procs, q # p, Held(q)
    PROVE  Held(q)'
<1>1. /\ at'[q] = at[q] /\ cmd'[q] = cmd[q] /\ src'[q] = src[q] /\ work'[q] = work[q]
      /\ todo'[q] = todo[q] /\ (q \in unlocked' <=> q \in unlocked)
      /\ \A s \in Sources : lock'[s] = q => lock[s] = q
  BY DEF Apart, Aside
<1> QED
  BY <1>1 DEF Held, IsPipeline

LEMMA IdleHeld ==
    ASSUME TypeOK, NEW p \in Procs, Idle(p), p \notin unlocked',
           \A s \in Sources : lock'[s] # p
    PROVE  Held(p)'
<1>1. at'[p] = "idle" /\ todo'[p] = {}
  BY TypeParts DEF Idle, Goto, ProcsTyped
<1> QED
  BY <1>1 DEF Held, WithLock, InRun

\* A process that stays with its source.
LEMMA StayHeld ==
    ASSUME NEW p \in Procs, Held(p), at[p] \in WithLock, at'[p] \in WithLock,
           UNCHANGED locks, cmd'[p] = cmd[p], src'[p] = src[p], todo'[p] = todo[p],
           at'[p] = "verify" => \A i \in work'[p] : SourceOf[i] = src[p],
           at'[p] \in {"select", "verify"} /\ ~IsPipeline(p) => at[p] \in {"select", "verify"}
    PROVE  Held(p)'
BY DEF Held, IsPipeline, locks, WithLock, InRun

LEMMA StepHeld ==
    ASSUME TypeOK, NEW p \in Procs, Placed(p), Held(p), Work(p) \/ Fault(p)
    PROVE  Held(p)'
<1>1. ProcsTyped /\ LocksTyped
  BY TypeParts
<1>2. CASE End(p) \/ EndBatch(p)
  <2>1. Idle(p) /\ UNCHANGED locks /\ ~(IsPipeline(p) /\ at[p] \in WithLock)
    BY <1>2 DEF End, EndBatch, WithLock, InRun
  <2> QED
    BY <2>1, IdleHeld DEF Held, locks
<1>3. CASE Crash(p)
  BY <1>3, UnlockAside, IdleHeld DEF Crash
<1>4. CASE RecordAttempt(p) \/ Raises(p)
  <2>1. Leave(p) /\ at[p] # "idle" /\ IsPipeline(p)
    BY <1>4 DEF RecordAttempt, Raises, Returned, Placed
  <2>2. at'[p] = "next" /\ cmd' = cmd /\ p \notin unlocked' /\ \A s \in Sources : lock'[s] # p
    BY <1>1, <2>1, UnlockAside DEF Leave, Goto, ProcsTyped
  <2> QED
    BY <2>1, <2>2 DEF Held, WithLock, InRun
<1>5. CASE DiscoverRaises(p) \/ StageRaises(p)
  <2>1. PICK x : Stop(p, x)
    BY <1>5 DEF DiscoverRaises, StageRaises
  <2>2. at[p] \in InRun
    BY <1>5 DEF DiscoverRaises, StageRaises, InRun
  <2>3. CASE IsPipeline(p)
    <3>1. at'[p] = "close" /\ UNCHANGED <<cmd, src, todo, locks>>
      BY <1>1, <2>1, <2>3 DEF Stop, Goto, ProcsTyped
    <3> QED
      BY <2>2, <3>1, StayHeld DEF WithLock, InRun
  <2>4. CASE ~IsPipeline(p)
    BY <2>1, <2>4, IdleHeld DEF Stop, Held, locks
  <2> QED
    BY <2>3, <2>4
<1>6. CASE PublishFails(p) \/ VerifyFails(p) \/ VerifyItem(p) \/ PublishItem(p)
  <2>1. /\ UNCHANGED <<locks, at, cmd, src, todo>> /\ at[p] \in {"verify", "publish"}
        /\ work'[p] \subseteq work[p]
    BY <1>1, <1>6 DEF PublishFails, VerifyFails, ItemFailed, VerifyItem, PublishItem, Rest,
      ProcsTyped
  <2>2. at'[p] = "verify" => \A i \in work'[p] : SourceOf[i] = src[p]
    BY <2>1 DEF Held
  <2> QED
    BY <2>1, <2>2, StayHeld DEF WithLock, InRun
<1>7. CASE Lock(p)
  <2> DEFINE r == First(todo[p])
  <2>1. /\ todo' = [todo EXCEPT ![p] = @ \ {r}] /\ UNCHANGED <<unlocked, cmd, work>>
        /\ \/ lock' = [lock EXCEPT ![r] = p] /\ src' = [src EXCEPT ![p] = r] /\ Goto(p, "open")
           \/ UNCHANGED <<lock, src, at>>
        /\ at[p] = "next"
    BY <1>7 DEF Lock
  <2> HIDE DEF r
  <2>2. todo'[p] = todo[p] \ {r} /\ IsPipeline(p) /\ IsPipeline(p)'
    BY <1>1, <2>1 DEF ProcsTyped, Placed, IsPipeline
  <2>3. cmd'[p] = cmd[p] /\ p \notin unlocked' /\ \A s \in Sources : lock[s] # p
    BY <2>1 DEF Held, WithLock, InRun
  <2>4. CASE UNCHANGED <<lock, src, at>>
    BY <2>1, <2>2, <2>3, <2>4 DEF Held, WithLock, InRun
  <2>5. CASE lock' = [lock EXCEPT ![r] = p] /\ src' = [src EXCEPT ![p] = r] /\ Goto(p, "open")
    <3>1. at'[p] = "open" /\ src'[p] = r /\ \A s \in Sources : lock'[s] = p => s = r
      BY <1>1, <2>3, <2>5 DEF Goto, ProcsTyped, LocksTyped
    <3> QED
      BY <2>1, <2>2, <2>3, <3>1 DEF Held, WithLock, InRun
  <2> QED
    BY <2>1, <2>4, <2>5
<1>8. CASE Open(p) \/ Close(p)
  <2>1. /\ UNCHANGED <<lock, unlocked, cmd, src, todo>> /\ at[p] \in WithLock
        /\ at'[p] \in {"discover", "record"}
    BY <1>1, <1>8 DEF Open, Close, Returned, Goto, ProcsTyped, WithLock, InRun
  <2> QED
    BY <2>1 DEF Held, IsPipeline, WithLock, InRun
<1>9. CASE Discover(p) \/ SelectPending(p)
  <2>1. /\ UNCHANGED <<locks, cmd, src, todo>> /\ at[p] \in WithLock
        /\ at'[p] = "publish" \/ (at'[p] = "select" /\ IsPipeline(p))
    BY <1>1, <1>9 DEF Discover, SelectPending, Goto, ProcsTyped, Placed, WithLock, InRun
  <2> QED
    BY <2>1, StayHeld DEF WithLock, InRun
<1>10. CASE SelectRevisions(p)
  <2> DEFINE S == {i \in Items : SourceOf[i] = src[p] /\ NeedsVerification(i)}
  <2>1. UNCHANGED <<locks, cmd, src, todo>> /\ at[p] = "select" /\ at'[p] = "verify"
    BY <1>1, <1>10 DEF SelectRevisions, Goto, ProcsTyped
  <2>2. work'[p] \subseteq S
    BY <1>1, <1>10, BatchOf DEF SelectRevisions, ProcsTyped
  <2>3. \A i \in work'[p] : SourceOf[i] = src[p]
    BY <2>2
  <2> HIDE DEF S
  <2> QED
    BY <2>1, <2>3, StayHeld DEF WithLock, InRun
<1>11. CASE LoseLock(p)
  <2>1. /\ UNCHANGED procs /\ unlocked' = unlocked \cup {p}
        /\ \A s \in Sources : lock'[s] # p
        /\ \E s \in Sources : lock[s] = p
    BY <1>11, ProcsAssumption DEF LoseLock
  <2>2. IsPipeline(p) /\ at[p] \in WithLock
    BY <2>1 DEF Held
  <2> QED
    BY <2>1, <2>2 DEF Held, procs, IsPipeline
<1> QED
  BY <1>2, <1>3, <1>4, <1>5, <1>6, <1>7, <1>8, <1>9, <1>10, <1>11 DEF Work, Fault

LEMMA StartHeld ==
    ASSUME TypeOK, NEW p \in Procs, NEW c \in Commands[p], Held(p), Start(p, c)
    PROVE  Held(p)' /\ Aside(p)
<1>1. ProcsTyped /\ LocksTyped
  BY TypeParts
<1>2. at[p] = "idle" /\ todo[p] = {} /\ p \notin unlocked /\ \A s \in Sources : lock[s] # p
  BY DEF Start, Held, WithLock, InRun
<1>3. /\ cmd'[p] = c /\ UNCHANGED locks
      /\ \/ at'[p] = "next" /\ c \in {"due", "all", "pipeline", "dry"}
         \/ at'[p] = "select" /\ c = "verification" /\ todo' = todo
         \/ at'[p] = "pending" /\ c = "publisher" /\ todo' = todo
  BY <1>1 DEF Start, Goto, ProcsTyped
<1>4. Held(p)'
  BY <1>2, <1>3 DEF Held, IsPipeline, WithLock, InRun, locks
<1>5. Aside(p)
  BY <1>1, <1>3 DEF Aside, Start, ProcsTyped, locks
<1> QED
  BY <1>4, <1>5

----------------------------------------------------------------------------
(* What a step costs. *)

LEMMA OthersCharged ==
    ASSUME NEW p \in Procs, Apart(p), Aside(p), NEW i \in Items, NEW q \in Procs, q # p
    PROVE  (Charge(q, i)' <=> Charge(q, i)) /\ (Making(q, i)' <=> Making(q, i))
<1>1. /\ at'[q] = at[q] /\ cmd'[q] = cmd[q] /\ src'[q] = src[q] /\ work'[q] = work[q]
      /\ todo'[q] = todo[q] /\ (q \in unlocked' <=> q \in unlocked)
  BY DEF Apart, Aside
<1>2. Busy(q, i)' <=> Busy(q, i)
  BY <1>1 DEF Busy, DryRun
<1>3. Unbound(q)' <=> Unbound(q)
  BY <1>1 DEF Unbound
<1>4. Coming(q, i)' <=> Coming(q, i)
  BY <1>1 DEF Coming
<1> QED
  BY <1>1, <1>2, <1>3, <1>4 DEF Charge, Making

LEMMA ChargedTo ==
    ASSUME NEW p \in Procs, Apart(p), Aside(p), NEW i \in Items
    PROVE  /\ Charged(i)' \subseteq Charged(i) \cup {p}
           /\ (Charge(p, i)' => Charge(p, i)) => Charged(i)' \subseteq Charged(i)
           /\ ~Charge(p, i)' => Charged(i)' \subseteq Charged(i) \ {p}
BY OthersCharged DEF Charged

LEMMA StillOwed ==
    ASSUME NEW p \in Procs, Apart(p), Aside(p), NEW i \in Items,
           Runs(i)' = Runs(i), i \in wanted' => i \in wanted, Making(p, i)' => Owed(i)
    PROVE  Owed(i)' => Owed(i)
<1>1. ASSUME NEW q \in Procs, Making(q, i)' PROVE Owed(i)
  <2>1. CASE q = p
    BY <1>1, <2>1
  <2>2. CASE q # p
    BY <1>1, <2>2, OthersCharged DEF Owed
  <2> QED
    BY <2>1, <2>2
<1> QED
  BY <1>1 DEF Owed

LEMMA OneMore ==
    ASSUME NEW S, NEW x, IsFiniteSet(S)
    PROVE  /\ IsFiniteSet(S \cup {x}) /\ Cardinality(S) \in Nat
           /\ Cardinality(S \cup {x}) \in Nat /\ Cardinality(S \cup {x}) <= Cardinality(S) + 1
<1>1. Cardinality(S) \in Nat
  BY FS_CardinalityType
<1>2. /\ IsFiniteSet(S \cup {x})
      /\ Cardinality(S \cup {x}) = IF x \in S THEN Cardinality(S) ELSE Cardinality(S) + 1
  BY FS_AddElement
<1> QED
  BY <1>1, <1>2

\* The sums.
LEMMA BudgetSum ==
    ASSUME NEW i \in Items, Budget(i), CountersTyped, CountersTyped', Runs(i)' = Runs(i),
           \/ /\ Charged(i)' \subseteq Charged(i) /\ (Owed(i)' => Owed(i))
              /\ commands' + events' >= commands + events
           \/ /\ commands' + events' = commands + events + 1
              /\ \/ Charged(i)' \subseteq Charged(i)
                 \/ \E p : Charged(i)' \subseteq Charged(i) \cup {p} /\ (Owed(i)' => Owed(i))
    PROVE  Budget(i)'
<1> DEFINE C == Charged(i)
           D == Charged(i)'
           R == Runs(i)
           o == IF Owed(i) THEN 1 ELSE 0
           n == IF Owed(i)' THEN 1 ELSE 0
<1>1. /\ IsFiniteSet(R) /\ IsFiniteSet(C)
      /\ Cardinality(R) + Cardinality(C) + o <= 1 + commands + events
  BY DEF Budget, Total
<1>2. Cardinality(R) \in Nat /\ Cardinality(C) \in Nat
  BY <1>1, FS_CardinalityType
<1>3. commands \in Nat /\ events \in Nat /\ commands' \in Nat /\ events' \in Nat
  BY ProcsAssumption DEF CountersTyped
<1>4. o \in 0..1 /\ n \in 0..1 /\ ((Owed(i)' => Owed(i)) => n <= o)
  OBVIOUS
<1>5. D \subseteq C => IsFiniteSet(D) /\ Cardinality(D) \in Nat /\ Cardinality(D) <= Cardinality(C)
  BY <1>1, FS_Subset, FS_CardinalityType
<1>6. ASSUME NEW p, D \subseteq C \cup {p}
      PROVE  IsFiniteSet(D) /\ Cardinality(D) \in Nat /\ Cardinality(D) <= Cardinality(C) + 1
  <2>1. IsFiniteSet(C \cup {p}) /\ Cardinality(C \cup {p}) <= Cardinality(C) + 1
    BY <1>1, OneMore
  <2>2. IsFiniteSet(D) /\ Cardinality(D) <= Cardinality(C \cup {p})
    BY <1>6, <2>1, FS_Subset
  <2>3. Cardinality(D) \in Nat /\ Cardinality(C \cup {p}) \in Nat
    BY <2>1, <2>2, FS_CardinalityType
  <2> QED
    BY <1>2, <2>1, <2>2, <2>3
<1>7. /\ \/ /\ D \subseteq C /\ n <= o /\ commands' + events' >= commands + events
         \/ /\ commands' + events' = commands + events + 1
            /\ D \subseteq C \/ \E p : D \subseteq C \cup {p} /\ n <= o
      /\ Runs(i)' = R
  BY <1>4
<1>8. Budget(i)' <=> /\ IsFiniteSet(Runs(i)') /\ IsFiniteSet(D)
                     /\ Cardinality(Runs(i)') + Cardinality(D) + n <= 1 + commands' + events'
  BY DEF Budget, Total
<1> HIDE DEF C, D, R, o, n
<1>9. IsFiniteSet(Runs(i)') /\ Cardinality(Runs(i)') = Cardinality(R)
  BY <1>1, <1>7
<1>10. /\ IsFiniteSet(D) /\ Cardinality(D) \in Nat
       /\ \/ /\ Cardinality(D) <= Cardinality(C) /\ n <= o
             /\ commands' + events' >= commands + events
          \/ /\ commands' + events' = commands + events + 1
             /\ \/ Cardinality(D) <= Cardinality(C)
                \/ Cardinality(D) <= Cardinality(C) + 1 /\ n <= o
  BY <1>5, <1>6, <1>7, Zenon
<1>11. Cardinality(R) + Cardinality(D) + n <= 1 + commands' + events'
  <2>1. PICK r \in Nat, c \in Nat, d \in Nat :
            r = Cardinality(R) /\ c = Cardinality(C) /\ d = Cardinality(D)
    BY <1>2, <1>10
  <2>2. PICK a \in Nat, e \in Nat, b \in Nat, f \in Nat :
            a = commands /\ e = events /\ b = commands' /\ f = events'
    BY <1>3
  <2>3. PICK x \in 0..1, y \in 0..1 : x = o /\ y = n
    BY <1>4
  <2>4. r + c + x <= 1 + a + e
    BY <1>1, <2>1, <2>2, <2>3, Zenon
  <2>5. \/ d <= c /\ y <= x /\ b + f >= a + e
        \/ b + f = a + e + 1 /\ (d <= c \/ (d <= c + 1 /\ y <= x))
    BY <1>10, <2>1, <2>2, <2>3, Zenon
  <2>6. r + d + y <= 1 + b + f
    BY <2>4, <2>5
  <2> QED
    BY <2>1, <2>2, <2>3, <2>6, Zenon
<1> QED
  BY <1>8, <1>9, <1>10, <1>11

\* A run that is made.
LEMMA BudgetSpent ==
    ASSUME NEW i \in Items, Budget(i), CountersTyped, UNCHANGED counters,
           NEW m, Runs(i)' = Runs(i) \cup {m},
           \/ \E p \in Charged(i) : Charged(i)' \subseteq Charged(i) \ {p} /\ (Owed(i)' => Owed(i))
           \/ Charged(i)' \subseteq Charged(i) /\ Owed(i) /\ ~Owed(i)'
    PROVE  Budget(i)'
<1> DEFINE C == Charged(i)
           D == Charged(i)'
           R == Runs(i)
           Q == Runs(i)'
           o == IF Owed(i) THEN 1 ELSE 0
           n == IF Owed(i)' THEN 1 ELSE 0
<1>1. /\ IsFiniteSet(R) /\ IsFiniteSet(C)
      /\ Cardinality(R) + Cardinality(C) + o <= 1 + commands + events
  BY DEF Budget, Total
<1>2. Cardinality(R) \in Nat /\ Cardinality(C) \in Nat
  BY <1>1, FS_CardinalityType
<1>3. commands \in Nat /\ events \in Nat /\ commands' = commands /\ events' = events
  BY ProcsAssumption DEF CountersTyped, counters
<1>4. o \in 0..1 /\ n \in 0..1 /\ ((Owed(i)' => Owed(i)) => n <= o)
      /\ (Owed(i) /\ ~Owed(i)' => n + 1 = o)
  OBVIOUS
<1>5. Q = R \cup {m}
  OBVIOUS
<1>6. Budget(i)' <=> /\ IsFiniteSet(Q) /\ IsFiniteSet(D)
                     /\ Cardinality(Q) + Cardinality(D) + n <= 1 + commands' + events'
  BY DEF Budget, Total
<1>7. \/ \E p \in C : D \subseteq C \ {p} /\ n <= o
      \/ D \subseteq C /\ n + 1 = o
  BY <1>4
<1> HIDE DEF C, D, R, Q, o, n
<1>8. IsFiniteSet(Q) /\ Cardinality(Q) \in Nat /\ Cardinality(Q) <= Cardinality(R) + 1
  BY <1>1, <1>5, OneMore
<1>9. D \subseteq C => IsFiniteSet(D) /\ Cardinality(D) \in Nat /\ Cardinality(D) <= Cardinality(C)
  BY <1>1, FS_Subset, FS_CardinalityType
<1>10. ASSUME NEW p \in C, D \subseteq C \ {p}
       PROVE  IsFiniteSet(D) /\ Cardinality(D) \in Nat /\ Cardinality(D) + 1 <= Cardinality(C)
  <2>1. IsFiniteSet(C \ {p}) /\ Cardinality(C \ {p}) = Cardinality(C) - 1
    BY <1>1, FS_RemoveElement
  <2>2. IsFiniteSet(D) /\ Cardinality(D) <= Cardinality(C \ {p})
    BY <1>10, <2>1, FS_Subset
  <2>3. Cardinality(D) \in Nat
    BY <2>2, FS_CardinalityType
  <2> QED
    BY <1>2, <2>1, <2>2, <2>3
<1> QED
  BY <1>1, <1>2, <1>3, <1>4, <1>6, <1>7, <1>8, <1>9, <1>10

LEMMA PublishKeepsRuns ==
    ASSUME ItemsTyped, NEW n, Publish(n), NEW i
    PROVE  Runs(i)' = Runs(i) /\ wanted' = wanted
<1>1. DOMAIN table' = DOMAIN table /\ wanted' = wanted
  BY DEF Publish
<1>2. ASSUME NEW m \in DOMAIN table PROVE table'[m].item = table[m].item
  <2>1. table[m] \in Rows
    BY DEF ItemsTyped
  <2>2. table'[m] = table[m] \/ table'[m] = [table[m] EXCEPT !.event = TRUE]
    BY DEF Publish
  <2> QED
    BY <2>1, <2>2 DEF Rows
<1> QED
  BY <1>1, <1>2 DEF Runs

LEMMA DecideKeepsRuns ==
    ASSUME ItemsTyped, NEW n \in DOMAIN table, NEW outcome, Decide(n, outcome), NEW i
    PROVE  Runs(i)' = Runs(i)
<1>1. DOMAIN table' = DOMAIN table
  BY DEF Decide
<1>2. ASSUME NEW m \in DOMAIN table PROVE table'[m].item = table[m].item
  <2>1. table[m] \in Rows
    BY DEF ItemsTyped
  <2>2. table'[m] = table[m] \/ table'[m] = [table[m] EXCEPT !.case = outcome]
    BY DEF Decide
  <2> QED
    BY <2>1, <2>2 DEF Rows
<1> QED
  BY <1>1, <1>2 DEF Runs

LEMMA VerifyAddsRun ==
    ASSUME ItemsTyped, NEW j \in Items, Verify(j)
    PROVE  /\ Runs(j)' = Runs(j) \cup {Len(table) + 1}
           /\ \A i \in Items \ {j} : Runs(i)' = Runs(i)
           /\ wanted' = wanted \ {j}
<1>1. Scored(j).item = j /\ table \in Seq(Rows)
  BY DEF Scored, ItemsTyped
<1>2. /\ DOMAIN table' = DOMAIN table \cup {Len(table) + 1}
      /\ table'[Len(table) + 1] = Scored(j)
      /\ \A m \in DOMAIN table : table'[m] = table[m]
      /\ Len(table) + 1 \notin DOMAIN table
  BY <1>1 DEF Verify
<1> QED
  BY <1>1, <1>2 DEF Runs, Verify

----------------------------------------------------------------------------
(* A step of a process keeps the budget. *)

\* A step that makes no run, and charges nothing.
LEMMA QuietKept ==
    ASSUME NEW p \in Procs, Apart(p), Aside(p), NEW i \in Items, Budget(i),
           CountersTyped, CountersTyped', commands' + events' >= commands + events,
           Runs(i)' = Runs(i), i \in wanted' => i \in wanted,
           Charge(p, i)' => Charge(p, i), Making(p, i)' => Owed(i)
    PROVE  Budget(i)'
<1>1. Charged(i)' \subseteq Charged(i)
  BY ChargedTo
<1>2. Owed(i)' => Owed(i)
  BY StillOwed
<1> QED
  BY <1>1, <1>2, BudgetSum

Selecting == {"open", "discover", "select", "verify"}

\* p is done with its source, or leaves it.
LEMMA LeftUncharged ==
    ASSUME NEW p \in Procs, NEW i \in Items, at'[p] \notin Selecting, todo'[p] \subseteq todo[p]
    PROVE  (Charge(p, i)' => Charge(p, i)) /\ ~Making(p, i)'
<1>1. ~Busy(p, i)'
  BY DEF Busy, Selecting
<1>2. Coming(p, i)' => Coming(p, i)
  BY DEF Coming
<1> QED
  BY <1>1, <1>2 DEF Charge, Making

\* p goes on with its source, with less to do.
LEMMA StayUncharged ==
    ASSUME NEW p \in Procs, NEW i \in Items, Busy(p, i)' => Busy(p, i),
           UNCHANGED <<unlocked, todo>>, Making(p, i)' => Making(p, i) \/ Owed(i)
    PROVE  (Charge(p, i)' => Charge(p, i)) /\ (Making(p, i)' => Owed(i))
<1>1. (Unbound(p)' <=> Unbound(p)) /\ (Coming(p, i)' <=> Coming(p, i))
  BY DEF Unbound, Coming
<1> QED
  BY <1>1 DEF Charge, Owed

\* The steps after which p selects no more.
LEMMA LeaveSteps ==
    ASSUME TypeOK, NEW p \in Procs, Placed(p),
           \/ End(p) \/ EndBatch(p) \/ Crash(p) \/ RecordAttempt(p) \/ Raises(p)
           \/ DiscoverRaises(p) \/ StageRaises(p) \/ SelectPending(p) \/ PublishItem(p)
           \/ PublishFails(p) \/ Close(p)
    PROVE  at'[p] \notin Selecting /\ todo'[p] \subseteq todo[p]
<1>1. ProcsTyped
  BY TypeParts
<1>2. CASE End(p) \/ EndBatch(p) \/ Crash(p)
  BY <1>1, <1>2 DEF End, EndBatch, Crash, Idle, Goto, ProcsTyped, Selecting
<1>3. CASE RecordAttempt(p) \/ Raises(p)
  BY <1>1, <1>3 DEF RecordAttempt, Raises, Leave, Goto, ProcsTyped, Selecting
<1>4. CASE DiscoverRaises(p) \/ StageRaises(p)
  <2>1. PICK x : Stop(p, x)
    BY <1>4 DEF DiscoverRaises, StageRaises
  <2> QED
    BY <1>1, <2>1 DEF Stop, Idle, Goto, ProcsTyped, Selecting
<1>5. CASE SelectPending(p) \/ PublishItem(p) \/ PublishFails(p) \/ Close(p)
  BY <1>1, <1>5 DEF SelectPending, PublishItem, PublishFails, ItemFailed, Close, Goto,
    ProcsTyped, Selecting
<1> QED
  BY <1>2, <1>3, <1>4, <1>5

\* The steps that go on with a source.
LEMMA StaySteps ==
    ASSUME TypeOK, NEW p \in Procs, NEW i \in Items, Placed(p), Held(p),
           \/ Lock(p) \/ Open(p) \/ Discover(p) \/ SelectRevisions(p) \/ VerifyFails(p)
           \/ VerifyItem(p) /\ DryRun(p)
    PROVE  (Charge(p, i)' => Charge(p, i)) /\ (Making(p, i)' => Owed(i))
<1>1. ProcsTyped /\ LocksTyped
  BY TypeParts
<1>2. CASE Lock(p)
  <2> DEFINE r == First(todo[p])
  <2>1. /\ todo' = [todo EXCEPT ![p] = @ \ {r}] /\ unlocked' = unlocked
        /\ \/ src' = [src EXCEPT ![p] = r] /\ Goto(p, "open")
           \/ UNCHANGED <<src, at>>
        /\ at[p] = "next"
    BY <1>2 DEF Lock
  <2>2. r \in todo[p]
    <3>1. todo[p] \in SUBSET Sources /\ todo[p] # {}
      BY <1>1, <1>2 DEF ProcsTyped, Lock
    <3> QED
      BY <3>1, ItemsAssumption, FirstIn
  <2> HIDE DEF r
  <2>3. todo'[p] = todo[p] \ {r} /\ p \notin unlocked'
    BY <1>1, <2>1 DEF ProcsTyped, Held, WithLock, InRun
  <2>4. CASE src' = [src EXCEPT ![p] = r] /\ Goto(p, "open")
    <3>1. src'[p] = r /\ at'[p] = "open"
      BY <1>1, <2>4 DEF ProcsTyped, Goto
    <3>2. Busy(p, i)' => SourceOf[i] \in todo[p]
      BY <2>2, <3>1 DEF Busy
    <3>3. ~Making(p, i)'
      BY <3>1 DEF Making
    <3> QED
      BY <2>3, <3>2, <3>3 DEF Charge, Unbound, Coming
  <2>5. CASE UNCHANGED <<src, at>>
    BY <2>1, <2>3, <2>5, LeftUncharged DEF Selecting
  <2> QED
    BY <2>1, <2>4, <2>5
<1>3. CASE Open(p) \/ Discover(p)
  <2>1. /\ UNCHANGED <<unlocked, todo, src>> /\ at[p] \in {"open", "discover"}
        /\ at'[p] \in {"discover", "select"}
    BY <1>1, <1>3 DEF Open, Discover, Goto, ProcsTyped, locks
  <2>2. Busy(p, i)' => Busy(p, i)
    BY <2>1 DEF Busy
  <2>3. ~Making(p, i)'
    BY <2>1 DEF Making
  <2> QED
    BY <2>1, <2>2, <2>3, StayUncharged
<1>4. CASE SelectRevisions(p)
  <2> DEFINE S == {j \in Items : SourceOf[j] = src[p] /\ NeedsVerification(j)}
  <2>1. UNCHANGED <<unlocked, todo, src>> /\ at[p] = "select" /\ at'[p] = "verify"
    BY <1>1, <1>4 DEF SelectRevisions, Goto, ProcsTyped, locks
  <2>2. work'[p] \subseteq S
    BY <1>1, <1>4, BatchOf DEF SelectRevisions, ProcsTyped
  <2>3. Busy(p, i)' => Busy(p, i)
    BY <2>1 DEF Busy
  <2>4. Making(p, i)' => Owed(i)
    BY <2>1, <2>2 DEF Making, Busy, NeedsVerification, Owed
  <2> HIDE DEF S
  <2> QED
    BY <2>1, <2>3, <2>4, StayUncharged
<1>5. CASE VerifyFails(p) \/ VerifyItem(p)
  <2>1. UNCHANGED <<unlocked, todo, src, at, cmd>> /\ work'[p] \subseteq work[p]
    BY <1>1, <1>5 DEF VerifyFails, ItemFailed, VerifyItem, Rest, ProcsTyped, locks
  <2>2. Busy(p, i)' => Busy(p, i)
    BY <2>1 DEF Busy, DryRun
  <2>3. Making(p, i)' => Making(p, i)
    BY <2>1, <2>2 DEF Making, Unbound
  <2> QED
    BY <2>1, <2>2, <2>3, StayUncharged
<1> QED
  BY <1>2, <1>3, <1>4, <1>5

\* Only one pipeline makes a run under the lock of a source.
LEMMA MakingAlone ==
    ASSUME RunsGuarded, NEW i \in Items, NEW p \in Procs, NEW q \in Procs,
           Held(p), Held(q), Making(p, i), Making(q, i)
    PROVE  p = q
<1>1. ASSUME NEW r \in Procs, Held(r), Making(r, i) PROVE lock[SourceOf[i]] = r
  <2>1. at[r] = "verify" /\ src[r] = SourceOf[i] /\ r \notin Operators /\ r \notin unlocked
    BY <1>1 DEF Making, Busy, Unbound
  <2>2. IsPipeline(r)
    BY <1>1, <2>1, ProcsAssumption DEF Held
  <2>3. Holding(r, SourceOf[i]) /\ SourceOf[i] \in Sources
    BY <2>1, <2>2, ItemsAssumption DEF Holding, WithLock, InRun
  <2> QED
    BY <2>1, <2>3, GuardedBy
<1> QED
  BY <1>1

\* The run that is made was owed, or p was charged with it.
LEMMA VerifyKept ==
    ASSUME TypeOK, RunsGuarded, NEW p \in Procs, \A q \in Procs : Held(q),
           Placed(p), VerifyItem(p), ~DryRun(p), NEW i \in Items, Budget(i)
    PROVE  Budget(i)'
<1>1. ProcsTyped /\ ItemsTyped /\ CountersTyped /\ Apart(p) /\ Aside(p) /\ UNCHANGED counters
  BY TypeParts, StepApart, StepAside DEF Work, VerifyItem
<1>2. PICK j \in work[p] : j = First(work[p])
  BY FirstWork DEF VerifyItem
<1>3. /\ UNCHANGED <<locks, todo, src, at, cmd>> /\ at[p] = "verify"
      /\ work'[p] = work[p] \ {j} /\ Verify(j) /\ j \in Items
  BY <1>1, <1>2 DEF VerifyItem, Rest, ProcsTyped, Placed
<1>4. /\ Runs(j)' = Runs(j) \cup {Len(table) + 1}
      /\ \A k \in Items \ {j} : Runs(k)' = Runs(k)
      /\ wanted' = wanted \ {j}
  BY <1>1, <1>3, VerifyAddsRun
<1>5. /\ Busy(p, i)' <=> Busy(p, i) /\ i # j
      /\ Unbound(p)' <=> Unbound(p)
      /\ Coming(p, i)' <=> Coming(p, i)
  BY <1>3 DEF Busy, DryRun, Unbound, Coming, locks
<1>6. Charge(p, i)' => Charge(p, i)
  BY <1>5 DEF Charge
<1>7. CASE i # j
  <2>1. Runs(i)' = Runs(i) /\ (i \in wanted' => i \in wanted)
    BY <1>4, <1>7
  <2>2. Making(p, i)' => Owed(i)
    BY <1>3, <1>5 DEF Making, Owed
  <2>3. CountersTyped' /\ commands' + events' >= commands + events
    BY <1>1, ProcsAssumption DEF CountersTyped, counters
  <2> QED
    BY <1>1, <1>6, <2>1, <2>2, <2>3, QuietKept
<1>8. CASE i = j
  <2>1. Busy(p, i) /\ ~Busy(p, i)' /\ SourceOf[i] = src[p]
    BY <1>2, <1>3, <1>5, <1>8 DEF Busy, Held
  <2>2. ~Coming(p, i)
    BY <1>3, <2>1 DEF Coming, Held, WithLock, InRun
  <2>3. ~Charge(p, i)' /\ ~Making(p, i)'
    BY <1>5, <2>1, <2>2 DEF Charge, Making
  <2>4. Runs(i)' # {} /\ i \notin wanted'
    BY <1>4, <1>8
  <2>5. ASSUME NEW q \in Procs, Making(q, i)' PROVE Making(q, i) /\ q # p
    BY <1>1, <2>3, <2>5, OthersCharged
  <2>6. Owed(i)' => Owed(i)
    BY <2>4, <2>5 DEF Owed
  <2>7. CASE Unbound(p)
    <3>1. p \in Charged(i)
      BY <2>1, <2>7 DEF Charged, Charge
    <3>2. Charged(i)' \subseteq Charged(i) \ {p}
      BY <1>1, <2>3, ChargedTo
    <3> QED
      BY <1>1, <1>4, <1>8, <2>6, <3>1, <3>2, BudgetSpent
  <2>8. CASE ~Unbound(p)
    <3>1. Making(p, i)
      BY <1>3, <2>1, <2>8 DEF Making
    <3>2. ~Owed(i)'
      BY <2>4, <2>5, <3>1, MakingAlone DEF Owed
    <3>3. Owed(i)
      BY <3>1 DEF Owed
    <3>4. Charged(i)' \subseteq Charged(i)
      BY <1>1, <1>6, ChargedTo
    <3> QED
      BY <1>1, <1>4, <1>8, <3>2, <3>3, <3>4, BudgetSpent
  <2> QED
    BY <2>7, <2>8
<1> QED
  BY <1>7, <1>8

\* What the steps of a process leave of the runs and of the counters.
LEMMA StepRuns ==
    ASSUME TypeOK, NEW p \in Procs, Work(p) \/ Fault(p), ~VerifyItem(p) \/ DryRun(p), NEW i \in Items
    PROVE  Runs(i)' = Runs(i) /\ wanted' = wanted
<1>1. (UNCHANGED items) => Runs(i)' = Runs(i) /\ wanted' = wanted
  BY DEF items, Runs
<1>2. CASE Discover(p)
  <2>1. table' = table /\ wanted' = wanted
    BY <1>2 DEF Discover, Persist, items
  <2> QED
    BY <2>1 DEF Runs
<1>3. CASE PublishItem(p)
  <2>1. (UNCHANGED items) \/ Publish(First(work[p]))
    BY <1>3 DEF PublishItem
  <2> QED
    BY <1>1, <2>1, TypeParts, PublishKeepsRuns
<1>4. CASE UNCHANGED items
  BY <1>1, <1>4
<1>5. \/ UNCHANGED items
      \/ Discover(p) \/ PublishItem(p)
  BY DEF Work, Fault, End, Lock, Open, DiscoverRaises, SelectRevisions, VerifyItem, SelectPending,
    PublishFails, EndBatch, Close, RecordAttempt, VerifyFails, StageRaises, Raises, Crash, LoseLock,
    ItemFailed, Stop
<1> QED
  BY <1>2, <1>3, <1>4, <1>5

LEMMA StepCounts ==
    ASSUME TypeOK, NEW p \in Procs, Work(p) \/ Fault(p)
    PROVE  /\ CountersTyped' /\ commands' + events' >= commands + events
           /\ LoseLock(p) => commands' + events' = commands + events + 1
<1>1. commands \in Nat /\ events \in Nat
  BY ProcsAssumption, TypeParts DEF CountersTyped
<1>2. CASE Unscheduled
  BY <1>1, <1>2, TypeParts, UnscheduledTyped DEF Unscheduled
<1>3. CASE (UNCHANGED counters) /\ ~LoseLock(p)
  BY <1>1, <1>3, TypeParts DEF counters, CountersTyped
<1>4. Fault(p) => Unscheduled
  BY DEF Fault, VerifyFails, StageRaises, Raises, Crash, LoseLock
<1>5. Work(p) => UNCHANGED counters
  BY DEF Work, End, Lock, Open, Discover, DiscoverRaises, SelectRevisions, VerifyItem,
    SelectPending, PublishItem, PublishFails, EndBatch, Close, RecordAttempt
<1>6. LoseLock(p) => Fault(p)
  BY DEF Fault
<1> QED
  BY <1>2, <1>3, <1>4, <1>5, <1>6

LEMMA StepBudget ==
    ASSUME PipelineInvariant, \A q \in Procs : Held(q), NEW p \in Procs, Work(p) \/ Fault(p),
           NEW i \in Items, Budget(i)
    PROVE  Budget(i)'
<1>1. /\ TypeOK /\ RunsGuarded /\ Placed(p) /\ Held(p) /\ Apart(p) /\ Aside(p)
      /\ CountersTyped /\ CountersTyped' /\ commands' + events' >= commands + events
  BY TypeParts, StepApart, StepAside, StepCounts DEF PipelineInvariant
<1>2. CASE VerifyItem(p) /\ ~DryRun(p)
  BY <1>1, <1>2, VerifyKept
<1>3. CASE ~VerifyItem(p) \/ DryRun(p)
  <2>1. Runs(i)' = Runs(i) /\ wanted' = wanted
    BY <1>1, <1>3, StepRuns
  <2>2. CASE LoseLock(p)
    <3>1. UNCHANGED procs /\ p \in unlocked'
      BY <2>2 DEF LoseLock
    <3>2. ~Making(p, i)'
      BY <3>1 DEF Making, Unbound
    <3>3. Owed(i)' => Owed(i)
      BY <1>1, <2>1, <3>2, StillOwed
    <3>4. Charged(i)' \subseteq Charged(i) \cup {p}
      BY <1>1, ChargedTo
    <3>5. commands' + events' = commands + events + 1
      BY <1>1, <2>2, StepCounts
    <3> QED
      BY <1>1, <2>1, <3>3, <3>4, <3>5, BudgetSum
  <2>3. CASE ~LoseLock(p)
    <3>1. \/ \/ End(p) \/ EndBatch(p) \/ Crash(p) \/ RecordAttempt(p) \/ Raises(p)
             \/ DiscoverRaises(p) \/ StageRaises(p) \/ SelectPending(p) \/ PublishItem(p)
             \/ PublishFails(p) \/ Close(p)
          \/ \/ Lock(p) \/ Open(p) \/ Discover(p) \/ SelectRevisions(p) \/ VerifyFails(p)
             \/ VerifyItem(p) /\ DryRun(p)
      BY <1>3, <2>3 DEF Work, Fault
    <3>2. (Charge(p, i)' => Charge(p, i)) /\ (Making(p, i)' => Owed(i))
      BY <1>1, <3>1, LeaveSteps, LeftUncharged, StaySteps
    <3> QED
      BY <1>1, <2>1, <3>2, QuietKept
  <2> QED
    BY <2>2, <2>3
<1> QED
  BY <1>2, <1>3

LEMMA StartBudget ==
    ASSUME PipelineInvariant, NEW p \in Procs, Held(p), NEW c \in Commands[p], Start(p, c),
           NEW i \in Items, Budget(i)
    PROVE  Budget(i)'
<1>1. /\ TypeOK /\ ProcsTyped /\ Apart(p) /\ Aside(p) /\ CountersTyped /\ CountersTyped'
  BY TypeParts, TypePartsNext, StartApart, StartHeld, StartTyped DEF PipelineInvariant
<1>2. Runs(i)' = Runs(i) /\ wanted' = wanted
  BY DEF Start, items, Runs
<1>3. commands \in Nat /\ events \in Nat
  BY <1>1, ProcsAssumption DEF CountersTyped
<1>4. /\ p \notin unlocked' /\ events' = events
      /\ \/ at'[p] = "next" \/ at'[p] = "pending"
         \/ at'[p] = "select" /\ c = "verification"
  BY <1>1 DEF Start, Held, Goto, ProcsTyped, locks, WithLock, InRun
<1>5. ~Making(p, i)'
  BY <1>4 DEF Making
<1>6. CASE p \in Operators
  <2>1. commands' + events' = commands + events + 1
    BY <1>3, <1>4, <1>6 DEF Start
  <2>2. Owed(i)' => Owed(i)
    BY <1>1, <1>2, <1>5, StillOwed
  <2>3. Charged(i)' \subseteq Charged(i) \cup {p}
    BY <1>1, ChargedTo
  <2> QED
    BY <1>1, <1>2, <2>1, <2>2, <2>3, BudgetSum
<1>7. CASE p \notin Operators
  <2>1. ~Charge(p, i)'
    BY <1>4, <1>7 DEF Charge, Unbound, Coming
  <2>2. commands' + events' >= commands + events
    BY <1>3, <1>4, <1>7 DEF Start
  <2> QED
    BY <1>1, <1>2, <1>5, <2>1, <2>2, QuietKept
<1> QED
  BY <1>6, <1>7

\* The processes stand still: a reviewer, the passing of time.
LEMMA StillBudget ==
    ASSUME UNCHANGED <<locks, procs>>, NEW i \in Items, Budget(i), CountersTyped, CountersTyped',
           Runs(i)' = Runs(i),
           \/ (i \in wanted' => i \in wanted) /\ commands' + events' >= commands + events
           \/ commands' + events' = commands + events + 1
    PROVE  Budget(i)'
<1>1. ASSUME NEW q \in Procs
      PROVE  (Charge(q, i)' <=> Charge(q, i)) /\ (Making(q, i)' <=> Making(q, i))
  <2>1. Busy(q, i)' <=> Busy(q, i)
    BY DEF Busy, DryRun, procs
  <2>2. (Unbound(q)' <=> Unbound(q)) /\ (Coming(q, i)' <=> Coming(q, i))
    BY DEF Unbound, Coming, procs, locks
  <2> QED
    BY <2>1, <2>2 DEF Charge, Making, procs
<1>2. Charged(i)' \subseteq Charged(i)
  BY <1>1 DEF Charged
<1>3. (i \in wanted' => i \in wanted) => (Owed(i)' => Owed(i))
  BY <1>1 DEF Owed
<1> QED
  BY <1>2, <1>3, BudgetSum

LEMMA ReviewersBudget ==
    ASSUME TypeOK, Reviewers, NEW i \in Items, Budget(i)
    PROVE  Budget(i)'
<1>1. ItemsTyped /\ CountersTyped /\ CountersTyped' /\ UNCHANGED <<locks, procs>>
  BY TypeParts, TypePartsNext, ReviewersTyped DEF Reviewers
<1>2. commands \in Nat /\ events \in Nat
  BY <1>1, ProcsAssumption DEF CountersTyped
<1>3. PICK n \in DOMAIN table :
          \/ PublishReviewed(n) /\ UNCHANGED counters
          \/ \E outcome \in Outcomes :
                /\ Decide(n, outcome)
                /\ IF outcome = "REVERIFICATION_REQUESTED"
                   THEN Unscheduled ELSE UNCHANGED counters
  BY DEF Reviewers
<1>4. CASE PublishReviewed(n) /\ UNCHANGED counters
  <2>1. Runs(i)' = Runs(i) /\ wanted' = wanted
    BY <1>1, <1>4, PublishKeepsRuns DEF PublishReviewed
  <2>2. commands' + events' >= commands + events
    BY <1>2, <1>4 DEF counters
  <2> QED
    BY <1>1, <2>1, <2>2, StillBudget
<1>5. ASSUME NEW outcome \in Outcomes, Decide(n, outcome),
             IF outcome = "REVERIFICATION_REQUESTED" THEN Unscheduled ELSE UNCHANGED counters
      PROVE  Budget(i)'
  <2>1. Runs(i)' = Runs(i)
    BY <1>1, <1>5, DecideKeepsRuns
  <2>2. CASE outcome = "REVERIFICATION_REQUESTED"
    <3>1. commands' + events' = commands + events + 1
      BY <1>2, <1>5, <2>2 DEF Unscheduled
    <3> QED
      BY <1>1, <2>1, <3>1, StillBudget
  <2>3. CASE outcome # "REVERIFICATION_REQUESTED"
    <3>1. wanted' = wanted /\ commands' + events' >= commands + events
      BY <1>2, <1>5, <2>3 DEF Decide, counters
    <3> QED
      BY <1>1, <2>1, <3>1, StillBudget
  <2> QED
    BY <2>2, <2>3
<1> QED
  BY <1>3, <1>4, <1>5

LEMMA InitDemand == Init => DemandInvariant
<1> SUFFICES ASSUME Init PROVE DemandInvariant
  OBVIOUS
<1>1. ASSUME NEW p \in Procs PROVE Held(p)
  BY ProcsAssumption DEF Init, Held, WithLock, InRun
<1>2. ASSUME NEW i \in Items PROVE Budget(i)
  <2>1. Runs(i) = {}
    BY DEF Init, Runs
  <2>2. Charged(i) = {}
    BY DEF Init, Charged, Charge, Unbound, Coming, Busy
  <2>3. commands = 0 /\ events = 0
    BY DEF Init
  <2> QED
    BY <2>1, <2>2, <2>3, FS_EmptySet DEF Budget, Total
<1> QED
  BY <1>1, <1>2, InitInvariant DEF DemandInvariant

LEMMA NextDemand == DemandInvariant /\ [Next]_vars => DemandInvariant'
<1> SUFFICES ASSUME DemandInvariant, [Next]_vars PROVE DemandInvariant'
  OBVIOUS
<1>1. /\ PipelineInvariant /\ PipelineInvariant' /\ \A q \in Procs : Held(q)
      /\ \A i \in Items : Budget(i)
  BY NextInvariant DEF DemandInvariant
<1>2. TypeOK /\ ProcsTyped /\ CountersTyped /\ CountersTyped' /\ \A q \in Procs : Placed(q)
  BY <1>1, TypeParts, TypePartsNext DEF PipelineInvariant
<1>3. ASSUME NEW p \in Procs, Work(p) \/ Fault(p)
      PROVE  DemandInvariant'
  <2>1. Apart(p) /\ Aside(p) /\ Held(p)'
    BY <1>1, <1>2, <1>3, StepApart, StepAside, StepHeld
  <2>2. \A q \in Procs : Held(q)'
    BY <1>1, <2>1, OthersHeld
  <2>3. \A i \in Items : Budget(i)'
    BY <1>1, <1>3, StepBudget
  <2> QED
    BY <1>1, <2>2, <2>3 DEF DemandInvariant
<1>4. ASSUME NEW p \in Procs, NEW c \in Commands[p], Start(p, c)
      PROVE  DemandInvariant'
  <2>1. Apart(p) /\ Aside(p) /\ Held(p)'
    BY <1>1, <1>2, <1>4, StartApart, StartHeld
  <2>2. \A q \in Procs : Held(q)'
    BY <1>1, <2>1, OthersHeld
  <2>3. \A i \in Items : Budget(i)'
    BY <1>1, <1>4, StartBudget
  <2> QED
    BY <1>1, <2>2, <2>3 DEF DemandInvariant
<1>5. ASSUME UNCHANGED <<locks, procs>>
      PROVE  \A q \in Procs : Held(q)'
  BY <1>1, <1>5 DEF Held, IsPipeline, locks, procs
<1>6. CASE Reviewers
  BY <1>1, <1>2, <1>5, <1>6, ReviewersBudget DEF Reviewers, DemandInvariant
<1>7. ASSUME UNCHANGED <<locks, procs, items, counters>>
      PROVE  DemandInvariant'
  <2>1. ASSUME NEW i \in Items PROVE Budget(i)'
    <3>1. Runs(i)' = Runs(i) /\ wanted' = wanted
      BY <1>7 DEF items, Runs
    <3>2. commands' + events' >= commands + events
      BY <1>2, <1>7, ProcsAssumption DEF CountersTyped, counters
    <3>3. UNCHANGED <<locks, procs>>
      BY <1>7
    <3> QED
      BY <1>1, <1>2, <3>1, <3>2, <3>3, StillBudget
  <2> QED
    BY <1>1, <1>5, <1>7, <2>1 DEF DemandInvariant
<1>8. ASSUME NEW s \in Sources, Elapse(s) PROVE DemandInvariant'
  BY <1>7, <1>8 DEF Elapse
<1>9. CASE UNCHANGED vars
  BY <1>7, <1>9 DEF vars
<1> QED
  BY <1>3, <1>4, <1>6, <1>8, <1>9 DEF Next

THEOREM DemandsInvariant == Spec => []DemandInvariant
BY InitDemand, NextDemand, PTL DEF Spec

\* verification_worker.py:115-183: whatever pipelines, workers and reviewers run beside each
\* other, a revision is verified once, and once more only for a command of an operator, a
\* request, a failure or a lost lock.
THEOREM VerificationOnDemand == Spec => []VerifiedOnDemand
<1>1. DemandInvariant => VerifiedOnDemand
  <2> SUFFICES ASSUME DemandInvariant, NEW i \in Items
               PROVE  Cardinality(Runs(i)) <= 1 + commands + events
    BY DEF VerifiedOnDemand
  <2>1. /\ IsFiniteSet(Runs(i)) /\ IsFiniteSet(Charged(i))
        /\ Cardinality(Runs(i)) + Cardinality(Charged(i)) + (IF Owed(i) THEN 1 ELSE 0)
              <= 1 + commands + events
    BY DEF DemandInvariant, Budget, Total
  <2>2. Cardinality(Runs(i)) \in Nat /\ Cardinality(Charged(i)) \in Nat
    BY <2>1, FS_CardinalityType
  <2>3. commands \in Nat /\ events \in Nat
    BY TypeParts, ProcsAssumption DEF DemandInvariant, PipelineInvariant, CountersTyped
  <2> QED
    BY <2>1, <2>2, <2>3
<1> QED
  BY <1>1, DemandsInvariant, PTL
=============================================================================
