--------------------------- MODULE PipelineItems ---------------------------
(***************************************************************************)
(* What the pipelines of all sources work on: candidate revisions, the     *)
(* Confidence assessments of their verification runs, and the reviews and  *)
(* publications of those.  The workers' rules for choosing work are here;  *)
(* who applies them, and when, is in SourcePipelines.                      *)
(*                                                                         *)
(* The rows of `table' are assessments in the order of their creation.  A  *)
(* row stands for the one assessment of a verification run the publisher   *)
(* looks at: the V2 one when there is one.  A review is reduced to the     *)
(* status or outcome the workers read.                                     *)
(***************************************************************************)
EXTENDS Naturals, Sequences, FiniteSets

CONSTANTS
    Items,          \* candidate revisions, numbers in the order of creation
    Sources,        \* sources, numbers in the order of priority and code
    SourceOf,       \* the source of a revision
    Route,          \* what routing says of a revision: "direct" or "review"
    Poison,         \* revisions whose publication always fails
    BatchSize       \* verification_batch_size, master_publisher_batch_size

ASSUME ItemsAssumption ==
    /\ Items \subseteq Nat /\ Sources \subseteq Nat
    /\ SourceOf \in [Items -> Sources]
    /\ Route \in [Items -> {"direct", "review"}]
    /\ Poison \subseteq Items
    /\ BatchSize \in Nat \ {0}

VARIABLES
    revisions,      \* the revisions discovery has persisted
    table,          \* the assessments, in the order of their creation
    wanted          \* revisions with a reverification newer than their runs

items == <<revisions, table, wanted>>

\* No worker tells a rejected case from a cancelled one.
Outcomes == {"APPROVED", "REFUSED", "REVERIFICATION_REQUESTED"}
Cases == Outcomes \cup {"none", "QUEUED"}

\* A queued case is made in the transaction that scores a run to be reviewed.
Scored(i) ==
    [item |-> i, route |-> Route[i], event |-> FALSE,
     case |-> IF Route[i] = "review" THEN "QUEUED" ELSE "none"]

Runs(i) == {n \in DOMAIN table : table[n].item = i}

----------------------------------------------------------------------------
(* The selection of work.                                                  *)

\* _needs_verification: never scored, or a newer request to verify again.
NeedsVerification(i) == i \in revisions /\ (Runs(i) = {} \/ i \in wanted)

Approved(a) == a.route = "direct" \/ a.case = "APPROVED"

\* _incremental_publication_statement.
Actionable(a) == Approved(a) /\ ~a.event
Pending == {n \in DOMAIN table : Actionable(table[n])}

\* The oldest of S, at most a batch of them.
Batch(S) == {n \in S : Cardinality({m \in S : m < n}) < BatchSize}

First(S) == CHOOSE n \in S : \A m \in S : n <= m

----------------------------------------------------------------------------
(* The effects of the workers, each one transaction, and of reviewers.     *)

\* What a source may deliver next: revisions are numbered as they are made.
NewRevisions(s) ==
    {new \in SUBSET {i \in Items \ revisions : SourceOf[i] = s} :
        \A i \in new, j \in Items \ new : SourceOf[j] = s /\ j < i => j \in revisions}

Persist(new) == revisions' = revisions \cup new /\ UNCHANGED <<table, wanted>>

\* Mutant: a request is not compared with the run that followed it.
VerifyAgain(i) ==
    /\ table' = Append(table, Scored(i))
    /\ UNCHANGED <<revisions, wanted>>

\* The run of a revision, its scores, its routing and its queued case.
Verify(i) ==
    /\ table' = Append(table, Scored(i))
    /\ wanted' = wanted \ {i}
    /\ UNCHANGED revisions

\* publish: a replayed publication changes nothing.
Publish(n) ==
    /\ table' = [table EXCEPT ![n].event = TRUE]
    /\ UNCHANGED <<revisions, wanted>>

\* A reviewer resolves or cancels a case.
Decide(n, outcome) ==
    /\ table[n].case = "QUEUED"
    /\ table' = [table EXCEPT ![n].case = outcome]
    /\ wanted' = IF outcome = "REVERIFICATION_REQUESTED"
                 THEN wanted \cup {table[n].item} ELSE wanted
    /\ UNCHANGED revisions

\* A reviewer publishes from the review workspace: the approved Posts of a
\* case that is still open, or a resolved case, before the worker does.
PublishReviewed(n) ==
    /\ table[n].route = "review" /\ table[n].case \in {"QUEUED", "APPROVED"}
    /\ ~table[n].event
    /\ Publish(n)
=============================================================================
