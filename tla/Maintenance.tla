---------------------------- MODULE Maintenance ----------------------------
(***************************************************************************)
(* What operators do to one advertisement beside reviewing it: the         *)
(* correction of a published job (PublishedMaintenanceService), the facts  *)
(* added to an open case (ReviewEnrichmentService) and the Posts given to  *)
(* an unsplit one (PostStructureReviewService).  Each makes a successor of *)
(* an immutable revision, verifies it and opens its case, or republishes   *)
(* it, in one transaction.                                                 *)
(*                                                                         *)
(* A transaction is cut between what it checks first and its writes where  *)
(* nothing locks in between; a correction holds the Master's row FOR       *)
(* UPDATE, and reads it with its writes.  A revision number or a hash that *)
(* is taken meanwhile rolls a transaction back, which changes nothing.     *)
(***************************************************************************)
EXTENDS Naturals, Sequences, FiniteSets, SequencesExt

CONSTANTS
    Operators, Texts, Missing,
    Readings,       \* the structure and facts that are read from a document
    MaxRevisions, MaxDocuments

VARIABLES
    revision,       \* the candidate's revisions, in the order of their numbers
    case,           \* the review case of each revision
    approved,       \* the facts approved by the review of each revision
    published,      \* the revisions the Master has had, the last is current
    operator        \* what each operator is doing, and to which revision

maintenanceVars == <<revision, case, approved, published, operator>>

\* "plain" is a fact of a whole advertisement, and "post" the same of its Post.
Paths == {"closing", "plain", "post"}
PathsOf(split) == IF split THEN Paths ELSE Paths \ {"post"}
Facts(split) == {f \in [Paths -> Texts \cup {Missing}] :
                    \A p \in Paths \ PathsOf(split) : f[p] = Missing}

ASSUME MaintenanceAssumption ==
    /\ Missing \notin Texts /\ MaxRevisions \in Nat /\ MaxDocuments \in Nat
    /\ \A read \in Readings : read.split \in BOOLEAN /\ read.facts \in Facts(read.split)

Idle == [doing |-> "nothing", on |-> 0, was |-> "none"]
Numbers == DOMAIN revision

MaintenanceInit ==
    /\ revision = <<>> /\ case = <<>> /\ approved = <<>> /\ published = <<>>
    /\ operator = [o \in Operators |-> Idle]

----------------------------------------------------------------------------
(* Revisions.  The hash covers the document, the structure and the facts.  *)

Existing(doc, split, facts) ==
    \E n \in Numbers : /\ revision[n].doc = doc /\ revision[n].split = split
                       /\ revision[n].facts = facts

\* create_revision and the verification of the new revision; backed are the
\* facts that have evidence.
Add(r, status) ==
    /\ Len(revision) < MaxRevisions
    /\ ~Existing(r.doc, r.split, r.facts)
    /\ revision' = Append(revision, r)
    /\ case' = Append(case, status)
    /\ approved' = Append(approved, r.facts)

Extractions == {revision[n].doc : n \in Numbers}
Present(facts) == {p \in Paths : facts[p] # Missing}

ExtractDocument ==
    /\ Cardinality(Extractions) < MaxDocuments
    /\ \E read \in Readings :
          Add([doc |-> Cardinality(Extractions) + 1, split |-> read.split,
               facts |-> read.facts, backed |-> Present(read.facts),
               by |-> "discovery", from |-> 0, changed |-> {}], "open")
    /\ UNCHANGED <<published, operator>>

----------------------------------------------------------------------------
(* Review and publication, in the parts that these services meet.          *)

\* A reviewer may correct a value.
Approve(n) ==
    /\ case[n] = "open"
    /\ case' = [case EXCEPT ![n] = "approved"]
    /\ \/ UNCHANGED approved
       \/ \E p \in Present(revision[n].facts), t \in Texts :
             approved' = [approved EXCEPT ![n][p] = t]
    /\ UNCHANGED <<revision, published, operator>>

CancelReview(n) ==
    /\ case[n] = "open"
    /\ case' = [case EXCEPT ![n] = "cancelled"]
    /\ UNCHANGED <<revision, approved, published, operator>>

PublishReviewed(n) ==
    /\ case[n] = "approved" /\ n \notin Range(published)
    /\ published' = Append(published, n)
    /\ UNCHANGED <<revision, case, approved, operator>>

----------------------------------------------------------------------------
(* Published maintenance.                                                  *)

Editable(r) == IF r.split THEN {"closing", "post"} ELSE {"closing", "plain"}

OpenForm(o) ==
    /\ operator[o].doing = "nothing" /\ published # <<>>
    /\ operator' = [operator EXCEPT ![o] =
          [Idle EXCEPT !.doing = "edit", !.on = Last(published)]]
    /\ UNCHANGED <<revision, case, approved, published>>

\* An unchanged fact keeps the evidence of its own value.
KeptEvidence(r, facts, changed) ==
    {p \in r.backed \ changed : facts[p] = r.facts[p]}

\* Mutant: the form's revision is not compared with the current one.
AnyForm(o) == operator[o].doing = "edit"

FormCurrent(o) == operator[o].doing = "edit" /\ operator[o].on = Last(published)

\* The correction starts from the approved facts of the revision the form
\* showed, which is still current; a blank input erases nothing.  The new case
\* is approved and published with it.
Republish(o) ==
    /\ FormCurrent(o)
    /\ LET n == Last(published) IN
       \E facts \in Facts(revision[n].split) :
          LET changed == {p \in Paths : facts[p] # approved[n][p]} IN
          /\ changed # {} /\ changed \subseteq Editable(revision[n]) \cap Present(facts)
          /\ Add([revision[n] EXCEPT !.facts = facts, !.by = "edit",
                    !.from = operator[o].on, !.changed = changed,
                    !.backed = KeptEvidence(revision[n], facts, changed)], "approved")
          /\ published' = Append(published, Len(revision'))
    /\ operator' = [operator EXCEPT ![o] = Idle]

----------------------------------------------------------------------------
(* Enrichment and structure, of the case an operator looks at.             *)

BeginOn(o, n, work) ==
    /\ operator[o].doing = "nothing"
    /\ operator' = [operator EXCEPT ![o] = [doing |-> work, on |-> n, was |-> case[n]]]
    /\ UNCHANGED <<revision, case, approved, published>>

BeginEnrich(o, n) == case[n] = "open" /\ BeginOn(o, n, "enrich")
BeginStructure(o, n) == ~revision[n].split /\ BeginOn(o, n, "structure")

\* The successor gets a case of its own, and that of its predecessor is
\* cancelled: again, if somebody else has cancelled it, but not once resolved.
Succeed(r, n) ==
    /\ Len(revision) < MaxRevisions /\ ~Existing(r.doc, r.split, r.facts)
    /\ case[n] # "approved"
    /\ revision' = Append(revision, r)
    /\ case' = Append([case EXCEPT ![n] = "cancelled"], "open")
    /\ approved' = Append(approved, r.facts)

Done(o) == operator' = [operator EXCEPT ![o] = Idle] /\ UNCHANGED published

\* Only what is missing can be added.
Enrich(o) ==
    /\ operator[o].doing = "enrich"
    /\ LET n == operator[o].on IN
       \E facts \in Facts(revision[n].split) :
          LET added == {p \in Paths : facts[p] # revision[n].facts[p]} IN
          /\ added # {}
          /\ added \subseteq Editable(revision[n]) \ Present(revision[n].facts)
          /\ Succeed([revision[n] EXCEPT !.facts = facts, !.by = "enrichment", !.from = n,
                        !.changed = added,
                        !.backed = KeptEvidence(revision[n], facts, added)], n)
    /\ Done(o)

\* The Post's fact is the operator's, the facts of the advertisement stay.  A
\* case that was resolved when the operator looked stays so.
Structure(o) ==
    /\ operator[o].doing = "structure" /\ operator[o].was # "cancelled"
    /\ LET n == operator[o].on IN
       \E t \in Texts \cup {Missing} :
          LET r == [revision[n] EXCEPT !.facts.post = t, !.split = TRUE,
                       !.by = "structure", !.from = n, !.changed = {"post"}]
          IN  IF operator[o].was = "open" THEN Succeed(r, n) ELSE Add(r, "open")
    /\ Done(o)

\* A conflict, nothing to change, or an operator who gives up.
LeaveForm(o) ==
    /\ operator[o].doing # "nothing"
    /\ operator' = [operator EXCEPT ![o] = Idle]
    /\ UNCHANGED <<revision, case, approved, published>>

MaintenanceNext ==
    \/ ExtractDocument
    \/ \E n \in Numbers : Approve(n) \/ CancelReview(n) \/ PublishReviewed(n)
    \/ \E o \in Operators :
          \/ OpenForm(o) \/ Republish(o) \/ Enrich(o) \/ Structure(o) \/ LeaveForm(o)
          \/ \E n \in Numbers : BeginEnrich(o, n) \/ BeginStructure(o, n)

MaintenanceSpec == MaintenanceInit /\ [][MaintenanceNext]_maintenanceVars

----------------------------------------------------------------------------
Extracted(d) == CHOOSE n \in Numbers : revision[n].doc = d /\ revision[n].by = "discovery"

\* Evidence stands only for the value that was read from the document, however
\* often the fact was corrected, restored, enriched or restructured; a
\* correction is published right after the revision its operator saw and
\* differs from it in nothing else; and what was enriched or restructured is
\* not left under review beside its successor.
MaintenanceSound ==
    /\ \A n \in Numbers : \A p \in revision[n].backed :
          revision[n].facts[p] = revision[Extracted(revision[n].doc)].facts[p]
    /\ \A i \in DOMAIN published : LET r == revision[published[i]] IN
          r.by = "edit" =>
             /\ i > 1 /\ published[i - 1] = r.from
             /\ \A p \in Paths \ r.changed : r.facts[p] = approved[r.from][p]
    /\ \A n \in Numbers :
          revision[n].by \in {"enrichment", "structure"} => case[revision[n].from] # "open"
=============================================================================
