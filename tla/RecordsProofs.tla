---------------------------- MODULE RecordsProofs ----------------------------
(***************************************************************************)
(* Proofs about what concurrent sessions write of a source: Maintenance,   *)
(* for any documents, texts and operators; Monitoring, for any monitors,   *)
(* channels and bounds; and the two of them beside Discovery, as they are  *)
(* put together in MCSourceRecords.                                        *)
(***************************************************************************)
EXTENDS MCSourceRecords, DiscoveryProofs, SequenceTheorems, FiniteSetTheorems,
        NaturalsInduction, WellFoundedInduction, TLAPS

Values == [Paths -> Texts \cup {Missing}]
Makers == {"discovery", "edit", "enrichment", "structure"}
Revisions ==
    [doc : Nat, split : BOOLEAN, facts : Values, backed : SUBSET Paths, by : Makers,
     from : Nat, changed : SUBSET Paths]
CaseStatuses == {"open", "approved", "cancelled"}
Works == {"nothing", "edit", "enrich", "structure"}

----------------------------------------------------------------------------
(* Maintenance: the inductive invariant. *)

\* Every revision has its case and its approved facts.
RevisionsTyped ==
    /\ revision \in Seq(Revisions) /\ case \in Seq(CaseStatuses) /\ approved \in Seq(Values)
    /\ Len(case) = Len(revision) /\ Len(approved) = Len(revision)
    /\ published \in Seq(Nat)
    /\ operator \in [Operators -> [doing : Works, on : Nat, was : CaseStatuses \cup {"none"}]]

\* Documents are numbered as they are read, and read once.
DocsNumbered ==
    /\ \E k \in Nat : Extractions = 1..k
    /\ \A n \in Numbers : \E m \in Numbers :
          revision[m].doc = revision[n].doc /\ revision[m].by = "discovery"
    /\ \A m, n \in Numbers :
          revision[m].by = "discovery" /\ revision[n].by = "discovery"
             /\ revision[m].doc = revision[n].doc => m = n

\* Evidence, against whatever was read from the document.
Backing ==
    /\ \A n, m \in Numbers : \A p \in revision[n].backed :
          revision[m].by = "discovery" /\ revision[m].doc = revision[n].doc
             => revision[n].facts[p] = revision[m].facts[p]
    /\ \A n \in Numbers : ~revision[n].split => "post" \notin revision[n].backed

\* What is published was approved, and is an edit only where the edit was made.
Publishing ==
    /\ \A i \in DOMAIN published : published[i] \in Numbers /\ case[published[i]] = "approved"
    /\ \A n \in Numbers : revision[n].by = "edit" => n \in Range(published)
    /\ \A i \in DOMAIN published : revision[published[i]].by = "edit" =>
          /\ i > 1 /\ published[i - 1] = revision[published[i]].from
          /\ \A p \in Paths \ revision[published[i]].changed :
                revision[published[i]].facts[p] = approved[revision[published[i]].from][p]

Succeeding ==
    \A n \in Numbers : revision[n].by \in {"enrichment", "structure"} =>
        revision[n].from \in Numbers /\ case[revision[n].from] # "open"

\* What an operator looks at, and what became of it since.
Looking ==
    \A o \in Operators :
        /\ operator[o].doing # "nothing" => operator[o].on \in Numbers
        /\ operator[o].doing = "edit" => published # <<>>
        /\ operator[o].doing = "structure" =>
              /\ ~revision[operator[o].on].split
              /\ operator[o].was \in CaseStatuses
              /\ operator[o].was = "approved" => case[operator[o].on] = "approved"

MaintenanceInvariant ==
    RevisionsTyped /\ DocsNumbered /\ Backing /\ Publishing /\ Succeeding /\ Looking

----------------------------------------------------------------------------
(* Adding a revision. *)

\* A case that is approved stays so, and one that is not open is not reopened.
Later(c) ==
    /\ c \in Seq(CaseStatuses) /\ Len(c) = Len(case)
    /\ \A n \in DOMAIN case : (case[n] = "approved" => c[n] = "approved")
                              /\ (case[n] # "open" => c[n] # "open")

\* What the actions that make a revision have in common.
Grown(r, c, status) ==
    /\ revision' = Append(revision, r)
    /\ case' = Append(c, status)
    /\ approved' = Append(approved, r.facts)

LEMMA Appended ==
    ASSUME NEW T, NEW s \in Seq(T), NEW e \in T
    PROVE  /\ Append(s, e) \in Seq(T) /\ Len(Append(s, e)) = Len(s) + 1
           /\ DOMAIN Append(s, e) = DOMAIN s \cup {Len(s) + 1}
           /\ \A i \in DOMAIN s : Append(s, e)[i] = s[i]
           /\ Append(s, e)[Len(s) + 1] = e
           /\ Len(s) + 1 \notin DOMAIN s
OBVIOUS

LEMMA GrownRows ==
    ASSUME RevisionsTyped, NEW r \in Revisions, NEW c, Later(c), NEW status \in CaseStatuses,
           Grown(r, c, status)
    PROVE  /\ revision' \in Seq(Revisions) /\ case' \in Seq(CaseStatuses)
           /\ approved' \in Seq(Values)
           /\ Len(case') = Len(revision') /\ Len(approved') = Len(revision')
           /\ Numbers' = Numbers \cup {Len(revision) + 1} /\ Len(revision) + 1 \notin Numbers
           /\ \A n \in Numbers :
                 /\ revision'[n] = revision[n] /\ approved'[n] = approved[n]
                 /\ case[n] = "approved" => case'[n] = "approved"
                 /\ case[n] # "open" => case'[n] # "open"
                 /\ case'[n] = c[n]
           /\ revision'[Len(revision) + 1] = r /\ case'[Len(revision) + 1] = status
<1>1. r.facts \in Values
  BY DEF Revisions
<1>2. /\ DOMAIN case = Numbers /\ DOMAIN c = Numbers /\ DOMAIN approved = Numbers
      /\ Len(c) = Len(revision)
  BY DEF RevisionsTyped, Numbers, Later
<1>3. /\ revision' \in Seq(Revisions) /\ Len(revision') = Len(revision) + 1
      /\ DOMAIN revision' = DOMAIN revision \cup {Len(revision) + 1}
      /\ \A n \in Numbers : revision'[n] = revision[n]
      /\ revision'[Len(revision) + 1] = r /\ Len(revision) + 1 \notin DOMAIN revision
  BY Appended DEF RevisionsTyped, Grown, Numbers
<1>4. /\ case' \in Seq(CaseStatuses) /\ Len(case') = Len(c) + 1
      /\ \A n \in DOMAIN c : case'[n] = c[n] /\ case'[Len(c) + 1] = status
  BY Appended DEF Later, Grown
<1>5. /\ approved' \in Seq(Values) /\ Len(approved') = Len(approved) + 1
      /\ \A n \in DOMAIN approved : approved'[n] = approved[n]
  BY <1>1, Appended DEF RevisionsTyped, Grown
<1>6. case'[Len(c) + 1] = status
  BY Appended DEF Later, Grown
<1> QED
  BY <1>2, <1>3, <1>4, <1>5, <1>6 DEF Numbers, RevisionsTyped, Later

\* Made from the document, or from a revision whose evidence it does not exceed.
Fresh(r) == r.by = "discovery" /\ r.doc = Cardinality(Extractions) + 1
Derived(r, n) ==
    /\ r.by # "discovery" /\ r.doc = revision[n].doc
    /\ \A p \in r.backed : p \in revision[n].backed /\ r.facts[p] = revision[n].facts[p]

LEMMA ExtractionsGrow ==
    ASSUME RevisionsTyped, NEW r \in Revisions, NEW c, Later(c), NEW status \in CaseStatuses,
           Grown(r, c, status)
    PROVE  Extractions' = Extractions \cup {r.doc}
<1>1. /\ Numbers' = Numbers \cup {Len(revision) + 1}
      /\ \A n \in Numbers : revision'[n] = revision[n]
      /\ revision'[Len(revision) + 1] = r
  BY GrownRows
<1> QED
  BY <1>1 DEF Extractions

LEMMA FreshDocs ==
    ASSUME RevisionsTyped, DocsNumbered, Backing, NEW r \in Revisions, NEW c, Later(c),
           NEW status \in CaseStatuses, Grown(r, c, status), Fresh(r),
           ~r.split => "post" \notin r.backed
    PROVE  DocsNumbered' /\ Backing'
<1> DEFINE new == Len(revision) + 1
<1>1. /\ Numbers' = Numbers \cup {new} /\ new \notin Numbers
      /\ \A n \in Numbers : revision'[n] = revision[n]
      /\ revision'[new] = r
  BY GrownRows
<1>2. PICK k \in Nat : Extractions = 1..k
  BY DEF DocsNumbered
<1>3. r.doc = k + 1 /\ r.by = "discovery"
  <2>1. Cardinality(1..k) = k
    BY FS_Interval
  <2> QED
    BY <1>2, <2>1 DEF Fresh
<1>4. Extractions' = 1..(k + 1)
  <2>1. Extractions' = (1..k) \cup {k + 1}
    BY <1>2, <1>3, ExtractionsGrow
  <2>2. (1..k) \cup {k + 1} = 1..(k + 1)
    OBVIOUS
  <2> QED
    BY <2>1, <2>2
<1>5. \A n \in Numbers : revision[n].doc # r.doc
  BY <1>2, <1>3 DEF Extractions
<1> HIDE DEF new
<1>6. DocsNumbered'
  <2>1. \A n \in Numbers' : \E m \in Numbers' :
          revision'[m].doc = revision'[n].doc /\ revision'[m].by = "discovery"
    BY <1>1, <1>3 DEF DocsNumbered
  <2>2. \A m, n \in Numbers' :
          revision'[m].by = "discovery" /\ revision'[n].by = "discovery"
             /\ revision'[m].doc = revision'[n].doc => m = n
    BY <1>1, <1>5 DEF DocsNumbered
  <2>3. k + 1 \in Nat
    OBVIOUS
  <2> QED
    BY <1>4, <2>1, <2>2, <2>3 DEF DocsNumbered
<1>7. Backing'
  BY <1>1, <1>5 DEF Backing
<1> QED
  BY <1>6, <1>7

LEMMA DerivedDocs ==
    ASSUME RevisionsTyped, DocsNumbered, Backing, NEW r \in Revisions, NEW c, Later(c),
           NEW status \in CaseStatuses, Grown(r, c, status), NEW o \in Numbers, Derived(r, o),
           ~r.split => "post" \notin r.backed
    PROVE  DocsNumbered' /\ Backing'
<1> DEFINE new == Len(revision) + 1
<1>1. /\ Numbers' = Numbers \cup {new} /\ new \notin Numbers
      /\ \A n \in Numbers : revision'[n] = revision[n]
      /\ revision'[new] = r
  BY GrownRows
<1>2. Extractions' = Extractions
  BY ExtractionsGrow DEF Derived, Extractions
<1>3. r.by # "discovery" /\ r.doc = revision[o].doc
  BY DEF Derived
<1> HIDE DEF new
<1>4. DocsNumbered'
  <2>1. \A n \in Numbers' : \E m \in Numbers' :
          revision'[m].doc = revision'[n].doc /\ revision'[m].by = "discovery"
    BY <1>1, <1>3 DEF DocsNumbered
  <2>2. \A m, n \in Numbers' :
          revision'[m].by = "discovery" /\ revision'[n].by = "discovery"
             /\ revision'[m].doc = revision'[n].doc => m = n
    BY <1>1, <1>3 DEF DocsNumbered
  <2> QED
    BY <1>2, <2>1, <2>2 DEF DocsNumbered
<1>5. ASSUME NEW n \in Numbers', NEW m \in Numbers', NEW p \in revision'[n].backed,
             revision'[m].by = "discovery", revision'[m].doc = revision'[n].doc
      PROVE  revision'[n].facts[p] = revision'[m].facts[p]
  <2>1. m \in Numbers /\ revision'[m] = revision[m]
    BY <1>1, <1>3, <1>5
  <2>2. CASE n \in Numbers
    BY <1>1, <1>5, <2>1, <2>2 DEF Backing
  <2>3. CASE n = new
    <3>1. p \in revision[o].backed /\ r.facts[p] = revision[o].facts[p]
      BY <1>1, <1>5, <2>3 DEF Derived
    <3>2. revision[m].doc = revision[o].doc /\ revision[m].by = "discovery"
      BY <1>1, <1>3, <1>5, <2>1, <2>3
    <3>3. revision[o].facts[p] = revision[m].facts[p]
      BY <2>1, <3>1, <3>2 DEF Backing
    <3> QED
      BY <1>1, <2>1, <2>3, <3>1, <3>3
  <2> QED
    BY <1>1, <2>2, <2>3
<1>6. \A n \in Numbers' : ~revision'[n].split => "post" \notin revision'[n].backed
  BY <1>1 DEF Backing
<1> QED
  BY <1>4, <1>5, <1>6 DEF Backing

\* Steps that keep revisions, cases and operators in what matters to the operators.
LEMMA StillLooking ==
    ASSUME Looking, published # <<>> => published' # <<>>,
           \A n \in Numbers : n \in Numbers' /\ revision'[n] = revision[n]
                             /\ (case[n] = "approved" => case'[n] = "approved"),
           \A o \in Operators : operator'[o] = operator[o] \/ operator'[o] = Idle
    PROVE  Looking'
BY DEF Looking, Idle

LEMMA GrownSucceeding ==
    ASSUME RevisionsTyped, Succeeding, NEW r \in Revisions, NEW c, Later(c),
           NEW status \in CaseStatuses, Grown(r, c, status),
           r.by \in {"enrichment", "structure"} => r.from \in Numbers /\ c[r.from] # "open"
    PROVE  Succeeding'
<1> DEFINE new == Len(revision) + 1
<1>1. /\ Numbers' = Numbers \cup {new}
      /\ \A n \in Numbers : /\ revision'[n] = revision[n] /\ case'[n] = c[n]
                            /\ case[n] # "open" => case'[n] # "open"
      /\ revision'[new] = r
  BY GrownRows
<1> HIDE DEF new
<1> QED
  BY <1>1 DEF Succeeding

LEMMA GrownPublishing ==
    ASSUME RevisionsTyped, Publishing, NEW r \in Revisions, NEW c, Later(c),
           NEW status \in CaseStatuses, Grown(r, c, status), UNCHANGED published, r.by # "edit"
    PROVE  Publishing'
<1> DEFINE new == Len(revision) + 1
<1>1. /\ Numbers' = Numbers \cup {new} /\ new \notin Numbers
      /\ \A n \in Numbers : /\ revision'[n] = revision[n] /\ approved'[n] = approved[n]
                            /\ case[n] = "approved" => case'[n] = "approved"
      /\ revision'[new] = r
  BY GrownRows
<1> HIDE DEF new
<1>2. \A i \in DOMAIN published' : published'[i] \in Numbers' /\ case'[published'[i]] = "approved"
  BY <1>1 DEF Publishing
<1>3. ASSUME NEW n \in Numbers', revision'[n].by = "edit" PROVE n \in Range(published')
  <2>0. published' = published
    OBVIOUS
  <2>1. n # new
    BY <1>1, <1>3
  <2>2. n \in Numbers /\ revision'[n] = revision[n]
    BY <1>1, <2>1
  <2>3. n \in Range(published)
    BY <1>3, <2>2 DEF Publishing
  <2> QED
    BY <2>0, <2>3
<1>4. ASSUME NEW i \in DOMAIN published, revision'[published[i]].by = "edit"
      PROVE  /\ i > 1 /\ published[i - 1] = revision'[published[i]].from
             /\ \A p \in Paths \ revision'[published[i]].changed :
                   revision'[published[i]].facts[p] = approved'[revision'[published[i]].from][p]
  <2>1. revision'[published[i]] = revision[published[i]]
    BY <1>1 DEF Publishing
  <2>2. i > 1 /\ published[i - 1] = revision[published[i]].from
    BY <1>4, <2>1 DEF Publishing
  <2>3. i - 1 \in DOMAIN published
    BY <2>2 DEF RevisionsTyped
  <2>4. revision[published[i]].from \in Numbers
    BY <2>2, <2>3 DEF Publishing
  <2> QED
    BY <1>1, <1>4, <2>1, <2>2, <2>4 DEF Publishing
<1> QED
  BY <1>2, <1>3, <1>4 DEF Publishing

\* An operator whose work is over.
WorkEnded(o) == operator' = [operator EXCEPT ![o] = Idle]

LEMMA EndedTyped ==
    ASSUME RevisionsTyped, NEW o \in Operators, WorkEnded(o)
    PROVE  /\ operator' \in [Operators -> [doing : Works, on : Nat, was : CaseStatuses \cup {"none"}]]
           /\ \A x \in Operators : operator'[x] = operator[x] \/ operator'[x] = Idle
BY DEF RevisionsTyped, WorkEnded, Idle, Works

\* A revision that is not published by the step that makes it.
LEMMA GrownInvariant ==
    ASSUME MaintenanceInvariant, NEW r \in Revisions, NEW c, Later(c),
           NEW status \in CaseStatuses, Grown(r, c, status), UNCHANGED published, r.by # "edit",
           Fresh(r) \/ \E n \in Numbers : Derived(r, n),
           ~r.split => "post" \notin r.backed,
           r.by \in {"enrichment", "structure"} => r.from \in Numbers /\ c[r.from] # "open",
           operator' = operator \/ \E o \in Operators : WorkEnded(o)
    PROVE  MaintenanceInvariant'
<1>1. RevisionsTyped /\ DocsNumbered /\ Backing /\ Publishing /\ Succeeding /\ Looking
  BY DEF MaintenanceInvariant
<1>2. /\ operator' \in [Operators -> [doing : Works, on : Nat, was : CaseStatuses \cup {"none"}]]
      /\ \A x \in Operators : operator'[x] = operator[x] \/ operator'[x] = Idle
  BY <1>1, EndedTyped DEF RevisionsTyped
<1>3. RevisionsTyped'
  BY <1>1, <1>2, GrownRows DEF RevisionsTyped
<1>4. DocsNumbered' /\ Backing'
  BY <1>1, FreshDocs, DerivedDocs
<1>5. Publishing' /\ Succeeding'
  BY <1>1, GrownPublishing, GrownSucceeding
<1>6. \A n \in Numbers : n \in Numbers' /\ revision'[n] = revision[n]
                         /\ (case[n] = "approved" => case'[n] = "approved")
  BY <1>1, GrownRows
<1>7. Looking'
  BY <1>1, <1>2, <1>6, StillLooking
<1> QED
  BY <1>3, <1>4, <1>5, <1>7 DEF MaintenanceInvariant

LEMMA LaterCase == RevisionsTyped => Later(case)
BY DEF RevisionsTyped, Later

LEMMA ExtractKeeps ==
    ASSUME MaintenanceInvariant, ExtractDocument
    PROVE  MaintenanceInvariant'
<1>1. RevisionsTyped /\ DocsNumbered
  BY DEF MaintenanceInvariant
<1>2. Cardinality(Extractions) + 1 \in Nat
  <2>1. PICK k \in Nat : Extractions = 1..k
    BY <1>1 DEF DocsNumbered
  <2>2. Cardinality(1..k) = k
    BY FS_Interval
  <2> QED
    BY <2>1, <2>2
<1>3. PICK read \in Readings :
          Add([doc |-> Cardinality(Extractions) + 1, split |-> read.split,
               facts |-> read.facts, backed |-> Present(read.facts),
               by |-> "discovery", from |-> 0, changed |-> {}], "open")
  BY DEF ExtractDocument
<1> DEFINE r == [doc |-> Cardinality(Extractions) + 1, split |-> read.split,
                 facts |-> read.facts, backed |-> Present(read.facts),
                 by |-> "discovery", from |-> 0, changed |-> {}]
<1>4. read.split \in BOOLEAN /\ read.facts \in Facts(read.split)
  BY MaintenanceAssumption
<1>5. read.facts \in Values /\ (~read.split => read.facts["post"] = Missing)
  BY <1>4 DEF Facts, Values, PathsOf, Paths
<1>6. Present(read.facts) \in SUBSET Paths /\ (~read.split => "post" \notin Present(read.facts))
  BY <1>5 DEF Present
<1>7. r \in Revisions
  BY <1>2, <1>4, <1>5, <1>6 DEF Revisions, Makers
<1>8. Grown(r, case, "open") /\ Fresh(r) /\ r.by = "discovery"
  BY <1>3 DEF Add, Grown, Fresh
<1>9. ~r.split => "post" \notin r.backed
  BY <1>6
<1>10. published' = published /\ operator' = operator /\ "open" \in CaseStatuses
  BY DEF ExtractDocument, CaseStatuses
<1> HIDE DEF r
<1> QED
  BY <1>1, <1>7, <1>8, <1>9, <1>10, LaterCase, GrownInvariant

\* The successor that an operator makes of the revision n.
LEMMA SuccessorKeeps ==
    ASSUME MaintenanceInvariant, NEW n \in Numbers, NEW r \in Revisions, Derived(r, n),
           r.by \in {"enrichment", "structure"}, r.from = n, ~r.split => "post" \notin r.backed,
           Succeed(r, n) \/ (Add(r, "open") /\ case[n] # "open"),
           UNCHANGED published, NEW o \in Operators, WorkEnded(o)
    PROVE  MaintenanceInvariant'
<1>1. RevisionsTyped /\ "open" \in CaseStatuses /\ "cancelled" \in CaseStatuses
  BY DEF MaintenanceInvariant, CaseStatuses
<1>2. case \in Seq(CaseStatuses) /\ DOMAIN case = Numbers
  BY <1>1 DEF RevisionsTyped, Numbers
<1>3. CASE Succeed(r, n)
  <2> DEFINE c == [case EXCEPT ![n] = "cancelled"]
  <2>1. c \in Seq(CaseStatuses) /\ Len(c) = Len(case) /\ DOMAIN c = DOMAIN case
    BY <1>1, <1>2
  <2>2. \A k \in DOMAIN case : c[k] = IF k = n THEN "cancelled" ELSE case[k]
    BY <1>2
  <2>3. case[n] # "approved" /\ Grown(r, c, "open")
    BY <1>3 DEF Succeed, Grown
  <2>4. c[n] # "open"
    BY <1>2, <2>2
  <2> HIDE DEF c
  <2>5. Later(c)
    BY <2>1, <2>2, <2>3 DEF Later
  <2> QED
    BY <1>1, <2>3, <2>4, <2>5, GrownInvariant
<1>4. CASE Add(r, "open") /\ case[n] # "open"
  <2>1. Grown(r, case, "open")
    BY <1>4 DEF Add, Grown
  <2> QED
    BY <1>1, <1>4, <2>1, LaterCase, GrownInvariant
<1> QED
  BY <1>3, <1>4

LEMMA EnrichKeeps ==
    ASSUME MaintenanceInvariant, NEW o \in Operators, Enrich(o)
    PROVE  MaintenanceInvariant'
<1> DEFINE n == operator[o].on
<1>1. PICK facts \in Facts(revision[n].split) :
          Succeed([revision[n] EXCEPT !.facts = facts, !.by = "enrichment", !.from = n,
                     !.changed = {p \in Paths : facts[p] # revision[n].facts[p]},
                     !.backed = KeptEvidence(revision[n], facts,
                                    {p \in Paths : facts[p] # revision[n].facts[p]})], n)
  BY DEF Enrich
<1> DEFINE added == {p \in Paths : facts[p] # revision[n].facts[p]}
           r == [revision[n] EXCEPT !.facts = facts, !.by = "enrichment", !.from = n,
                     !.changed = added, !.backed = KeptEvidence(revision[n], facts, added)]
<1>2. n \in Numbers /\ RevisionsTyped /\ Backing
  BY DEF MaintenanceInvariant, Looking, Enrich
<1>3. revision[n] \in Revisions /\ n \in Nat
  BY <1>2 DEF RevisionsTyped, Numbers
<1>4. facts \in Values /\ added \in SUBSET Paths
  BY DEF Facts, Values
<1>5. /\ KeptEvidence(revision[n], facts, added) \subseteq revision[n].backed
      /\ \A p \in KeptEvidence(revision[n], facts, added) : facts[p] = revision[n].facts[p]
  BY DEF KeptEvidence
<1> HIDE DEF added
<1>6. r \in Revisions
  BY <1>3, <1>4, <1>5 DEF Revisions, Makers
<1>7. /\ r.by = "enrichment" /\ r.from = n /\ r.doc = revision[n].doc /\ r.facts = facts
      /\ r.split = revision[n].split /\ r.backed = KeptEvidence(revision[n], facts, added)
  BY <1>3 DEF Revisions
<1>8. Succeed(r, n)
  BY <1>1 DEF added
<1>9. UNCHANGED published /\ WorkEnded(o)
  BY DEF Enrich, Done, WorkEnded
<1> HIDE DEF r, n
<1>10. Derived(r, n)
  BY <1>5, <1>7 DEF Derived
<1>11. ~r.split => "post" \notin r.backed
  BY <1>2, <1>5, <1>7 DEF Backing
<1> QED
  BY <1>2, <1>6, <1>7, <1>8, <1>9, <1>10, <1>11, SuccessorKeeps

LEMMA StructureKeeps ==
    ASSUME MaintenanceInvariant, NEW o \in Operators, Structure(o)
    PROVE  MaintenanceInvariant'
<1> DEFINE n == operator[o].on
<1>1. PICK t \in Texts \cup {Missing} :
          LET r == [revision[n] EXCEPT !.facts.post = t, !.split = TRUE,
                       !.by = "structure", !.from = n, !.changed = {"post"}]
          IN  IF operator[o].was = "open" THEN Succeed(r, n) ELSE Add(r, "open")
  BY DEF Structure
<1> DEFINE r == [revision[n] EXCEPT !.facts.post = t, !.split = TRUE,
                    !.by = "structure", !.from = n, !.changed = {"post"}]
<1>2. IF operator[o].was = "open" THEN Succeed(r, n) ELSE Add(r, "open")
  BY <1>1
<1>3. /\ RevisionsTyped /\ Backing /\ n \in Numbers /\ ~revision[n].split
      /\ operator[o].was \in CaseStatuses
      /\ operator[o].was = "approved" => case[n] = "approved"
  BY DEF MaintenanceInvariant, Looking, Structure
<1>4. revision[n] \in Revisions /\ n \in Nat
  BY <1>3 DEF RevisionsTyped, Numbers
<1>5. /\ r.by = "structure" /\ r.from = n /\ r.doc = revision[n].doc /\ r.split = TRUE
      /\ r.facts = [revision[n].facts EXCEPT !.post = t] /\ r.backed = revision[n].backed
  BY <1>4 DEF Revisions
<1>6. /\ r.facts \in Values
      /\ \A p \in Paths : p # "post" => r.facts[p] = revision[n].facts[p]
  <2>1. revision[n].facts \in Values
    BY <1>4 DEF Revisions
  <2> QED
    BY <1>5, <2>1 DEF Values
<1>7. r \in Revisions
  BY <1>4, <1>5, <1>6 DEF Revisions, Makers, Paths
<1>8. UNCHANGED published /\ WorkEnded(o) /\ operator[o].was # "cancelled"
  BY DEF Structure, Done, WorkEnded
<1> HIDE DEF r, n
<1>9. Derived(r, n)
  <2>1. "post" \notin revision[n].backed /\ revision[n].backed \subseteq Paths
    BY <1>3, <1>4 DEF Backing, Revisions
  <2> QED
    BY <1>5, <1>6, <2>1 DEF Derived
<1>10. Succeed(r, n) \/ (Add(r, "open") /\ case[n] # "open")
  BY <1>2, <1>3, <1>8 DEF CaseStatuses
<1> QED
  BY <1>3, <1>5, <1>7, <1>8, <1>9, <1>10, SuccessorKeeps

----------------------------------------------------------------------------
(* A correction, which is published as it is made. *)

LEMMA LastPublished ==
    ASSUME RevisionsTyped, Publishing, published # <<>>
    PROVE  /\ Len(published) \in DOMAIN published /\ Len(published) \in Nat
           /\ Last(published) = published[Len(published)]
           /\ Last(published) \in Numbers /\ case[Last(published)] = "approved"
<1>1. published \in Seq(Nat)
  BY DEF RevisionsTyped
<1>2. /\ Len(published) \in DOMAIN published /\ Len(published) \in Nat
      /\ Last(published) = published[Len(published)]
  BY <1>1 DEF Last
<1> QED
  BY <1>2 DEF Publishing

LEMMA EditPublishing ==
    ASSUME RevisionsTyped, Publishing, published # <<>>, NEW r \in Revisions,
           Grown(r, case, "approved"), r.from = Last(published), r.by = "edit",
           \A p \in Paths \ r.changed : r.facts[p] = approved[Last(published)][p],
           published' = Append(published, Len(revision) + 1)
    PROVE  Publishing' /\ published' \in Seq(Nat) /\ published' # <<>>
<1> DEFINE new == Len(revision) + 1
           end == Len(published) + 1
<1>0. "approved" \in CaseStatuses /\ Later(case)
  BY LaterCase DEF CaseStatuses
<1>1. /\ Numbers' = Numbers \cup {new} /\ new \notin Numbers
      /\ \A n \in Numbers : /\ revision'[n] = revision[n] /\ approved'[n] = approved[n]
                            /\ case[n] = "approved" => case'[n] = "approved"
      /\ revision'[new] = r /\ case'[new] = "approved"
  BY <1>0, GrownRows
<1>2. published \in Seq(Nat) /\ new \in Nat
  BY DEF RevisionsTyped
<1>3. /\ published' \in Seq(Nat) /\ DOMAIN published' = DOMAIN published \cup {end}
      /\ \A i \in DOMAIN published : published'[i] = published[i]
      /\ published'[end] = new /\ end \notin DOMAIN published
  BY <1>2, Appended
<1>4. /\ Len(published) \in DOMAIN published /\ Len(published) \in Nat
      /\ Last(published) = published[Len(published)] /\ Last(published) \in Numbers
  BY LastPublished
<1>5. end > 1 /\ end - 1 = Len(published)
  BY <1>2, <1>4
<1>6. \A i \in DOMAIN published : i - 1 # 0 => i - 1 \in DOMAIN published
  BY <1>2
<1>7. \A i \in DOMAIN published : i \in Nat
  BY <1>2
<1> HIDE DEF new, end
<1>8. \A i \in DOMAIN published' : published'[i] \in Numbers' /\ case'[published'[i]] = "approved"
  BY <1>1, <1>3 DEF Publishing
<1>9. ASSUME NEW n \in Numbers', revision'[n].by = "edit" PROVE n \in Range(published')
  <2>1. CASE n = new
    BY <1>3, <2>1 DEF Range
  <2>2. CASE n \in Numbers
    <3>1. n \in Range(published)
      BY <1>1, <1>9, <2>2 DEF Publishing
    <3>2. PICK i \in DOMAIN published : published[i] = n
      BY <3>1 DEF Range
    <3> QED
      BY <1>3, <3>2 DEF Range
  <2> QED
    BY <1>1, <2>1, <2>2
<1>10. ASSUME NEW i \in DOMAIN published', revision'[published'[i]].by = "edit"
       PROVE  /\ i > 1 /\ published'[i - 1] = revision'[published'[i]].from
              /\ \A p \in Paths \ revision'[published'[i]].changed :
                    revision'[published'[i]].facts[p] = approved'[revision'[published'[i]].from][p]
  <2>1. CASE i = end
    BY <1>1, <1>3, <1>4, <1>5, <2>1
  <2>2. CASE i \in DOMAIN published
    <3>1. published'[i] = published[i] /\ revision'[published[i]] = revision[published[i]]
      BY <1>1, <1>3, <2>2 DEF Publishing
    <3>2. i > 1 /\ published[i - 1] = revision[published[i]].from
      BY <1>10, <2>2, <3>1 DEF Publishing
    <3>3. i - 1 \in DOMAIN published
      BY <1>6, <1>7, <2>2, <3>2
    <3>4. revision[published[i]].from \in Numbers
      BY <3>2, <3>3 DEF Publishing
    <3>5. \A p \in Paths \ revision[published[i]].changed :
             revision[published[i]].facts[p] = approved[revision[published[i]].from][p]
      BY <1>10, <2>2, <3>1 DEF Publishing
    <3>6. revision'[published'[i]] = revision[published[i]]
      BY <3>1
    <3>7. /\ published'[i - 1] = published[i - 1]
          /\ approved'[revision[published[i]].from] = approved[revision[published[i]].from]
      BY <1>1, <1>3, <3>3, <3>4
    <3> QED
      BY <3>2, <3>5, <3>6, <3>7
  <2> QED
    BY <1>3, <2>1, <2>2
<1>11. published' # <<>>
  BY <1>3
<1> QED
  BY <1>3, <1>8, <1>9, <1>10, <1>11 DEF Publishing

LEMMA RepublishKeeps ==
    ASSUME MaintenanceInvariant, NEW o \in Operators, Republish(o)
    PROVE  MaintenanceInvariant'
<1> DEFINE n == Last(published)
<1>1. PICK facts \in Facts(revision[n].split) :
          LET changed == {p \in Paths : facts[p] # approved[n][p]} IN
          /\ changed # {} /\ changed \subseteq Editable(revision[n]) \cap Present(facts)
          /\ Add([revision[n] EXCEPT !.facts = facts, !.by = "edit",
                    !.from = operator[o].on, !.changed = changed,
                    !.backed = KeptEvidence(revision[n], facts, changed)], "approved")
          /\ published' = Append(published, Len(revision'))
  BY DEF Republish
<1> DEFINE changed == {p \in Paths : facts[p] # approved[n][p]}
           r == [revision[n] EXCEPT !.facts = facts, !.by = "edit",
                    !.from = operator[o].on, !.changed = changed,
                    !.backed = KeptEvidence(revision[n], facts, changed)]
<1>2. Add(r, "approved") /\ published' = Append(published, Len(revision'))
  BY <1>1
<1>3. /\ RevisionsTyped /\ DocsNumbered /\ Backing /\ Publishing /\ Succeeding /\ Looking
      /\ published # <<>> /\ operator[o].on = n /\ WorkEnded(o)
  BY DEF MaintenanceInvariant, Looking, Republish, FormCurrent, WorkEnded
<1>4. n \in Numbers /\ case[n] = "approved"
  BY <1>3, LastPublished
<1>5. revision[n] \in Revisions /\ n \in Nat
  BY <1>3, <1>4 DEF RevisionsTyped, Numbers
<1>6. facts \in Values /\ changed \in SUBSET Paths
      /\ \A p \in Paths \ changed : facts[p] = approved[n][p]
  BY DEF Facts, Values
<1>7. /\ KeptEvidence(revision[n], facts, changed) \subseteq revision[n].backed
      /\ \A p \in KeptEvidence(revision[n], facts, changed) : facts[p] = revision[n].facts[p]
  BY DEF KeptEvidence
<1> HIDE DEF changed, n
<1>8. r \in Revisions
  BY <1>3, <1>5, <1>6, <1>7 DEF Revisions, Makers
<1>9. /\ r.by = "edit" /\ r.from = n /\ r.doc = revision[n].doc /\ r.facts = facts
      /\ r.changed = changed
      /\ r.split = revision[n].split /\ r.backed = KeptEvidence(revision[n], facts, changed)
  BY <1>3, <1>5 DEF Revisions
<1>10. Grown(r, case, "approved")
  BY <1>2 DEF Add, Grown
<1> HIDE DEF r
<1>11. Derived(r, n)
  BY <1>7, <1>9 DEF Derived
<1>12. ~r.split => "post" \notin r.backed
  BY <1>3, <1>4, <1>7, <1>9 DEF Backing
<1>13. "approved" \in CaseStatuses /\ Later(case)
  BY <1>3, LaterCase DEF CaseStatuses
<1>14. DocsNumbered' /\ Backing'
  BY <1>3, <1>4, <1>8, <1>10, <1>11, <1>12, <1>13, DerivedDocs
<1>15. Succeeding'
  BY <1>3, <1>8, <1>9, <1>10, <1>13, GrownSucceeding
<1>16. published' = Append(published, Len(revision) + 1)
  BY <1>2, <1>3, <1>8, <1>10, Appended DEF RevisionsTyped, Grown
<1>17. Publishing' /\ published' \in Seq(Nat) /\ published' # <<>>
  BY <1>3, <1>6, <1>8, <1>9, <1>10, <1>16, EditPublishing DEF n
<1>18. /\ operator' \in [Operators -> [doing : Works, on : Nat, was : CaseStatuses \cup {"none"}]]
       /\ \A x \in Operators : operator'[x] = operator[x] \/ operator'[x] = Idle
  BY <1>3, EndedTyped
<1>19. RevisionsTyped'
  BY <1>3, <1>8, <1>10, <1>13, <1>17, <1>18, GrownRows DEF RevisionsTyped
<1>20. \A k \in Numbers : k \in Numbers' /\ revision'[k] = revision[k]
                          /\ (case[k] = "approved" => case'[k] = "approved")
  BY <1>3, <1>8, <1>10, <1>13, GrownRows
<1>21. Looking'
  BY <1>3, <1>17, <1>18, <1>20, StillLooking
<1> QED
  BY <1>14, <1>15, <1>17, <1>19, <1>21 DEF MaintenanceInvariant

----------------------------------------------------------------------------
(* Review, publication and what only operators do. *)

\* Steps that make no revision.
LEMMA ReviewKeeps ==
    ASSUME MaintenanceInvariant, UNCHANGED <<revision, published, operator>>, Later(case'),
           approved' \in Seq(Values), Len(approved') = Len(approved),
           \A n \in Numbers : case[n] = "approved" => approved'[n] = approved[n]
    PROVE  MaintenanceInvariant'
<1>1. RevisionsTyped /\ DocsNumbered /\ Backing /\ Publishing /\ Succeeding /\ Looking
  BY DEF MaintenanceInvariant
<1>2. /\ Numbers' = Numbers /\ revision' = revision /\ published' = published
      /\ operator' = operator
  BY DEF Numbers
<1>3. /\ DOMAIN case = Numbers
      /\ \A n \in Numbers : /\ case[n] = "approved" => case'[n] = "approved"
                            /\ case[n] # "open" => case'[n] # "open"
  BY <1>1 DEF RevisionsTyped, Numbers, Later
<1>4. RevisionsTyped'
  BY <1>1, <1>2 DEF RevisionsTyped, Later
<1>5. DocsNumbered' /\ Backing'
  BY <1>1, <1>2 DEF DocsNumbered, Backing, Extractions
<1>6. Succeeding'
  BY <1>1, <1>2, <1>3 DEF Succeeding
<1>7. \A i \in DOMAIN published : published[i] \in Numbers /\ case'[published[i]] = "approved"
  BY <1>1, <1>3 DEF Publishing
<1>8. ASSUME NEW i \in DOMAIN published, revision[published[i]].by = "edit"
      PROVE  /\ i > 1 /\ published[i - 1] = revision[published[i]].from
             /\ \A p \in Paths \ revision[published[i]].changed :
                   revision[published[i]].facts[p] = approved'[revision[published[i]].from][p]
  <2>1. /\ i > 1 /\ published[i - 1] = revision[published[i]].from
        /\ \A p \in Paths \ revision[published[i]].changed :
              revision[published[i]].facts[p] = approved[revision[published[i]].from][p]
    BY <1>1, <1>8 DEF Publishing
  <2>2. i - 1 \in DOMAIN published
    BY <1>1, <2>1 DEF RevisionsTyped
  <2>3. /\ revision[published[i]].from \in Numbers
        /\ case[revision[published[i]].from] = "approved"
    BY <1>1, <2>1, <2>2 DEF Publishing
  <2>4. approved'[revision[published[i]].from] = approved[revision[published[i]].from]
    BY <2>3
  <2> QED
    BY <2>1, <2>4
<1>9. Publishing'
  BY <1>1, <1>2, <1>7, <1>8 DEF Publishing
<1>10. Looking'
  BY <1>1, <1>2, <1>3, StillLooking
<1> QED
  BY <1>4, <1>5, <1>6, <1>9, <1>10 DEF MaintenanceInvariant

LEMMA ApproveKeeps ==
    ASSUME MaintenanceInvariant, NEW n \in Numbers, Approve(n)
    PROVE  MaintenanceInvariant'
<1>1. /\ case \in Seq(CaseStatuses) /\ DOMAIN case = Numbers /\ case[n] = "open"
      /\ approved \in Seq(Values) /\ DOMAIN approved = Numbers
  BY DEF MaintenanceInvariant, RevisionsTyped, Numbers, Approve
<1>2. case' = [case EXCEPT ![n] = "approved"] /\ "approved" \in CaseStatuses
  BY DEF Approve, CaseStatuses
<1>3. Later(case')
  BY <1>1, <1>2 DEF Later
<1>4. /\ approved' \in Seq(Values) /\ Len(approved') = Len(approved)
      /\ \A k \in Numbers : k # n => approved'[k] = approved[k]
  <2>1. CASE approved' = approved
    BY <1>1, <2>1
  <2>2. ASSUME NEW p, NEW t \in Texts, approved' = [approved EXCEPT ![n][p] = t]
        PROVE  /\ approved' \in Seq(Values) /\ Len(approved') = Len(approved)
               /\ \A k \in Numbers : k # n => approved'[k] = approved[k]
    <3> DEFINE e == [approved[n] EXCEPT ![p] = t]
    <3>1. e \in Values
      <4>1. approved[n] \in [Paths -> Texts \cup {Missing}]
        BY <1>1 DEF Values
      <4>2. t \in Texts \cup {Missing}
        OBVIOUS
      <4> QED
        BY <4>1, <4>2 DEF Values
    <3>2. approved' = [approved EXCEPT ![n] = e]
      BY <2>2
    <3> HIDE DEF e
    <3> QED
      BY <1>1, <3>1, <3>2
  <2> QED
    BY <2>1, <2>2 DEF Approve
<1>5. UNCHANGED <<revision, published, operator>>
  BY DEF Approve
<1>6. \A k \in Numbers : case[k] = "approved" => approved'[k] = approved[k]
  BY <1>1, <1>4
<1> QED
  BY <1>3, <1>4, <1>5, <1>6, ReviewKeeps

LEMMA CancelKeeps ==
    ASSUME MaintenanceInvariant, NEW n \in Numbers, CancelReview(n)
    PROVE  MaintenanceInvariant'
<1>1. /\ case \in Seq(CaseStatuses) /\ DOMAIN case = Numbers /\ case[n] = "open"
      /\ approved \in Seq(Values)
  BY DEF MaintenanceInvariant, RevisionsTyped, Numbers, CancelReview
<1>2. case' = [case EXCEPT ![n] = "cancelled"] /\ "cancelled" \in CaseStatuses
  BY DEF CancelReview, CaseStatuses
<1>3. Later(case')
  BY <1>1, <1>2 DEF Later
<1>4. UNCHANGED <<revision, published, operator>> /\ approved' = approved
  BY DEF CancelReview
<1> QED
  BY <1>1, <1>3, <1>4, ReviewKeeps

\* Only an approved revision is published, which is no correction: those are
\* published as they are made.
LEMMA PublishKeeps ==
    ASSUME MaintenanceInvariant, NEW n \in Numbers, PublishReviewed(n)
    PROVE  MaintenanceInvariant'
<1>1. RevisionsTyped /\ DocsNumbered /\ Backing /\ Publishing /\ Succeeding /\ Looking
  BY DEF MaintenanceInvariant
<1>2. /\ case[n] = "approved" /\ n \notin Range(published)
      /\ published' = Append(published, n)
      /\ UNCHANGED <<revision, case, approved, operator>>
  BY DEF PublishReviewed
<1>3. Numbers' = Numbers
  BY <1>2 DEF Numbers
<1>4. revision[n].by # "edit"
  BY <1>1, <1>2 DEF Publishing
<1> DEFINE end == Len(published) + 1
<1>5. /\ published' \in Seq(Nat) /\ DOMAIN published' = DOMAIN published \cup {end}
      /\ \A i \in DOMAIN published : published'[i] = published[i]
      /\ published'[end] = n /\ end \notin DOMAIN published
  <2>1. n \in Nat
    BY <1>1 DEF RevisionsTyped, Numbers
  <2> QED
    BY <1>1, <1>2, <2>1, Appended DEF RevisionsTyped
<1>6. \A i \in DOMAIN published : i - 1 > 0 => i - 1 \in DOMAIN published
  BY <1>1 DEF RevisionsTyped
<1>7. \A i \in DOMAIN published : i \in Nat
  BY <1>1 DEF RevisionsTyped
<1> HIDE DEF end
<1>8. RevisionsTyped'
  BY <1>1, <1>2, <1>5 DEF RevisionsTyped
<1>9. DocsNumbered' /\ Backing'
  BY <1>1, <1>2, <1>3 DEF DocsNumbered, Backing, Extractions
<1>10. Succeeding'
  BY <1>1, <1>2, <1>3 DEF Succeeding
<1>11. \A i \in DOMAIN published' : published'[i] \in Numbers /\ case[published'[i]] = "approved"
  BY <1>1, <1>2, <1>5 DEF Publishing
<1>12. ASSUME NEW k \in Numbers, revision[k].by = "edit" PROVE k \in Range(published')
  <2>1. PICK i \in DOMAIN published : published[i] = k
    BY <1>1, <1>12 DEF Publishing, Range
  <2> QED
    BY <1>5, <2>1 DEF Range
<1>13. ASSUME NEW i \in DOMAIN published', revision[published'[i]].by = "edit"
       PROVE  /\ i > 1 /\ published'[i - 1] = revision[published'[i]].from
              /\ \A p \in Paths \ revision[published'[i]].changed :
                    revision[published'[i]].facts[p] = approved[revision[published'[i]].from][p]
  <2>1. i \in DOMAIN published /\ published'[i] = published[i]
    BY <1>4, <1>5, <1>13
  <2>2. /\ i > 1 /\ published[i - 1] = revision[published[i]].from
        /\ \A p \in Paths \ revision[published[i]].changed :
              revision[published[i]].facts[p] = approved[revision[published[i]].from][p]
    BY <1>1, <1>13, <2>1 DEF Publishing
  <2>3. i - 1 \in DOMAIN published
    BY <1>6, <1>7, <2>1, <2>2
  <2> QED
    BY <1>5, <2>1, <2>2, <2>3
<1>14. Publishing'
  BY <1>2, <1>3, <1>11, <1>12, <1>13 DEF Publishing
<1>15. published' # <<>>
  BY <1>5
<1>16. Looking'
  BY <1>1, <1>2, <1>3, <1>15, StillLooking
<1> QED
  BY <1>8, <1>9, <1>10, <1>14, <1>16 DEF MaintenanceInvariant

\* Steps of an operator that write no row.
LEMMA OperatorKeeps ==
    ASSUME MaintenanceInvariant, UNCHANGED <<revision, case, approved, published>>,
           NEW o \in Operators, NEW work \in [doing : Works, on : Nat, was : CaseStatuses \cup {"none"}],
           operator' = [operator EXCEPT ![o] = work],
           work.doing # "nothing" => work.on \in Numbers,
           work.doing = "edit" => published # <<>>,
           work.doing = "structure" =>
              /\ ~revision[work.on].split /\ work.was \in CaseStatuses
              /\ work.was = "approved" => case[work.on] = "approved"
    PROVE  MaintenanceInvariant'
<1>1. RevisionsTyped /\ DocsNumbered /\ Backing /\ Publishing /\ Succeeding /\ Looking
  BY DEF MaintenanceInvariant
<1>2. /\ Numbers' = Numbers /\ revision' = revision /\ case' = case
      /\ approved' = approved /\ published' = published
  BY DEF Numbers
<1>3. RevisionsTyped'
  BY <1>1, <1>2 DEF RevisionsTyped
<1>4. DocsNumbered' /\ Backing' /\ Publishing' /\ Succeeding'
  BY <1>1, <1>2 DEF DocsNumbered, Backing, Publishing, Succeeding, Extractions
<1>5. Looking'
  <2>1. \A x \in Operators : operator'[x] = IF x = o THEN work ELSE operator[x]
    BY <1>1 DEF RevisionsTyped
  <2> QED
    BY <1>1, <1>2, <2>1 DEF Looking
<1> QED
  BY <1>3, <1>4, <1>5 DEF MaintenanceInvariant

LEMMA OpenFormKeeps ==
    ASSUME MaintenanceInvariant, NEW o \in Operators, OpenForm(o)
    PROVE  MaintenanceInvariant'
<1> DEFINE work == [Idle EXCEPT !.doing = "edit", !.on = Last(published)]
<1>1. /\ RevisionsTyped /\ Publishing /\ published # <<>>
      /\ operator' = [operator EXCEPT ![o] = work]
      /\ UNCHANGED <<revision, case, approved, published>>
  BY DEF MaintenanceInvariant, OpenForm
<1>2. Last(published) \in Numbers /\ Last(published) \in Nat
  BY <1>1, LastPublished DEF RevisionsTyped, Numbers
<1>3. Idle \in [doing : Works, on : Nat, was : CaseStatuses \cup {"none"}]
  BY DEF Idle, Works
<1>4. /\ work \in [doing : Works, on : Nat, was : CaseStatuses \cup {"none"}]
      /\ work.doing = "edit" /\ work.on \in Numbers
  BY <1>2, <1>3 DEF Works
<1> HIDE DEF work
<1> QED
  BY <1>1, <1>4, OperatorKeeps

LEMMA BeginKeeps ==
    ASSUME MaintenanceInvariant, NEW o \in Operators, NEW n \in Numbers,
           BeginEnrich(o, n) \/ BeginStructure(o, n)
    PROVE  MaintenanceInvariant'
<1>1. /\ RevisionsTyped /\ UNCHANGED <<revision, case, approved, published>>
  BY DEF MaintenanceInvariant, BeginEnrich, BeginStructure, BeginOn
<1>2. case[n] \in CaseStatuses /\ n \in Nat
  BY <1>1 DEF RevisionsTyped, Numbers
<1>3. PICK work \in {"enrich", "structure"} :
          /\ operator' = [operator EXCEPT ![o] = [doing |-> work, on |-> n, was |-> case[n]]]
          /\ work = "structure" => ~revision[n].split
  BY DEF BeginEnrich, BeginStructure, BeginOn
<1> DEFINE w == [doing |-> work, on |-> n, was |-> case[n]]
<1>4. /\ w \in [doing : Works, on : Nat, was : CaseStatuses \cup {"none"}]
      /\ w.doing = work /\ w.on = n /\ w.was = case[n]
  BY <1>2 DEF Works
<1>5. operator' = [operator EXCEPT ![o] = w]
  BY <1>3
<1> HIDE DEF w
<1> QED
  BY <1>1, <1>2, <1>3, <1>4, <1>5, OperatorKeeps

LEMMA AbandonKeeps ==
    ASSUME MaintenanceInvariant, NEW o \in Operators, LeaveForm(o)
    PROVE  MaintenanceInvariant'
<1>1. /\ operator' = [operator EXCEPT ![o] = Idle]
      /\ UNCHANGED <<revision, case, approved, published>>
  BY DEF LeaveForm
<1>2. Idle \in [doing : Works, on : Nat, was : CaseStatuses \cup {"none"}] /\ Idle.doing = "nothing"
  BY DEF Idle, Works
<1> QED
  BY <1>1, <1>2, OperatorKeeps

----------------------------------------------------------------------------
(* The theorems. *)

LEMMA InitKeeps == MaintenanceInit => MaintenanceInvariant
<1> SUFFICES ASSUME MaintenanceInit PROVE MaintenanceInvariant
  OBVIOUS
<1>1. /\ revision = <<>> /\ case = <<>> /\ approved = <<>> /\ published = <<>>
      /\ operator = [o \in Operators |-> Idle]
  BY DEF MaintenanceInit
<1>2. Numbers = {} /\ DOMAIN published = {} /\ Extractions = {}
  BY <1>1 DEF Numbers, Extractions
<1>3. RevisionsTyped
  BY <1>1 DEF RevisionsTyped, Idle, Works
<1>4. DocsNumbered
  <2>1. 0 \in Nat /\ 1..0 = {}
    OBVIOUS
  <2> QED
    BY <1>2, <2>1 DEF DocsNumbered
<1>5. Backing /\ Publishing /\ Succeeding
  BY <1>2 DEF Backing, Publishing, Succeeding
<1>6. Looking
  BY <1>1 DEF Looking, Idle
<1> QED
  BY <1>3, <1>4, <1>5, <1>6 DEF MaintenanceInvariant

LEMMA NextKeeps == MaintenanceInvariant /\ [MaintenanceNext]_maintenanceVars => MaintenanceInvariant'
<1> SUFFICES ASSUME MaintenanceInvariant, [MaintenanceNext]_maintenanceVars
             PROVE  MaintenanceInvariant'
  OBVIOUS
<1>1. CASE ExtractDocument
  BY <1>1, ExtractKeeps
<1>2. ASSUME NEW n \in Numbers, Approve(n) \/ CancelReview(n) \/ PublishReviewed(n)
      PROVE  MaintenanceInvariant'
  BY <1>2, ApproveKeeps, CancelKeeps, PublishKeeps
<1>3. ASSUME NEW o \in Operators,
             OpenForm(o) \/ Republish(o) \/ Enrich(o) \/ Structure(o) \/ LeaveForm(o)
      PROVE  MaintenanceInvariant'
  BY <1>3, OpenFormKeeps, RepublishKeeps, EnrichKeeps, StructureKeeps, AbandonKeeps
<1>4. ASSUME NEW o \in Operators, NEW n \in Numbers, BeginEnrich(o, n) \/ BeginStructure(o, n)
      PROVE  MaintenanceInvariant'
  BY <1>4, BeginKeeps
<1>5. CASE UNCHANGED maintenanceVars
  <2>1. /\ revision' = revision /\ case' = case /\ approved' = approved
        /\ published' = published /\ operator' = operator
    BY <1>5 DEF maintenanceVars
  <2>2. RevisionsTyped' = RevisionsTyped /\ DocsNumbered' = DocsNumbered /\ Backing' = Backing
    BY <2>1 DEF RevisionsTyped, DocsNumbered, Backing, Numbers, Extractions
  <2>3. Publishing' = Publishing /\ Succeeding' = Succeeding /\ Looking' = Looking
    BY <2>1 DEF Publishing, Succeeding, Looking, Numbers
  <2> QED
    BY <2>2, <2>3 DEF MaintenanceInvariant
<1> QED
  BY <1>1, <1>2, <1>3, <1>4, <1>5 DEF MaintenanceNext

\* What holds of every revision, publication and operator, whatever documents
\* are read and however corrections, enrichments, structures and reviews of one
\* advertisement overlap (services/published_maintenance.py, review_enrichment.py,
\* post_structure_review.py).
THEOREM MaintenanceKeepsInvariant == MaintenanceSpec => []MaintenanceInvariant
BY InitKeeps, NextKeeps, PTL DEF MaintenanceSpec

LEMMA InvariantIsSound == MaintenanceInvariant => MaintenanceSound
<1> SUFFICES ASSUME MaintenanceInvariant PROVE MaintenanceSound
  OBVIOUS
<1>1. DocsNumbered /\ Backing /\ Publishing /\ Succeeding
  BY DEF MaintenanceInvariant
<1>2. ASSUME NEW n \in Numbers, NEW p \in revision[n].backed
      PROVE  revision[n].facts[p] = revision[Extracted(revision[n].doc)].facts[p]
  <2>1. PICK m \in Numbers : revision[m].doc = revision[n].doc /\ revision[m].by = "discovery"
    BY <1>1 DEF DocsNumbered
  <2>2. /\ Extracted(revision[n].doc) \in Numbers
        /\ revision[Extracted(revision[n].doc)].doc = revision[n].doc
        /\ revision[Extracted(revision[n].doc)].by = "discovery"
    BY <2>1 DEF Extracted
  <2> QED
    BY <1>1, <2>2 DEF Backing
<1>3. \A n \in Numbers :
          revision[n].by \in {"enrichment", "structure"} => case[revision[n].from] # "open"
  BY <1>1 DEF Succeeding
<1>4. \A i \in DOMAIN published : revision[published[i]].by = "edit" =>
          /\ i > 1 /\ published[i - 1] = revision[published[i]].from
          /\ \A p \in Paths \ revision[published[i]].changed :
                revision[published[i]].facts[p] = approved[revision[published[i]].from][p]
  BY <1>1 DEF Publishing
<1> QED
  BY <1>2, <1>3, <1>4 DEF MaintenanceSound

\* Evidence stands only for the value that was read from the document; a
\* correction is published right after the revision its operator saw, and
\* differs from what was approved there only in what the operator changed; and a
\* case whose revision was enriched or restructured is not left open beside its
\* successor (services/published_maintenance.py, review_enrichment.py,
\* post_structure_review.py).
THEOREM MaintenanceIsSound == MaintenanceSpec => []MaintenanceSound
BY MaintenanceKeepsInvariant, InvariantIsSound, PTL

----------------------------------------------------------------------------
(* Monitoring: the inductive invariant. *)

Deliverings == {"none", "DELIVERED", "FAILED"}
MonitorRecords ==
    [at : {"idle", "read", "notify"}, completed : Seq(RunStatuses),
     todo : SUBSET AlertKeys, done : SUBSET AlertKeys, mine : [AlertKeys -> Deliverings]]

MonitoringTyped ==
    /\ history \in Seq(RunStatuses) /\ Len(history) <= MaxHistory
    /\ old \subseteq DOMAIN history
    /\ notice \in [AlertKeys -> Deliverings]
    /\ deliveries \in [AlertKeys -> Nat]
    /\ monitor \in [Monitors -> MonitorRecords]
    /\ lost \in Nat

\* The run of an alert is, or was and stays, what the alert says.
Truthful(k) ==
    /\ k[2] \in DOMAIN history
    /\ k[1] = "PIPELINE_FAILED" => history[k[2]] = "FAILED"
    /\ k[1] = "SUCCESS_OVERDUE" => history[k[2]] = "SUCCESS" /\ k[2] \in old

\* A run that a snapshot of the history shows completed is completed.
Snapshot(h) ==
    /\ Len(h) <= Len(history)
    /\ \A r \in DOMAIN h : h[r] # "RUNNING" => history[r] = h[r]

\* What a monitor knows, and what it has written.
Keeping(m) ==
    /\ monitor[m].at # "notify" =>
          /\ monitor[m].todo = {} /\ monitor[m].done = {}
          /\ \A k \in AlertKeys : monitor[m].mine[k] = "none"
    /\ monitor[m].at = "read" => Snapshot(monitor[m].completed)
    /\ \A k \in monitor[m].todo \cup monitor[m].done : Truthful(k)
    /\ \A k \in AlertKeys : monitor[m].mine[k] # "none" => k \in monitor[m].done
    /\ \A k \in monitor[m].done : notice[k] # "none" \/ monitor[m].mine[k] # "none"

\* A key is inserted by one monitor, and not while it is there.
Alone(k) ==
    /\ \A m, n \in Monitors :
          monitor[m].mine[k] # "none" /\ monitor[n].mine[k] # "none" => m = n
    /\ \A m \in Monitors : monitor[m].mine[k] # "none" => notice[k] = "none"

Writing(k) == \E m \in Monitors : monitor[m].mine[k] = "DELIVERED"
Written(k) == (IF Writing(k) THEN 1 ELSE 0) + (IF notice[k] = "DELIVERED" THEN 1 ELSE 0)
Balanced(k) == Written(k) <= deliveries[k] /\ deliveries[k] <= Written(k) + lost

MonitoringInvariant ==
    /\ MonitoringTyped
    /\ \A m \in Monitors : Keeping(m)
    /\ \A k \in AlertKeys : Alone(k) /\ Balanced(k) /\ (notice[k] # "none" => Truthful(k))

----------------------------------------------------------------------------
(* The last run of a set of runs. *)

LEMMA LeastNat ==
    ASSUME NEW S \in SUBSET Nat, S # {}
    PROVE  \E n \in S : \A m \in S : n <= m
<1>1. PICK x \in S : TRUE
  OBVIOUS
<1>2. \E n \in S : \A m \in S : ~(<<m, n>> \in OpToRel(<, Nat))
  BY <1>1, NatLessThanWellFounded, WFMin
<1>3. PICK n \in S : \A m \in S : ~(<<m, n>> \in OpToRel(<, Nat))
  BY <1>2
<1>4. ASSUME NEW m \in S PROVE n <= m
  <2>1. m \in Nat /\ n \in Nat
    OBVIOUS
  <2>2. m < n => <<m, n>> \in OpToRel(<, Nat)
    BY <2>1 DEF OpToRel
  <2>3. ~(m < n)
    BY <1>3, <2>2, Zenon
  <2> QED
    BY <2>1, <2>3
<1> QED
  BY <1>4

LEMMA LastRunOf ==
    ASSUME NEW b \in Nat, NEW S \in SUBSET (1..b)
    PROVE  /\ LastRun(S) \in 0..b /\ (S = {} => LastRun(S) = 0)
           /\ S # {} => LastRun(S) \in S
           /\ \A q \in S : q <= LastRun(S)
<1>1. CASE S = {}
  BY <1>1 DEF LastRun
<1>2. CASE S # {}
  <2> DEFINE B == {n \in Nat : \A q \in S : q <= n}
  <2>1. b \in B
    OBVIOUS
  <2>2. PICK n \in B : \A m \in B : n <= m
    BY <2>1, LeastNat
  <2>3. n \in Nat /\ \A q \in S : q <= n /\ q \in Nat /\ q >= 1
    BY <2>2
  <2>4. n \in S
    <3> SUFFICES ASSUME n \notin S PROVE FALSE
      OBVIOUS
    <3>1. \A q \in S : q <= n - 1
      BY <2>3
    <3>2. PICK x \in S : TRUE
      BY <1>2
    <3>3. n - 1 \in Nat
      BY <2>3, <3>1, <3>2
    <3>4. n - 1 \in B
      BY <3>1, <3>3
    <3> QED
      BY <2>2, <2>3, <3>4
  <2>5. \E r \in S : \A q \in S : q <= r
    BY <2>3, <2>4
  <2>6. LastRun(S) \in S /\ \A q \in S : q <= LastRun(S)
    BY <1>2, <2>5 DEF LastRun
  <2>7. PICK x \in S : x = LastRun(S)
    BY <2>6
  <2>8. x \in 1..b
    OBVIOUS
  <2>9. LastRun(S) \in 0..b
    BY <2>7, <2>8
  <2> QED
    BY <1>2, <2>6, <2>9
<1> QED
  BY <1>1, <1>2

LEMMA WithOf ==
    ASSUME NEW h \in Seq(RunStatuses), NEW status
    PROVE  /\ Len(h) \in Nat /\ DOMAIN h = 1..Len(h) /\ With(h, status) \in SUBSET (1..Len(h))
           /\ \A r : r \in With(h, status) <=> r \in 1..Len(h) /\ h[r] = status
BY DEF With

\* The last run of a status, if there is one.
LEMMA LastWith ==
    ASSUME NEW h \in Seq(RunStatuses), NEW status
    PROVE  /\ LastRun(With(h, status)) \in 0..Len(h)
           /\ LastRun(With(h, status)) > 0 =>
                 LastRun(With(h, status)) \in DOMAIN h /\ h[LastRun(With(h, status))] = status
           /\ \A r \in DOMAIN h : h[r] = status => r <= LastRun(With(h, status))
<1> DEFINE S == With(h, status)
<1>1. Len(h) \in Nat /\ DOMAIN h = 1..Len(h) /\ S \in SUBSET (1..Len(h))
      /\ \A r : r \in S <=> r \in 1..Len(h) /\ h[r] = status
  BY WithOf
<1> HIDE DEF S
<1>2. /\ LastRun(S) \in 0..Len(h) /\ (S = {} => LastRun(S) = 0)
      /\ S # {} => LastRun(S) \in S
      /\ \A q \in S : q <= LastRun(S)
  BY <1>1, LastRunOf
<1>3. LastRun(S) > 0 => LastRun(S) \in S
  BY <1>2
<1>4. /\ LastRun(S) \in 0..Len(h)
      /\ LastRun(S) > 0 => LastRun(S) \in DOMAIN h /\ h[LastRun(S)] = status
      /\ \A r \in DOMAIN h : h[r] = status => r <= LastRun(S)
  BY <1>1, <1>2, <1>3
<1> QED
  BY <1>4 DEF S

----------------------------------------------------------------------------
(* Health and alerts. *)

LEMMA SomeAlert ==
    ASSUME NEW h
    PROVE  /\ \A r \in StaleRunning : <<"RUNNING_STALE", r>> \in Alerts(h)
           /\ \A r \in Failed(h) : <<"PIPELINE_FAILED", r>> \in Alerts(h)
           /\ Overdue(h) /\ Running = {} =>
                 <<"SUCCESS_OVERDUE", LastRun(With(h, "SUCCESS"))>> \in Alerts(h)
BY DEF Alerts

LEMMA AlertOf ==
    ASSUME NEW h, NEW a \in Alerts(h)
    PROVE  \/ \E r \in StaleRunning : a = <<"RUNNING_STALE", r>>
           \/ \E r \in Failed(h) : a = <<"PIPELINE_FAILED", r>>
           \/ /\ a = <<"SUCCESS_OVERDUE", LastRun(With(h, "SUCCESS"))>>
              /\ Overdue(h) /\ Running = {}
BY DEF Alerts

\* A source is healthy only if there is no alert; what failed or is stale has one.
LEMMA HealthAlerted ==
    ASSUME history \in Seq(RunStatuses), old \subseteq DOMAIN history
    PROVE  /\ Health(history) = "HEALTHY" => Alerts(history) = {}
           /\ Health(history) \in {"FAILED", "STALE"} => Alerts(history) # {}
<1> DEFINE C == {r \in DOMAIN history : history[r] # "RUNNING"}
           l == LastRun(C)
           f == LastRun(With(history, "FAILED"))
           s == LastRun(With(history, "SUCCESS"))
           n == Len(history)
<1>1. n \in Nat /\ DOMAIN history = 1..n /\ C \in SUBSET (1..n)
  OBVIOUS
<1>2. /\ l \in 0..n /\ (C # {} => l \in C) /\ (C = {} => l = 0)
      /\ \A q \in C : q <= l
  BY <1>1, LastRunOf
<1>3. /\ f \in 0..n
      /\ f > 0 => f \in DOMAIN history /\ history[f] = "FAILED"
      /\ \A r \in DOMAIN history : history[r] = "FAILED" => r <= f
  BY LastWith
<1>4. /\ s \in 0..n
      /\ s > 0 => s \in DOMAIN history /\ history[s] = "SUCCESS"
      /\ \A r \in DOMAIN history : history[r] = "SUCCESS" => r <= s
  BY LastWith
<1>5. l # 0 => l \in DOMAIN history /\ history[l] \in {"SUCCESS", "PARTIAL", "FAILED"}
  BY <1>2 DEF RunStatuses
<1>6. f <= l /\ s <= l
  BY <1>1, <1>2, <1>3, <1>4
<1>7. LastCompleted(history) = l /\ (Overdue(history) <=> s \in old)
  BY DEF LastCompleted, Overdue
<1>8. Failed(history) = {r \in {f} : r > s}
  BY DEF Failed
<1> HIDE DEF C, l, f, s, n
<1>9. ASSUME Health(history) = "HEALTHY"
      PROVE  Alerts(history) = {}
  <2>1. StaleRunning = {} /\ Running = {} /\ l # 0 /\ history[l] = "SUCCESS" /\ s \notin old
    BY <1>5, <1>7, <1>9 DEF Health
  <2>2. s = l /\ f < s
    BY <1>1, <1>3, <1>4, <1>5, <1>6, <2>1
  <2>3. Failed(history) = {}
    BY <1>1, <1>3, <1>4, <1>8, <2>2
  <2> QED
    BY <1>7, <2>1, <2>3, AlertOf
<1>10. ASSUME Health(history) \in {"FAILED", "STALE"}
       PROVE  Alerts(history) # {}
  <2>1. CASE StaleRunning # {}
    BY <2>1, SomeAlert
  <2>2. CASE StaleRunning = {}
    <3>1. Running = {} /\ ((l # 0 /\ history[l] = "FAILED") \/ Overdue(history))
      BY <1>7, <1>10, <2>2 DEF Health
    <3>2. CASE Overdue(history)
      BY <3>1, <3>2, SomeAlert
    <3>3. CASE l # 0 /\ history[l] = "FAILED"
      <4>1. f = l /\ s < f
        BY <1>1, <1>3, <1>4, <1>5, <1>6, <3>3
      <4>2. f \in Failed(history)
        BY <1>1, <1>3, <1>4, <1>8, <4>1
      <4> QED
        BY <4>2, SomeAlert
    <3> QED
      BY <3>1, <3>2, <3>3
  <2> QED
    BY <2>1, <2>2
<1> QED
  BY <1>9, <1>10

----------------------------------------------------------------------------
(* What an alert says of its run. *)

\* What is evaluated from a snapshot is true of the runs.
LEMMA EvaluatedTrue ==
    ASSUME MonitoringTyped, NEW h \in Seq(RunStatuses), Snapshot(h), NEW a \in Alerts(h)
    PROVE  a[1] \in AlertTypes /\ a[2] \in RunIds /\ Truthful(a)
<1> DEFINE f == LastRun(With(h, "FAILED"))
           s == LastRun(With(h, "SUCCESS"))
<1>1. /\ Len(history) \in Nat /\ Len(h) \in Nat /\ Len(h) <= Len(history)
      /\ DOMAIN history = 1..Len(history) /\ DOMAIN h = 1..Len(h)
      /\ DOMAIN h \subseteq DOMAIN history /\ DOMAIN history \subseteq RunIds
  BY MonitoringAssumption DEF MonitoringTyped, Snapshot, RunIds
<1>2. AlertTypes = {"RUNNING_STALE", "PIPELINE_FAILED", "SUCCESS_OVERDUE"}
  BY DEF AlertTypes, Place
<1>3. /\ f \in 0..Len(h)
      /\ f > 0 => f \in DOMAIN h /\ h[f] = "FAILED"
  BY LastWith
<1>4. /\ s \in 0..Len(h)
      /\ s > 0 => s \in DOMAIN h /\ h[s] = "SUCCESS"
  BY LastWith
<1>5. Failed(h) = {r \in {f} : r > s} /\ (Overdue(h) <=> s \in old)
  BY DEF Failed, Overdue
<1> HIDE DEF f, s
<1>6. CASE \E r \in StaleRunning : a = <<"RUNNING_STALE", r>>
  <2>1. PICK r \in StaleRunning : a = <<"RUNNING_STALE", r>>
    BY <1>6
  <2>2. r \in DOMAIN history
    BY DEF StaleRunning, Running, With
  <2> QED
    BY <1>1, <1>2, <2>1, <2>2 DEF Truthful
<1>7. CASE \E r \in Failed(h) : a = <<"PIPELINE_FAILED", r>>
  <2>1. a = <<"PIPELINE_FAILED", f>> /\ f > s
    BY <1>5, <1>7
  <2>2. f \in DOMAIN h /\ h[f] = "FAILED"
    BY <1>1, <1>3, <1>4, <2>1
  <2>3. f \in DOMAIN history /\ history[f] = "FAILED"
    BY <1>1, <2>2 DEF Snapshot
  <2> QED
    BY <1>1, <1>2, <2>1, <2>3 DEF Truthful
<1>8. CASE /\ a = <<"SUCCESS_OVERDUE", LastRun(With(h, "SUCCESS"))>>
           /\ Overdue(h) /\ Running = {}
  <2>1. a = <<"SUCCESS_OVERDUE", s>> /\ s \in old
    BY <1>5, <1>8 DEF s
  <2>2. s > 0
    BY <1>1, <1>4, <2>1 DEF MonitoringTyped
  <2>3. s \in DOMAIN history /\ history[s] = "SUCCESS"
    BY <1>1, <1>4, <2>2 DEF Snapshot
  <2> QED
    BY <1>1, <1>2, <2>1, <2>3 DEF Truthful
<1> QED
  BY <1>6, <1>7, <1>8, AlertOf

\* The runs move on, and what was true of them stays true.
LEMMA RunsMove ==
    ASSUME MonitoringTyped,
           \/ StartRun
           \/ \E r \in DOMAIN history : GrowOld(r) \/ \E status \in RunStatuses : EndRun(r, status)
    PROVE  /\ MonitoringTyped' /\ UNCHANGED <<notice, deliveries, monitor, lost>>
           /\ \A k : Truthful(k) => Truthful(k)'
           /\ \A h \in Seq(RunStatuses) : Snapshot(h) => Snapshot(h)'
<1>1. UNCHANGED <<notice, deliveries, monitor, lost>>
  BY DEF StartRun, GrowOld, EndRun
<1>2. CASE StartRun
  <2>1. /\ history' \in Seq(RunStatuses) /\ Len(history') = Len(history) + 1
        /\ Len(history') <= MaxHistory /\ old' = old
        /\ DOMAIN history \subseteq DOMAIN history'
        /\ \A r \in DOMAIN history : history'[r] = history[r]
    BY <1>2, MonitoringAssumption DEF MonitoringTyped, StartRun, RunStatuses
  <2>2. \A k : Truthful(k) => Truthful(k)'
    BY <2>1 DEF Truthful
  <2>3. ASSUME NEW h \in Seq(RunStatuses), Snapshot(h) PROVE Snapshot(h)'
    <3>1. Len(h) <= Len(history')
      <4>1. Len(history) \in Nat
        BY DEF MonitoringTyped
      <4>2. PICK l : l = Len(h)
        OBVIOUS
      <4> QED
        BY <2>1, <2>3, <4>1 DEF Snapshot
    <3>2. ASSUME NEW r \in DOMAIN h, h[r] # "RUNNING" PROVE history'[r] = h[r]
      BY <2>1, <2>3, <3>2 DEF Snapshot
    <3> QED
      BY <3>1, <3>2 DEF Snapshot
  <2>4. MonitoringTyped'
    BY <1>1, <2>1 DEF MonitoringTyped
  <2> QED
    BY <1>1, <2>2, <2>3, <2>4
<1>3. ASSUME NEW r \in DOMAIN history, GrowOld(r)
      PROVE  /\ MonitoringTyped'
             /\ \A k : Truthful(k) => Truthful(k)'
             /\ \A h \in Seq(RunStatuses) : Snapshot(h) => Snapshot(h)'
  <2>1. history' = history /\ old \subseteq old' /\ old' \subseteq DOMAIN history
    BY <1>3 DEF GrowOld, MonitoringTyped
  <2> QED
    BY <1>1, <2>1 DEF MonitoringTyped, Truthful, Snapshot
<1>4. ASSUME NEW r \in DOMAIN history, NEW status \in RunStatuses, EndRun(r, status)
      PROVE  /\ MonitoringTyped'
             /\ \A k : Truthful(k) => Truthful(k)'
             /\ \A h \in Seq(RunStatuses) : Snapshot(h) => Snapshot(h)'
  <2>1. /\ history' \in Seq(RunStatuses) /\ Len(history') = Len(history)
        /\ DOMAIN history' = DOMAIN history /\ history[r] = "RUNNING" /\ old' = old \ {r}
        /\ \A q \in DOMAIN history : q # r => history'[q] = history[q]
    BY <1>4 DEF MonitoringTyped, EndRun
  <2>2. \A k : Truthful(k) => Truthful(k)'
    BY <2>1 DEF Truthful
  <2>3. ASSUME NEW h \in Seq(RunStatuses), Snapshot(h) PROVE Snapshot(h)'
    <3>1. ASSUME NEW q \in DOMAIN h, h[q] # "RUNNING" PROVE history'[q] = h[q]
      <4>1. history[q] = h[q] /\ q # r
        BY <2>1, <2>3, <3>1 DEF Snapshot
      <4>2. q \in DOMAIN history
        BY <2>3 DEF Snapshot, MonitoringTyped
      <4> QED
        BY <2>1, <4>1, <4>2
    <3> QED
      BY <2>1, <2>3, <3>1 DEF Snapshot
  <2>4. MonitoringTyped'
    BY <1>1, <2>1 DEF MonitoringTyped
  <2> QED
    BY <2>2, <2>3, <2>4
<1> QED
  BY <1>1, <1>2, <1>3, <1>4

----------------------------------------------------------------------------
(* The steps of a monitor. *)

Others(m) == \A n \in Monitors \ {m} : monitor'[n] = monitor[n]

LEMMA RecordFields ==
    ASSUME MonitoringTyped, NEW m \in Monitors
    PROVE  /\ monitor[m] \in MonitorRecords
           /\ monitor[m].at \in {"idle", "read", "notify"}
           /\ monitor[m].completed \in Seq(RunStatuses)
           /\ monitor[m].todo \subseteq AlertKeys /\ monitor[m].done \subseteq AlertKeys
           /\ monitor[m].mine \in [AlertKeys -> Deliverings]
BY DEF MonitoringTyped, MonitorRecords

\* The other monitors have what they had, as far as the alerts are still what they were.
LEMMA OthersKeep ==
    ASSUME MonitoringTyped, NEW m \in Monitors, Others(m), history' = history, old' = old,
           \A n \in Monitors : Keeping(n),
           \A k \in AlertKeys : notice[k] # "none" => notice'[k] # "none",
           Keeping(m)'
    PROVE  \A n \in Monitors : Keeping(n)'
<1>1. ASSUME NEW n \in Monitors \ {m} PROVE Keeping(n)'
  <2>1. monitor'[n] = monitor[n] /\ Keeping(n) /\ monitor[n].done \subseteq AlertKeys
    BY RecordFields DEF Others
  <2>2. /\ \A k : Truthful(k)' <=> Truthful(k)
        /\ \A h : Snapshot(h)' <=> Snapshot(h)
    BY DEF Truthful, Snapshot
  <2>3. monitor'[n].at # "notify" =>
          /\ monitor'[n].todo = {} /\ monitor'[n].done = {}
          /\ \A k \in AlertKeys : monitor'[n].mine[k] = "none"
    BY <2>1 DEF Keeping
  <2>4. (monitor[n].at = "read" => Snapshot(monitor[n].completed))'
    BY <2>1, <2>2 DEF Keeping, Snapshot
  <2>5. (\A k \in monitor[n].todo \cup monitor[n].done : Truthful(k))'
    BY <2>1, <2>2 DEF Keeping, Truthful
  <2>6. \A k \in AlertKeys : monitor'[n].mine[k] # "none" => k \in monitor'[n].done
    BY <2>1 DEF Keeping
  <2>7. \A k \in monitor'[n].done : notice'[k] # "none" \/ monitor'[n].mine[k] # "none"
    BY <2>1 DEF Keeping
  <2> QED
    BY <2>3, <2>4, <2>5, <2>6, <2>7 DEF Keeping
<1> QED
  BY <1>1

\* A monitor in whose rows nothing changes.
LEMMA StillBalanced ==
    ASSUME NEW m \in Monitors, Others(m), UNCHANGED <<notice, deliveries, lost>>,
           monitor'[m].mine = monitor[m].mine, NEW k \in AlertKeys, Alone(k), Balanced(k)
    PROVE  Alone(k)' /\ Balanced(k)'
<1>1. \A n \in Monitors : monitor'[n].mine = monitor[n].mine
  BY DEF Others
<1>2. Alone(k)'
  BY <1>1 DEF Alone
<1>3. Writing(k)' <=> Writing(k)
  BY <1>1 DEF Writing
<1>4. Written(k)' = Written(k)
  BY <1>3 DEF Written
<1>5. Balanced(k)'
  BY <1>4 DEF Balanced
<1> QED
  BY <1>2, <1>5

EmptyMine == [k \in AlertKeys |-> "none"]

LEMMA IdleRecord ==
    /\ IdleMonitor \in MonitorRecords /\ EmptyMine \in [AlertKeys -> Deliverings]
    /\ IdleMonitor.at = "idle" /\ IdleMonitor.todo = {} /\ IdleMonitor.done = {}
    /\ IdleMonitor.mine = EmptyMine /\ \A k \in AlertKeys : EmptyMine[k] = "none"
<1>1. <<>> \in Seq(RunStatuses)
  OBVIOUS
<1> QED
  BY <1>1 DEF IdleMonitor, MonitorRecords, EmptyMine, Deliverings

LEMMA ReadKept ==
    ASSUME MonitoringInvariant, NEW m \in Monitors, ReadRuns(m)
    PROVE  MonitoringInvariant'
<1>1. MonitoringTyped /\ UNCHANGED <<history, old, notice, deliveries, lost>>
  BY DEF MonitoringInvariant, ReadRuns
<1>0. PICK h \in Seq(RunStatuses) : h = history
  BY <1>1 DEF MonitoringTyped
<1> DEFINE R == [IdleMonitor EXCEPT !.at = "read", !.completed = h]
<1>2. /\ R \in MonitorRecords /\ R.at = "read" /\ R.completed = h
      /\ R.todo = {} /\ R.done = {} /\ R.mine = EmptyMine
  BY <1>1, IdleRecord DEF IdleMonitor, EmptyMine, MonitorRecords, MonitoringTyped
<1>3. monitor' = [monitor EXCEPT ![m] = R] /\ monitor[m].at = "idle"
  BY <1>0 DEF ReadRuns
<1> HIDE DEF R
<1>4. monitor' \in [Monitors -> MonitorRecords] /\ monitor'[m] = R /\ Others(m)
  BY <1>1, <1>2, <1>3 DEF MonitoringTyped, Others
<1>5. MonitoringTyped'
  BY <1>1, <1>4 DEF MonitoringTyped
<1>6. Len(h) <= Len(history') /\ \A r \in DOMAIN h : history'[r] = h[r]
  BY <1>0, <1>1 DEF MonitoringTyped
<1>7. Keeping(m)'
  <2>1. (monitor[m].at = "read" => Snapshot(monitor[m].completed))'
    BY <1>2, <1>4, <1>6 DEF Snapshot
  <2> QED
    BY <1>2, <1>4, <2>1, IdleRecord DEF Keeping
<1>8. \A n \in Monitors : Keeping(n)'
  BY <1>1, <1>4, <1>7, OthersKeep DEF MonitoringInvariant
<1>9. ASSUME NEW k \in AlertKeys PROVE Alone(k)' /\ Balanced(k)'
  <2>1. monitor[m].mine \in [AlertKeys -> Deliverings] /\ \A j \in AlertKeys : monitor[m].mine[j] = "none"
    BY <1>1, <1>3, RecordFields DEF MonitoringInvariant, Keeping
  <2>2. monitor[m].mine = EmptyMine
    BY <2>1 DEF EmptyMine
  <2> QED
    BY <1>1, <1>2, <1>4, <2>2, StillBalanced DEF MonitoringInvariant
<1>10. \A k \in AlertKeys : (notice[k] # "none" => Truthful(k))'
  BY <1>1 DEF MonitoringInvariant, Truthful
<1> QED
  BY <1>5, <1>8, <1>9, <1>10 DEF MonitoringInvariant

LEMMA EvaluateKept ==
    ASSUME MonitoringInvariant, NEW m \in Monitors, Evaluate(m)
    PROVE  MonitoringInvariant'
<1>1. /\ MonitoringTyped /\ UNCHANGED <<history, old, notice, deliveries, lost>>
      /\ Keeping(m) /\ monitor[m].at = "read"
  BY DEF MonitoringInvariant, Evaluate
<1> DEFINE h == monitor[m].completed
           T == {<<a[1], a[2], c>> : a \in Alerts(h), c \in Channels}
           R == [monitor[m] EXCEPT !.at = "notify", !.completed = <<>>, !.todo = T]
<1>2. h \in Seq(RunStatuses) /\ Snapshot(h) /\ monitor[m] \in MonitorRecords
  BY <1>1, RecordFields DEF Keeping
<1>3. ASSUME NEW k \in T PROVE k \in AlertKeys /\ Truthful(k)
  <2>1. PICK a \in Alerts(h), c \in Channels : k = <<a[1], a[2], c>>
    OBVIOUS
  <2>2. a[1] \in AlertTypes /\ a[2] \in RunIds /\ Truthful(a)
    BY <1>1, <1>2, EvaluatedTrue
  <2>3. k[1] = a[1] /\ k[2] = a[2] /\ k \in AlertKeys
    BY <2>1, <2>2 DEF AlertKeys
  <2> QED
    BY <2>2, <2>3 DEF Truthful
<1>4. monitor' = [monitor EXCEPT ![m].at = "notify", ![m].completed = <<>>, ![m].todo = T]
  BY DEF Evaluate
<1> HIDE DEF T, h
<1>5. <<>> \in Seq(RunStatuses) /\ T \subseteq AlertKeys
  BY <1>3
<1>6. /\ R \in MonitorRecords /\ R.at = "notify" /\ R.todo = T
      /\ R.done = monitor[m].done /\ R.mine = monitor[m].mine
  BY <1>2, <1>5 DEF MonitorRecords
<1>7. monitor' \in [Monitors -> MonitorRecords] /\ monitor'[m] = R /\ Others(m)
  <2>1. monitor'[m] = R
    BY <1>1, <1>4 DEF MonitoringTyped
  <2>2. Others(m) /\ DOMAIN monitor' = Monitors
    BY <1>1, <1>4 DEF MonitoringTyped, Others
  <2>3. monitor' = [n \in Monitors |-> monitor'[n]]
    BY <1>1, <1>4 DEF MonitoringTyped
  <2>4. \A n \in Monitors : monitor'[n] \in MonitorRecords
    BY <1>1, <1>6, <2>1, <2>2 DEF MonitoringTyped, Others
  <2> HIDE DEF R
  <2> QED
    BY <2>1, <2>2, <2>3, <2>4
<1> HIDE DEF R
<1>8. MonitoringTyped'
  BY <1>1, <1>7 DEF MonitoringTyped
<1>9. Keeping(m)'
  <2>1. monitor[m].done = {} /\ \A k \in AlertKeys : monitor[m].mine[k] = "none"
    BY <1>1 DEF Keeping
  <2>2. (\A k \in monitor[m].todo \cup monitor[m].done : Truthful(k))'
    BY <1>1, <1>3, <1>6, <1>7, <2>1 DEF Truthful
  <2> QED
    BY <1>6, <1>7, <2>1, <2>2 DEF Keeping
<1>10. \A n \in Monitors : Keeping(n)'
  BY <1>1, <1>7, <1>9, OthersKeep DEF MonitoringInvariant
<1>11. \A k \in AlertKeys : Alone(k)' /\ Balanced(k)'
  BY <1>1, <1>6, <1>7, StillBalanced DEF MonitoringInvariant
<1>12. \A k \in AlertKeys : (notice[k] # "none" => Truthful(k))'
  BY <1>1 DEF MonitoringInvariant, Truthful
<1> QED
  BY <1>8, <1>10, <1>11, <1>12 DEF MonitoringInvariant

\* A monitor that has seen to a key, with the record it then has.
LEMMA SeenTo ==
    ASSUME MonitoringTyped, NEW m \in Monitors, NEW k \in AlertKeys,
           NEW mine \in [AlertKeys -> Deliverings],
           DOMAIN monitor' = Monitors, monitor' = [n \in Monitors |-> monitor'[n]],
           Others(m),
           monitor'[m] = [at |-> monitor[m].at, completed |-> monitor[m].completed,
                          todo |-> monitor[m].todo \ {k}, done |-> monitor[m].done \cup {k},
                          mine |-> mine]
    PROVE  /\ Others(m) /\ monitor' \in [Monitors -> MonitorRecords]
           /\ monitor'[m].at = monitor[m].at
           /\ monitor'[m].todo = monitor[m].todo \ {k} /\ monitor'[m].done = monitor[m].done \cup {k}
           /\ monitor'[m].mine = mine
<1>1. \A n \in Monitors : monitor[n] \in MonitorRecords
  BY DEF MonitoringTyped
<1>2. monitor'[m] \in MonitorRecords
  BY <1>1 DEF MonitorRecords
<1>3. \A n \in Monitors : monitor'[n] \in MonitorRecords
  BY <1>1, <1>2 DEF Others
<1>4. monitor' \in [Monitors -> MonitorRecords]
  BY <1>3
<1> QED
  BY <1>4

LEMMA SeeOf ==
    ASSUME MonitoringTyped, NEW m \in Monitors, NEW k \in AlertKeys
    PROVE  /\ See(m, k)[m] = [at |-> monitor[m].at, completed |-> monitor[m].completed,
                              todo |-> monitor[m].todo \ {k}, done |-> monitor[m].done \cup {k},
                              mine |-> monitor[m].mine]
           /\ See(m, k) = [n \in Monitors |-> See(m, k)[n]]
           /\ \A n \in Monitors \ {m} : See(m, k)[n] = monitor[n]
<1>1. DOMAIN monitor = Monitors /\ monitor[m] \in MonitorRecords
  BY DEF MonitoringTyped
<1>2. See(m, k)[m] = [monitor[m] EXCEPT !.todo = @ \ {k}, !.done = @ \cup {k}]
  BY <1>1 DEF See
<1>3. See(m, k)[m] = [at |-> monitor[m].at, completed |-> monitor[m].completed,
                      todo |-> monitor[m].todo \ {k}, done |-> monitor[m].done \cup {k},
                      mine |-> monitor[m].mine]
  BY <1>1, <1>2 DEF MonitorRecords
<1>4. See(m, k) = [n \in Monitors |-> See(m, k)[n]]
  BY <1>1 DEF See
<1>5. \A n \in Monitors \ {m} : See(m, k)[n] = monitor[n]
  BY <1>1 DEF See
<1> QED
  BY <1>3, <1>4, <1>5

LEMMA SkipKept ==
    ASSUME MonitoringInvariant, NEW m \in Monitors, NEW k \in AlertKeys, Skip(m, k)
    PROVE  MonitoringInvariant'
<1>1. /\ MonitoringTyped /\ UNCHANGED <<history, old, notice, deliveries, lost>>
      /\ Keeping(m) /\ k \in monitor[m].todo /\ notice[k] # "none"
      /\ monitor[m].mine \in [AlertKeys -> Deliverings]
  BY RecordFields DEF MonitoringInvariant, Skip, At
<1>2. /\ Others(m) /\ monitor' \in [Monitors -> MonitorRecords]
      /\ monitor'[m].at = monitor[m].at
      /\ monitor'[m].todo = monitor[m].todo \ {k} /\ monitor'[m].done = monitor[m].done \cup {k}
      /\ monitor'[m].mine = monitor[m].mine
  <2>1. monitor' = See(m, k)
    BY DEF Skip
  <2>2. monitor'[m] = [at |-> monitor[m].at, completed |-> monitor[m].completed,
                       todo |-> monitor[m].todo \ {k}, done |-> monitor[m].done \cup {k},
                       mine |-> monitor[m].mine]
    BY <1>1, <2>1, SeeOf
  <2>3. monitor' = [n \in Monitors |-> monitor'[n]]
    BY <1>1, <2>1, SeeOf
  <2>4. DOMAIN monitor' = Monitors
    BY <2>3
  <2>5. Others(m)
    BY <1>1, <2>1, SeeOf DEF Others
  <2> QED
    BY <1>1, <2>2, <2>3, <2>4, <2>5, SeenTo
<1>3. monitor[m].at = "notify"
  BY <1>1, RecordFields DEF Keeping
<1>4. MonitoringTyped'
  BY <1>1, <1>2 DEF MonitoringTyped
<1>5. Keeping(m)'
  <2>1. (\A j \in monitor[m].todo \cup monitor[m].done : Truthful(j))'
    BY <1>1, <1>2 DEF Keeping, Truthful
  <2>2. \A j \in monitor'[m].done : notice'[j] # "none" \/ monitor'[m].mine[j] # "none"
    BY <1>1, <1>2 DEF Keeping
  <2>3. \A j \in AlertKeys : monitor'[m].mine[j] # "none" => j \in monitor'[m].done
    BY <1>1, <1>2 DEF Keeping
  <2> QED
    BY <1>2, <1>3, <2>1, <2>2, <2>3 DEF Keeping
<1>6. \A n \in Monitors : Keeping(n)'
  BY <1>1, <1>2, <1>5, OthersKeep DEF MonitoringInvariant
<1>7. \A j \in AlertKeys : Alone(j)' /\ Balanced(j)'
  BY <1>1, <1>2, StillBalanced DEF MonitoringInvariant
<1>8. \A j \in AlertKeys : (notice[j] # "none" => Truthful(j))'
  BY <1>1 DEF MonitoringInvariant, Truthful
<1> QED
  BY <1>4, <1>6, <1>7, <1>8 DEF MonitoringInvariant

\* The numbers of a key.
LEMMA KeyCounts ==
    ASSUME MonitoringTyped, NEW k \in AlertKeys
    PROVE  Written(k) \in 0..2 /\ deliveries[k] \in Nat /\ lost \in Nat
BY DEF MonitoringTyped, Written

LEMMA NotifyKept ==
    ASSUME MonitoringInvariant, NEW m \in Monitors, NEW k \in AlertKeys, Notify(m, k)
    PROVE  MonitoringInvariant'
<1>1. /\ MonitoringTyped /\ UNCHANGED <<history, old, notice, lost>>
      /\ Keeping(m) /\ k \in monitor[m].todo
      /\ notice[k] = "none" /\ \A n \in Monitors : monitor[n].mine[k] = "none"
      /\ monitor[m].mine \in [AlertKeys -> Deliverings]
  BY RecordFields DEF MonitoringInvariant, Notify, At
<1>2. PICK status \in {"DELIVERED", "FAILED"} :
         /\ monitor' = [See(m, k) EXCEPT ![m].mine[k] = status]
         /\ deliveries' = [deliveries EXCEPT ![k] = @ + IF status = "FAILED" THEN 0 ELSE 1]
  BY DEF Notify, Deliveries
<1> DEFINE M == [monitor[m].mine EXCEPT ![k] = status]
<1>3. M \in [AlertKeys -> Deliverings] /\ status \in Deliverings /\ M[k] = status
      /\ \A j \in AlertKeys \ {k} : M[j] = monitor[m].mine[j]
  BY <1>1 DEF Deliverings
<1> HIDE DEF M
<1>4. /\ Others(m) /\ monitor' \in [Monitors -> MonitorRecords]
      /\ monitor'[m].at = monitor[m].at
      /\ monitor'[m].todo = monitor[m].todo \ {k} /\ monitor'[m].done = monitor[m].done \cup {k}
      /\ monitor'[m].mine = M
  <2>1. m \in DOMAIN See(m, k) /\ See(m, k) = [n \in Monitors |-> See(m, k)[n]]
    BY <1>1, SeeOf
  <2>2. monitor'[m] = [See(m, k)[m] EXCEPT !.mine = [@ EXCEPT ![k] = status]]
    BY <1>2, <2>1
  <2>3. PICK a : a = See(m, k)[m]
    OBVIOUS
  <2>4. a = [at |-> monitor[m].at, completed |-> monitor[m].completed,
             todo |-> monitor[m].todo \ {k}, done |-> monitor[m].done \cup {k},
             mine |-> monitor[m].mine]
    BY <1>1, <2>3, SeeOf
  <2>5. monitor'[m] = [at |-> monitor[m].at, completed |-> monitor[m].completed,
             todo |-> monitor[m].todo \ {k}, done |-> monitor[m].done \cup {k}, mine |-> M]
    BY <2>2, <2>3, <2>4 DEF M
  <2>6. DOMAIN monitor' = Monitors /\ monitor' = [n \in Monitors |-> monitor'[n]]
    BY <1>2, <2>1
  <2>7. Others(m)
    BY <1>1, <1>2, <2>1, SeeOf DEF Others
  <2> QED
    BY <1>1, <1>3, <2>5, <2>6, <2>7, SeenTo
<1>5. monitor[m].at = "notify"
  BY <1>1, RecordFields DEF Keeping
<1>6. /\ deliveries' \in [AlertKeys -> Nat]
      /\ \A j \in AlertKeys \ {k} : deliveries'[j] = deliveries[j]
      /\ deliveries'[k] = deliveries[k] + (IF status = "FAILED" THEN 0 ELSE 1)
  BY <1>1, <1>2 DEF MonitoringTyped
<1>7. MonitoringTyped'
  BY <1>1, <1>4, <1>6 DEF MonitoringTyped
<1>8. Keeping(m)'
  <2>1. (\A j \in monitor[m].todo \cup monitor[m].done : Truthful(j))'
    BY <1>1, <1>4 DEF Keeping, Truthful
  <2>2. \A j \in monitor'[m].done : notice'[j] # "none" \/ monitor'[m].mine[j] # "none"
    <3>1. monitor[m].done \subseteq AlertKeys
      BY <1>1, RecordFields
    <3> QED
      BY <1>1, <1>3, <1>4, <3>1 DEF Keeping
  <2>3. \A j \in AlertKeys : monitor'[m].mine[j] # "none" => j \in monitor'[m].done
    BY <1>1, <1>3, <1>4 DEF Keeping
  <2> QED
    BY <1>4, <1>5, <2>1, <2>2, <2>3 DEF Keeping
<1>9. \A n \in Monitors : Keeping(n)'
  BY <1>1, <1>4, <1>8, OthersKeep DEF MonitoringInvariant
<1>10. ASSUME NEW j \in AlertKeys \ {k} PROVE Alone(j)' /\ Balanced(j)'
  <2>1. \A n \in Monitors : monitor'[n].mine[j] = monitor[n].mine[j]
    BY <1>3, <1>4 DEF Others
  <2>2. Alone(j) /\ Balanced(j)
    BY DEF MonitoringInvariant
  <2>3. Alone(j)'
    BY <1>1, <2>1, <2>2 DEF Alone
  <2>4. Writing(j)' <=> Writing(j)
    BY <2>1 DEF Writing
  <2>5. Written(j)' = Written(j)
    BY <1>1, <2>4 DEF Written
  <2>6. Balanced(j)'
    BY <1>1, <1>6, <2>2, <2>5 DEF Balanced
  <2> QED
    BY <2>3, <2>6
<1>11. Alone(k)'
  <2>1. \A n \in Monitors \ {m} : monitor'[n].mine[k] = "none"
    BY <1>1, <1>4 DEF Others
  <2> QED
    BY <1>1, <2>1 DEF Alone
<1>12. Balanced(k)'
  <2>1. Written(k) = 0
    BY <1>1 DEF Written, Writing
  <2>2. deliveries[k] \in Nat /\ lost \in Nat /\ deliveries[k] <= lost
    BY <1>1, <2>1, KeyCounts DEF MonitoringInvariant, Balanced
  <2>3. \A n \in Monitors \ {m} : monitor'[n].mine[k] = "none"
    BY <1>1, <1>4 DEF Others
  <2>4. Writing(k)' <=> status = "DELIVERED"
    BY <1>3, <1>4, <2>3 DEF Writing
  <2>5. Written(k)' = IF status = "DELIVERED" THEN 1 ELSE 0
    BY <1>1, <2>4 DEF Written
  <2>6. CASE status = "DELIVERED"
    BY <1>1, <1>6, <2>2, <2>5, <2>6 DEF Balanced
  <2>7. CASE status = "FAILED"
    BY <1>1, <1>6, <2>2, <2>5, <2>7 DEF Balanced
  <2> QED
    BY <2>6, <2>7
<1>13. \A j \in AlertKeys : (notice[j] # "none" => Truthful(j))'
  BY <1>1 DEF MonitoringInvariant, Truthful
<1> QED
  BY <1>7, <1>9, <1>10, <1>11, <1>12, <1>13 DEF MonitoringInvariant

\* A monitor that is idle again.
LEMMA BackToIdle ==
    ASSUME MonitoringTyped, NEW m \in Monitors, monitor' = [monitor EXCEPT ![m] = IdleMonitor]
    PROVE  /\ Others(m) /\ monitor' \in [Monitors -> MonitorRecords] /\ monitor'[m] = IdleMonitor
           /\ Keeping(m)'
<1>1. Others(m) /\ monitor' \in [Monitors -> MonitorRecords] /\ monitor'[m] = IdleMonitor
  BY IdleRecord DEF MonitoringTyped, Others
<1>2. Keeping(m)'
  BY <1>1, IdleRecord DEF Keeping
<1> QED
  BY <1>1, <1>2

LEMMA CommitKept ==
    ASSUME MonitoringInvariant, NEW m \in Monitors, CommitNotices(m)
    PROVE  MonitoringInvariant'
<1>1. /\ MonitoringTyped /\ UNCHANGED <<history, old, deliveries, lost>> /\ Keeping(m)
      /\ monitor[m].mine \in [AlertKeys -> Deliverings] /\ monitor[m].done \subseteq AlertKeys
      /\ \A k \in AlertKeys : notice'[k] =
            IF monitor[m].mine[k] = "none" THEN notice[k] ELSE monitor[m].mine[k]
      /\ notice' = [k \in AlertKeys |->
            IF monitor[m].mine[k] = "none" THEN notice[k] ELSE monitor[m].mine[k]]
  BY RecordFields DEF MonitoringInvariant, CommitNotices
<1>2. Others(m) /\ monitor' \in [Monitors -> MonitorRecords] /\ monitor'[m] = IdleMonitor /\ Keeping(m)'
  BY <1>1, BackToIdle DEF CommitNotices
<1>3. MonitoringTyped'
  <2>1. notice' \in [AlertKeys -> Deliverings]
    BY <1>1 DEF MonitoringTyped
  <2> QED
    BY <1>1, <1>2, <2>1 DEF MonitoringTyped
<1>4. \A n \in Monitors : Keeping(n)'
  BY <1>1, <1>2, OthersKeep DEF MonitoringInvariant
<1>5. ASSUME NEW k \in AlertKeys PROVE Alone(k)' /\ Balanced(k)' /\ (notice[k] # "none" => Truthful(k))'
  <2>1. Alone(k) /\ Balanced(k) /\ (notice[k] # "none" => Truthful(k))
    BY DEF MonitoringInvariant
  <2>2. monitor'[m].mine[k] = "none" /\ \A n \in Monitors \ {m} : monitor'[n] = monitor[n]
    BY <1>2, IdleRecord DEF Others
  <2>3. Alone(k)'
    BY <1>1, <2>1, <2>2 DEF Alone
  <2>4. (notice[k] # "none" => Truthful(k))'
    BY <1>1, <2>1 DEF Keeping, Truthful
  <2>5. Written(k)' = Written(k)
    <3>1. CASE monitor[m].mine[k] = "none"
      <4>1. Writing(k)' <=> Writing(k)
        BY <2>2, <3>1 DEF Writing
      <4> QED
        BY <1>1, <3>1, <4>1 DEF Written
    <3>2. CASE monitor[m].mine[k] # "none"
      <4>1. notice[k] = "none" /\ notice'[k] = monitor[m].mine[k]
            /\ \A n \in Monitors \ {m} : monitor[n].mine[k] = "none"
        BY <1>1, <2>1, <3>2 DEF Alone
      <4>2. Writing(k) <=> monitor[m].mine[k] = "DELIVERED"
        BY <4>1 DEF Writing
      <4>3. ~Writing(k)'
        BY <2>2, <4>1 DEF Writing
      <4> QED
        BY <4>1, <4>2, <4>3 DEF Written
    <3> QED
      BY <3>1, <3>2
  <2>6. Balanced(k)'
    BY <1>1, <2>1, <2>5 DEF Balanced
  <2> QED
    BY <2>3, <2>4, <2>6
<1> QED
  BY <1>3, <1>4, <1>5 DEF MonitoringInvariant

LEMMA LoseKept ==
    ASSUME MonitoringInvariant, NEW m \in Monitors, LoseMonitor(m)
    PROVE  MonitoringInvariant'
<1>1. /\ MonitoringTyped /\ UNCHANGED <<history, old, notice, deliveries>> /\ lost' = lost + 1
  BY DEF MonitoringInvariant, LoseMonitor
<1>2. Others(m) /\ monitor' \in [Monitors -> MonitorRecords] /\ monitor'[m] = IdleMonitor /\ Keeping(m)'
  BY <1>1, BackToIdle DEF LoseMonitor
<1>3. MonitoringTyped'
  BY <1>1, <1>2 DEF MonitoringTyped
<1>4. \A n \in Monitors : Keeping(n)'
  BY <1>1, <1>2, OthersKeep DEF MonitoringInvariant
<1>5. ASSUME NEW k \in AlertKeys PROVE Alone(k)' /\ Balanced(k)'
  <2>1. Alone(k) /\ Balanced(k)
    BY DEF MonitoringInvariant
  <2>2. monitor'[m].mine[k] = "none" /\ \A n \in Monitors \ {m} : monitor'[n] = monitor[n]
    BY <1>2, IdleRecord DEF Others
  <2>3. Alone(k)'
    BY <1>1, <2>1, <2>2 DEF Alone
  <2>4. Writing(k)' => Writing(k)
    BY <2>2 DEF Writing
  <2>5. /\ Written(k)' \in 0..2 /\ Written(k) \in 0..2
        /\ Written(k)' <= Written(k) /\ Written(k) <= Written(k)' + 1
    BY <1>1, <2>4 DEF Written
  <2>6. deliveries[k] \in Nat /\ lost \in Nat
    BY <1>1, KeyCounts
  <2>7. Written(k)' <= deliveries[k] /\ deliveries[k] <= Written(k)' + (lost + 1)
    BY <2>1, <2>5, <2>6 DEF Balanced
  <2>8. Balanced(k)'
    BY <1>1, <2>7 DEF Balanced
  <2> QED
    BY <2>3, <2>8
<1>6. \A k \in AlertKeys : (notice[k] # "none" => Truthful(k))'
  BY <1>1 DEF MonitoringInvariant, Truthful
<1> QED
  BY <1>3, <1>4, <1>5, <1>6 DEF MonitoringInvariant

----------------------------------------------------------------------------
(* The invariant, and what follows from it. *)

LEMMA InitMonitoring == MonitoringInit => MonitoringInvariant
<1> SUFFICES ASSUME MonitoringInit PROVE MonitoringInvariant
  OBVIOUS
<1>1. /\ history = <<>> /\ old = {} /\ notice = EmptyMine /\ lost = 0
      /\ deliveries = [k \in AlertKeys |-> 0]
      /\ \A m \in Monitors : monitor[m] = IdleMonitor
      /\ monitor = [m \in Monitors |-> IdleMonitor]
  BY DEF MonitoringInit, EmptyMine
<1>2. MonitoringTyped
  <2>1. history \in Seq(RunStatuses) /\ Len(history) <= MaxHistory
    BY <1>1, MonitoringAssumption
  <2> QED
    BY <1>1, <2>1, IdleRecord DEF MonitoringTyped
<1>3. \A m \in Monitors : Keeping(m)
  BY <1>1, IdleRecord DEF Keeping
<1>4. ASSUME NEW k \in AlertKeys PROVE Alone(k) /\ Balanced(k) /\ notice[k] = "none"
  <2>1. notice[k] = "none" /\ \A m \in Monitors : monitor[m].mine[k] = "none"
    BY <1>1, IdleRecord
  <2>2. Written(k) = 0 /\ deliveries[k] = 0
    BY <1>1, <2>1 DEF Written, Writing
  <2>3. Balanced(k)
    BY <1>1, <2>2 DEF Balanced
  <2> QED
    BY <2>1, <2>3 DEF Alone
<1> QED
  BY <1>2, <1>3, <1>4 DEF MonitoringInvariant

\* A step that leaves monitors and notifications as they are, and the runs with
\* what was true of them.
LEMMA HistoryStays ==
    ASSUME MonitoringInvariant, UNCHANGED <<notice, deliveries, monitor, lost>>, MonitoringTyped',
           \A k : Truthful(k) => Truthful(k)',
           \A h \in Seq(RunStatuses) : Snapshot(h) => Snapshot(h)'
    PROVE  MonitoringInvariant'
<1>1. ASSUME NEW m \in Monitors PROVE Keeping(m)'
  <2>1. Keeping(m) /\ monitor' = monitor /\ notice' = notice
    BY DEF MonitoringInvariant
  <2>2. PICK M : M = monitor[m]
    OBVIOUS
  <2>3. M.completed \in Seq(RunStatuses)
    BY <2>2, RecordFields DEF MonitoringInvariant
  <2>4. M.at = "read" => Snapshot(M.completed)'
    BY <2>1, <2>2, <2>3 DEF Keeping
  <2>5. (monitor[m].at = "read" => Snapshot(monitor[m].completed))'
    BY <2>1, <2>2, <2>4 DEF Snapshot
  <2>6. \A k \in M.todo \cup M.done : Truthful(k)'
    BY <2>1, <2>2 DEF Keeping
  <2>7. (\A k \in monitor[m].todo \cup monitor[m].done : Truthful(k))'
    BY <2>1, <2>2, <2>6 DEF Truthful
  <2> QED
    BY <2>1, <2>5, <2>7 DEF Keeping
<1>2. ASSUME NEW k \in AlertKeys PROVE Alone(k)' /\ Balanced(k)' /\ (notice[k] # "none" => Truthful(k))'
  <2>1. Alone(k) /\ Balanced(k) /\ (notice[k] # "none" => Truthful(k))
    BY DEF MonitoringInvariant
  <2>2. Alone(k)' /\ (notice[k] # "none" => Truthful(k))'
    BY <2>1 DEF Alone
  <2>3. Written(k)' = Written(k)
    BY DEF Written, Writing
  <2>4. Balanced(k)'
    BY <2>1, <2>3 DEF Balanced
  <2> QED
    BY <2>2, <2>4
<1> QED
  BY <1>1, <1>2 DEF MonitoringInvariant

LEMMA NextMonitoring ==
    ASSUME MonitoringInvariant, [MonitoringNext]_monitoringVars
    PROVE  MonitoringInvariant'
<1>1. CASE \/ StartRun
           \/ \E r \in DOMAIN history : GrowOld(r) \/ \E status \in RunStatuses : EndRun(r, status)
  <2>1. /\ MonitoringTyped' /\ UNCHANGED <<notice, deliveries, monitor, lost>>
        /\ \A k : Truthful(k) => Truthful(k)'
        /\ \A h \in Seq(RunStatuses) : Snapshot(h) => Snapshot(h)'
    BY <1>1, RunsMove DEF MonitoringInvariant
  <2> QED
    BY <2>1, HistoryStays
<1>2. CASE \E m \in Monitors :
              \/ ReadRuns(m) \/ Evaluate(m) \/ CommitNotices(m) \/ LoseMonitor(m)
              \/ \E k \in AlertKeys : Skip(m, k) \/ Notify(m, k)
  BY <1>2, ReadKept, EvaluateKept, CommitKept, LoseKept, SkipKept, NotifyKept
<1>3. CASE UNCHANGED monitoringVars
  <2>1. /\ UNCHANGED <<notice, deliveries, monitor, lost>> /\ history' = history /\ old' = old
    BY <1>3 DEF monitoringVars
  <2>2. MonitoringTyped'
    BY <2>1 DEF MonitoringTyped, MonitoringInvariant
  <2>3. /\ \A k : Truthful(k) => Truthful(k)'
        /\ \A h \in Seq(RunStatuses) : Snapshot(h) => Snapshot(h)'
    BY <2>1 DEF Truthful, Snapshot
  <2> QED
    BY <2>1, <2>2, <2>3, HistoryStays
<1> QED
  BY <1>1, <1>2, <1>3 DEF MonitoringNext

\* What every state of the monitors, and of the runs they look at, satisfies:
\* an uncommitted row is the only one of its key, and a key is written to its
\* channel as often as rows of it are there, up to the monitors that were lost
\* (app/services/operational_monitoring.py, OperationalNotificationService).
THEOREM MonitoringsInvariant == MonitoringSpec => []MonitoringInvariant
<1>1. MonitoringInit => MonitoringInvariant
  BY InitMonitoring
<1>2. MonitoringInvariant /\ [MonitoringNext]_monitoringVars => MonitoringInvariant'
  BY NextMonitoring
<1> QED
  BY <1>1, <1>2, PTL DEF MonitoringSpec

LEMMA UncommittedOf ==
    ASSUME NEW k \in AlertKeys, Alone(k)
    PROVE  /\ Cardinality(Uncommitted(k)) = IF Writing(k) THEN 1 ELSE 0
<1>1. CASE Writing(k)
  <2>1. PICK m \in Monitors : monitor[m].mine[k] = "DELIVERED"
    BY <1>1 DEF Writing
  <2>2. Uncommitted(k) = {m}
    BY <2>1 DEF Uncommitted, Alone
  <2> QED
    BY <1>1, <2>2, FS_Singleton
<1>2. CASE ~Writing(k)
  <2>1. Uncommitted(k) = {}
    BY <1>2 DEF Uncommitted, Writing
  <2> QED
    BY <1>2, <2>1, FS_EmptySet
<1> QED
  BY <1>1, <1>2

LEMMA SoundNotices == MonitoringInvariant => NoticesSound
<1> SUFFICES ASSUME MonitoringInvariant PROVE NoticesSound
  OBVIOUS
<1>1. ASSUME NEW k \in AlertKeys
      PROVE  /\ deliveries[k] <= Cardinality(Uncommitted(k)) + lost
                                 + (IF notice[k] = "DELIVERED" THEN 1 ELSE 0)
             /\ deliveries[k] >= Cardinality(Uncommitted(k))
                                 + (IF notice[k] = "DELIVERED" THEN 1 ELSE 0)
             /\ Cardinality(Uncommitted(k)) <= 1
             /\ notice[k] # "none" =>
                   /\ k[2] \in DOMAIN history
                   /\ k[1] = "PIPELINE_FAILED" => history[k[2]] = "FAILED"
                   /\ k[1] = "SUCCESS_OVERDUE" => history[k[2]] = "SUCCESS" /\ k[2] \in old
  <2>1. Alone(k) /\ Balanced(k) /\ (notice[k] # "none" => Truthful(k))
    BY DEF MonitoringInvariant
  <2>2. PICK c \in 0..1 : c = Cardinality(Uncommitted(k)) /\ c = IF Writing(k) THEN 1 ELSE 0
    BY <2>1, UncommittedOf
  <2>3. PICK n \in 0..1 : n = IF notice[k] = "DELIVERED" THEN 1 ELSE 0
    OBVIOUS
  <2>4. PICK d \in Nat, l \in Nat : d = deliveries[k] /\ l = lost
    BY KeyCounts DEF MonitoringInvariant
  <2>5. c + n <= d /\ d <= c + n + l
    BY <2>1, <2>2, <2>3, <2>4 DEF Balanced, Written
  <2>6. d <= c + l + n /\ d >= c + n /\ c <= 1
    BY <2>5
  <2> QED
    BY <2>1, <2>2, <2>3, <2>4, <2>6, Zenon DEF Truthful
<1>2. /\ Health(history) = "HEALTHY" => Alerts(history) = {}
      /\ Health(history) \in {"FAILED", "STALE"} => Alerts(history) # {}
  BY HealthAlerted DEF MonitoringInvariant, MonitoringTyped
<1> QED
  BY <1>1, <1>2, Zenon DEF NoticesSound

\* A notification reaches its channel once, and once more for every monitor that
\* was lost before it committed; it is about a run that is or was what it says,
\* and no healthy source has an alert (operational_monitoring.py, notify and
\* evaluate).
THEOREM NoticesAreSound == MonitoringSpec => []NoticesSound
BY MonitoringsInvariant, SoundNotices, PTL

LEMMA KeptStep ==
    ASSUME MonitoringInvariant, [MonitoringNext]_monitoringVars
    PROVE  /\ \A k \in AlertKeys : notice[k] # "none" => notice'[k] = notice[k]
           /\ \A m \in Monitors : monitor[m].at = "notify" /\ lost' = lost
                 => \A k \in monitor[m].todo \cup monitor[m].done :
                       monitor'[m].at = "idle" => notice'[k] # "none"
<1> DEFINE Kept == /\ \A k \in AlertKeys : notice[k] # "none" => notice'[k] = notice[k]
                   /\ \A m \in Monitors : monitor[m].at = "notify" /\ lost' = lost
                         => \A k \in monitor[m].todo \cup monitor[m].done :
                               monitor'[m].at = "idle" => notice'[k] # "none"
<1>1. MonitoringTyped
  BY DEF MonitoringInvariant
<1>2. ASSUME notice' = notice, NEW m \in Monitors, Others(m),
             monitor'[m].at # "idle" \/ monitor[m].at # "notify" \/ lost' # lost
      PROVE  Kept
  <2>1. \A n \in Monitors \ {m} : monitor'[n].at = monitor[n].at
    BY <1>2 DEF Others
  <2> QED
    BY <1>2, <2>1
<1>3. ASSUME notice' = notice, monitor' = monitor PROVE Kept
  BY <1>3
<1>4. ASSUME NEW m \in Monitors, CommitNotices(m) PROVE Kept
  <2>1. /\ monitor[m].todo = {} /\ Keeping(m) /\ monitor[m].done \subseteq AlertKeys
        /\ \A k \in AlertKeys : notice'[k] =
              IF monitor[m].mine[k] = "none" THEN notice[k] ELSE monitor[m].mine[k]
        /\ monitor' = [monitor EXCEPT ![m] = IdleMonitor]
    BY <1>1, <1>4, RecordFields DEF CommitNotices, MonitoringInvariant
  <2>2. \A n \in Monitors \ {m} : monitor'[n] = monitor[n]
    BY <1>1, <2>1, BackToIdle DEF Others
  <2>3. \A k \in AlertKeys : notice[k] # "none" => notice'[k] = notice[k]
    BY <2>1 DEF MonitoringInvariant, Alone
  <2>4. \A k \in monitor[m].todo \cup monitor[m].done : notice'[k] # "none"
    BY <2>1 DEF Keeping
  <2> QED
    BY <2>2, <2>3, <2>4
<1>5. ASSUME NEW m \in Monitors, LoseMonitor(m) PROVE Kept
  <2>1. Others(m) /\ notice' = notice /\ lost' = lost + 1 /\ lost \in Nat
    BY <1>1, <1>5, BackToIdle DEF LoseMonitor, MonitoringTyped
  <2> QED
    BY <1>2, <2>1
<1>6. ASSUME NEW m \in Monitors, ReadRuns(m) \/ Evaluate(m) PROVE Kept
  <2>1. notice' = notice /\ monitor[m].at # "notify" /\ Others(m)
    BY <1>1, <1>6 DEF ReadRuns, Evaluate, MonitoringTyped, Others
  <2> QED
    BY <1>2, <2>1
<1>7. ASSUME NEW m \in Monitors, NEW k \in AlertKeys, Skip(m, k) \/ Notify(m, k) PROVE Kept
  <2>1. notice' = notice /\ monitor[m].at = "notify"
    BY <1>7, RecordFields, <1>1 DEF Skip, Notify, At, Keeping, MonitoringInvariant
  <2>2. Others(m) /\ monitor'[m].at = monitor[m].at
    <3>1. m \in Monitors /\ See(m, k) = [n \in Monitors |-> See(m, k)[n]]
      BY <1>1, SeeOf
    <3>5. See(m, k)[m].at = monitor[m].at
      <4>1. PICK a : a = See(m, k)[m]
        OBVIOUS
      <4>2. a = [at |-> monitor[m].at, completed |-> monitor[m].completed,
                 todo |-> monitor[m].todo \ {k}, done |-> monitor[m].done \cup {k},
                 mine |-> monitor[m].mine]
        BY <1>1, <4>1, SeeOf
      <4>3. a.at = monitor[m].at
        BY <4>2
      <4> QED
        BY <4>1, <4>3
    <3>2. \A n \in Monitors \ {m} : See(m, k)[n] = monitor[n]
      BY <1>1, SeeOf
    <3>3. CASE monitor' = See(m, k)
      BY <3>1, <3>2, <3>3, <3>5 DEF Others
    <3>4. CASE \E status \in Deliveries : monitor' = [See(m, k) EXCEPT ![m].mine[k] = status]
      <4>1. PICK status \in Deliveries : monitor' = [See(m, k) EXCEPT ![m].mine[k] = status]
        BY <3>4
      <4>2. monitor'[m] = [See(m, k)[m] EXCEPT !.mine = [@ EXCEPT ![k] = status]]
        BY <3>1, <4>1
      <4>3. monitor'[m].at = See(m, k)[m].at
        BY <4>2, <1>1, SeeOf
      <4> QED
        BY <3>1, <3>2, <3>5, <4>1, <4>3 DEF Others
    <3> QED
      BY <1>7, <3>3, <3>4 DEF Skip, Notify
  <2> QED
    BY <1>2, <2>1, <2>2
<1> HIDE DEF Kept
<1>8. ASSUME \/ StartRun
             \/ \E r \in DOMAIN history :
                   GrowOld(r) \/ \E status \in RunStatuses : EndRun(r, status)
      PROVE  Kept
  BY <1>1, <1>3, <1>8, RunsMove
<1>9. Kept
  <2>1. CASE \E m \in Monitors :
                \/ ReadRuns(m) \/ Evaluate(m) \/ CommitNotices(m) \/ LoseMonitor(m)
                \/ \E k \in AlertKeys : Skip(m, k) \/ Notify(m, k)
    BY <1>4, <1>5, <1>6, <1>7, <2>1
  <2>2. CASE UNCHANGED monitoringVars
    BY <1>3, <2>2 DEF monitoringVars
  <2> QED
    BY <1>8, <2>1, <2>2 DEF MonitoringNext
<1> QED
  BY <1>9 DEF Kept

\* A notification is recorded once, and a monitor that commits leaves no alert
\* that it has evaluated without one (operational_monitoring.py, notify; the
\* key of a notification is unique).
THEOREM NoticesStay == MonitoringSpec => NoticesKept
<1>1. MonitoringInvariant /\ [MonitoringNext]_monitoringVars =>
         [/\ \A k \in AlertKeys : notice[k] # "none" => notice'[k] = notice[k]
          /\ \A m \in Monitors : monitor[m].at = "notify" /\ lost' = lost
                => \A k \in monitor[m].todo \cup monitor[m].done :
                      monitor'[m].at = "idle" => notice'[k] # "none"
         ]_monitoringVars
  BY KeptStep
<1> QED
  BY <1>1, MonitoringsInvariant, PTL DEF MonitoringSpec, NoticesKept

----------------------------------------------------------------------------
(* The parts side by side.                                                 *)

\* In whatever part moves, its own specification holds, and the others rest.
LEMMA PartsMove == RecordsSpec => DiscoverySpec /\ MonitoringSpec /\ MaintenanceSpec
<1>1. RecordsInit => DiscoveryInit /\ MonitoringInit /\ MaintenanceInit
  BY DEF RecordsInit
<1>2. ASSUME [RecordsNext]_<<part, discoveryVars, monitoringVars, maintenanceVars>>
      PROVE  /\ [DiscoveryNext]_discoveryVars
             /\ [MonitoringNext]_monitoringVars
             /\ [MaintenanceNext]_maintenanceVars
  <2>1. CASE UNCHANGED <<part, discoveryVars, monitoringVars, maintenanceVars>>
    BY <2>1
  <2>2. CASE RecordsNext
    BY <2>2 DEF RecordsNext
  <2> QED
    BY <1>2, <2>1, <2>2
<1> QED
  BY <1>1, <1>2, PTL DEF RecordsSpec, DiscoverySpec, MonitoringSpec, MaintenanceSpec

\* What was recorded of a document, and what an operator was told, stays,
\* whoever runs at the same time (app/services/discovery.py, candidates.py,
\* operational_monitoring.py).
THEOREM RecordsStay == RecordsSpec => RecordsKept
BY PartsMove, SourceHistoryIsKept, NoticesStay, PTL DEF RecordsKept
=============================================================================
