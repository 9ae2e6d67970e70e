--------------------------- MODULE DiscoveryProofs ---------------------------
(***************************************************************************)
(* Proofs about Discovery, for any runs, documents and sessions.           *)
(***************************************************************************)
EXTENDS Discovery, FiniteSetTheorems, WellFoundedInduction, TLAPS

----------------------------------------------------------------------------
(* The inductive invariant. *)

Statuses == Ended \cup {"none", "RUNNING"}
Calls == {"none", "observe", "complete", "candidate", "revision", "status", "discover"}
Sightings == [Documents -> Classes \cup {"none"}]
Transactions ==
    [call : Calls, run : SourceRuns \cup {"none"}, row : RunRecord(Statuses),
     todo : SUBSET Documents, notices : SUBSET Documents, found : SUBSET Documents,
     saw : Sightings, candidates : SUBSET Urls, revisions : SUBSET Revision,
     subject : SUBSET Urls, target : Ended \cup CandidateStatuses \cup {"none"}]

RowsTyped ==
    /\ enabled \in BOOLEAN
    /\ runs \in [SourceRuns -> RunRecord(Statuses)]
    /\ document \in [Documents -> [first : SourceRuns \cup {"none"}, latest : SourceRuns \cup {"none"}]]
    /\ observation \in [SourceRuns -> Sightings]
    /\ candidate \in [Urls -> CandidateStatuses \cup {"none"}]
    /\ revisions \subseteq Revision /\ IsFiniteSet(revisions)

SeenBy(t, class) == {d \in Documents : t.saw[d] = class}
ObservedBy(t) == {d \in Documents : t.saw[d] # "none"}

\* What a transaction has observed, and is still to observe.
SawSound(t) ==
    /\ \A d \in t.found : document[d] # NoDocument /\ t.saw[d] = "UNCHANGED"
    /\ \A d \in Documents \ t.found : t.saw[d] \in {"none", "NEW", "CHANGED"}
    /\ \A d \in Documents : t.saw[d] = "CHANGED" =>
          \E c \in Contents \ {d[2]} :
              document[<<d[1], c>>] # NoDocument \/ t.saw[<<d[1], c>>] # "none"
    /\ \A d \in t.todo : t.saw[d] = "none"
    /\ t.notices \subseteq t.todo \cup ObservedBy(t)

\* The run it is about: an API run that has begun, whose counters were loaded
\* when it had observed no more than it has now, or a worker's own.
RunSound(t) ==
    /\ t.call \in {"none", "candidate", "revision", "status"} => t.run = "none"
    /\ t.call \in {"observe", "complete"} =>
          t.run \in ApiRuns /\ runs[t.run].status # "none"
    /\ t.call = "observe" => \E d \in Documents, c \in Classes :
          /\ t.saw = [Nothing EXCEPT ![d] = c]
          /\ t.row.discovered \in 1..(Cardinality(Observed(t.run)) + 1)
          /\ t.row.count[c] \in 1..(Cardinality(SeenAs(t.run, c)) + 1)
    /\ t.call = "complete" => t.target \in Ended
    /\ t.call = "discover" =>
          /\ t.run \in CrawlRuns /\ runs[t.run].status = "none"
          /\ t.row.discovered = Cardinality(ObservedBy(t))
          /\ \A c \in Classes : t.row.count[c] = Cardinality(SeenBy(t, c))

\* Its candidates and revisions, and the status of a candidate.
RevisionsSound(t) ==
    /\ IsFiniteSet(t.revisions)
    /\ \A v, w \in t.revisions :
          v.candidate = w.candidate /\ (v.number = w.number \/ SameInput(v, w)) => v = w
    /\ \A v \in t.revisions : v.number > 1 =>
          \E w \in revisions \cup t.revisions :
              w.candidate = v.candidate /\ w.number = v.number - 1
    /\ \A v \in t.revisions :
          /\ document[v.document] # NoDocument \/ t.saw[v.document] # "none"
          /\ v.candidate \in t.candidates \/ candidate[v.candidate] # "none"
    /\ t.revisions # {} => t.call \in {"revision", "discover"}
    /\ t.call = "revision" => t.saw = Nothing
    /\ t.subject # {} => t.target \in {"READY_FOR_VERIFICATION", "DISCARDED"}
    /\ t.target = "READY_FOR_VERIFICATION" =>
          \A u \in t.subject : \E v \in revisions : v.candidate = u

TxnSound(s) ==
    /\ txn[s] \in Transactions
    /\ SawSound(txn[s]) /\ RunSound(txn[s]) /\ RevisionsSound(txn[s])

TxnsTyped == txn \in [Writers -> Transactions]

\* A worker's run is its own.
OwnRuns ==
    \A s, z \in Writers : txn[s].run \in CrawlRuns /\ txn[s].run = txn[z].run => s = z

\* A run that does not exist has observed nothing.
NotBegun == \A r \in SourceRuns : runs[r].status = "none" => observation[r] = Nothing

DiscoveryInvariant ==
    /\ RowsTyped /\ NotBegun /\ FirstSightings /\ CountsWithin /\ RevisionsNumbered
    /\ TxnsTyped /\ OwnRuns /\ \A s \in Writers : TxnSound(s)

----------------------------------------------------------------------------
(* The next number. *)

LEMMA LeastOf ==
    ASSUME NEW S \in SUBSET Nat, S # {}
    PROVE  \E n \in S : \A m \in S : n <= m
<1>1. \E n \in S : \A m \in S : ~(<<m, n>> \in OpToRel(<, Nat))
  BY NatLessThanWellFounded, WFMin
<1>2. PICK n \in S : \A m \in S : ~(<<m, n>> \in OpToRel(<, Nat))
  BY <1>1
<1>3. ASSUME NEW m \in S PROVE n <= m
  <2>1. m \in Nat /\ n \in Nat
    OBVIOUS
  <2>2. m < n => <<m, n>> \in OpToRel(<, Nat)
    BY <2>1 DEF OpToRel
  <2>3. ~(m < n)
    BY <1>2, <2>2, Zenon
  <2> QED
    BY <2>1, <2>3
<1> QED
  BY <1>3

\* Numbers without gaps are no more than there are revisions.
LEMMA NumbersBounded ==
    ASSUME NEW S \in SUBSET Revision, IsFiniteSet(S),
           \A v \in S : v.number > 1 => \E w \in S : w.number = v.number - 1,
           NEW x \in S
    PROVE  x.number <= Cardinality(S)
<1> DEFINE m == x.number
<1>1. m \in Nat \ {0}
  BY DEF Revision
<1>2. \A v \in S : v.number \in Nat
  BY DEF Revision
<1> HIDE DEF m
<1>3. ASSUME NEW j \in 1..m PROVE \E v \in S : v.number = j
  <2> DEFINE T == {i \in Nat : i >= j /\ \E v \in S : v.number = i}
  <2>1. m \in T /\ T \in SUBSET Nat
    BY <1>1, <1>3 DEF m
  <2>2. PICK i \in T : \A k \in T : i <= k
    BY <2>1, LeastOf
  <2>3. PICK v \in S : v.number = i
    OBVIOUS
  <2>4. i \in Nat /\ i >= j /\ j \in Nat /\ j >= 1
    BY <1>1, <1>3
  <2>5. CASE i = j
    BY <2>3, <2>5
  <2>6. CASE i # j
    <3>1. i > 1 /\ i - 1 \in Nat /\ i - 1 >= j
      BY <2>4, <2>6
    <3>2. PICK w \in S : w.number = i - 1
      BY <2>3, <3>1
    <3>3. i - 1 \in T
      BY <3>1, <3>2
    <3> HIDE DEF T
    <3> QED
      BY <2>2, <2>4, <3>3
  <2> QED
    BY <2>5, <2>6
<1> DEFINE f == [j \in 1..m |-> CHOOSE v \in S : v.number = j]
<1>4. \A j \in 1..m : f[j] \in S /\ f[j].number = j
  BY <1>3
<1> HIDE DEF f
<1>5. f \in [1..m -> S]
  BY <1>4 DEF f
<1>6. f \in Injection(1..m, S)
  BY <1>4, <1>5 DEF Injection, IsInjective
<1>7. Cardinality(1..m) <= Cardinality(S)
  BY <1>6, FS_Injection
<1>8. Cardinality(1..m) = m
  BY <1>1, FS_Interval
<1> QED
  BY <1>7, <1>8 DEF m

LEMMA NextNumberIsNext ==
    ASSUME NEW t \in Transactions, NEW u \in Urls,
           RevisionsOf(t, u) \subseteq Revision, IsFiniteSet(RevisionsOf(t, u)),
           \A v \in RevisionsOf(t, u) : v.number > 1 =>
               \E w \in RevisionsOf(t, u) : w.number = v.number - 1
    PROVE  /\ NextNumber(t, u) \in Nat \ {0}
           /\ \A v \in RevisionsOf(t, u) : v.number < NextNumber(t, u)
           /\ NextNumber(t, u) > 1 =>
                 \E v \in RevisionsOf(t, u) : v.number = NextNumber(t, u) - 1
<1> DEFINE S == RevisionsOf(t, u)
           k == Cardinality(S)
           B == {n \in Nat : n > 0 /\ \A v \in S : v.number < n}
<1>1. k \in Nat
  BY FS_CardinalityType
<1>2. \A v \in S : v.number \in Nat /\ v.number > 0 /\ v.number <= k
  BY NumbersBounded DEF Revision
<1> HIDE DEF S, k
<1>3. k + 1 \in B /\ B \in SUBSET Nat
  BY <1>1, <1>2
<1>4. PICK n \in B : \A x \in B : n <= x
  BY <1>3, LeastOf
<1>5. n \in 1..(k + 1) /\ \A v \in S : v.number < n
  BY <1>1, <1>3, <1>4
<1>6. n = 1 \/ \E v \in S : v.number + 1 = n
  <2>1. CASE n > 1
    <3>1. n - 1 \in Nat /\ n - 1 > 0 /\ n - 1 \notin B
      BY <1>4, <2>1
    <3>2. PICK v \in S : ~(v.number < n - 1)
      BY <3>1
    <3>3. v.number + 1 = n
      BY <1>2, <1>5, <3>1, <3>2
    <3> QED
      BY <3>3
  <2> QED
    BY <1>5, <2>1
<1> DEFINE Next1(x) == /\ \A v \in S : v.number < x
                       /\ x = 1 \/ \E v \in S : v.number + 1 = x
<1>7. NextNumber(t, u) = CHOOSE x \in 1..(k + 1) : Next1(x)
  BY DEF NextNumber, S, k
<1>8. \E x \in 1..(k + 1) : Next1(x)
  BY <1>5, <1>6
<1> HIDE DEF Next1
<1>9. NextNumber(t, u) \in 1..(k + 1) /\ Next1(NextNumber(t, u))
  BY <1>7, <1>8
<1>10. NextNumber(t, u) \in Nat \ {0}
  BY <1>1, <1>9
<1> DEFINE x == NextNumber(t, u)
<1> HIDE DEF x
<1>11. x \in Nat \ {0} /\ Next1(x)
  BY <1>9, <1>10 DEF x
<1>12. x > 1 => \E v \in S : v.number = x - 1
  BY <1>2, <1>11 DEF Next1
<1> QED
  BY <1>11, <1>12 DEF Next1, S, x

----------------------------------------------------------------------------
(* Steps that write no row. *)

rows == <<enabled, runs, document, observation, candidate, revisions>>

LEMMA SoundRowsKept ==
    ASSUME RowsTyped, NotBegun, FirstSightings, CountsWithin, RevisionsNumbered,
           UNCHANGED <<documents, candidates>>, enabled' \in BOOLEAN
    PROVE  RowsTyped' /\ NotBegun' /\ FirstSightings' /\ CountsWithin' /\ RevisionsNumbered'
<1>1. /\ runs' = runs /\ document' = document /\ observation' = observation
      /\ candidate' = candidate /\ revisions' = revisions
  BY DEF documents, candidates
<1>2. RowsTyped' /\ NotBegun'
  BY <1>1 DEF RowsTyped, NotBegun
<1>3. FirstSightings'
  BY <1>1 DEF FirstSightings
<1>4. CountsWithin'
  <2>1. \A r \in SourceRuns : /\ runs'[r] = runs[r] /\ Observed(r)' = Observed(r)
                              /\ \A c \in Classes : SeenAs(r, c)' = SeenAs(r, c)
    BY <1>1 DEF Observed, SeenAs
  <2>2. \A r \in CrawlRuns : r \in SourceRuns
    BY DEF SourceRuns
  <2> QED
    BY <2>1, <2>2 DEF CountsWithin
<1>5. RevisionsNumbered'
  BY <1>1 DEF RevisionsNumbered
<1> QED
  BY <1>2, <1>3, <1>4, <1>5

\* What is sound of a transaction stays so while no row changes.
LEMMA SoundTxn ==
    ASSUME NEW s \in Writers, NEW t \in Transactions, txn'[s] = t,
           SawSound(t), RunSound(t), RevisionsSound(t), UNCHANGED <<documents, candidates>>
    PROVE  TxnSound(s)'
<1>1. /\ runs' = runs /\ document' = document /\ observation' = observation
      /\ candidate' = candidate /\ revisions' = revisions
  BY DEF documents, candidates
<1>2. SawSound(txn[s])'
  BY <1>1 DEF SawSound, ObservedBy
<1>3. RunSound(txn[s])'
  BY <1>1 DEF RunSound, ObservedBy, SeenBy, Observed, SeenAs
<1>4. RevisionsSound(txn[s])'
  BY <1>1 DEF RevisionsSound
<1> QED
  BY <1>2, <1>3, <1>4 DEF TxnSound

\* A session that goes on to the transaction t.
LEMMA TxnStep ==
    ASSUME DiscoveryInvariant, NEW s \in Writers, NEW t \in Transactions,
           txn' = [txn EXCEPT ![s] = t], UNCHANGED <<enabled, documents, candidates>>,
           SawSound(t), RunSound(t), RevisionsSound(t),
           t.run \in CrawlRuns => \A z \in Writers : z # s => txn[z].run # t.run
    PROVE  DiscoveryInvariant'
<1>1. /\ RowsTyped /\ NotBegun /\ FirstSightings /\ CountsWithin /\ RevisionsNumbered
      /\ TxnsTyped /\ OwnRuns /\ \A z \in Writers : TxnSound(z)
  BY DEF DiscoveryInvariant
<1>2. UNCHANGED <<documents, candidates>> /\ enabled' \in BOOLEAN
  BY <1>1 DEF RowsTyped
<1>3. RowsTyped' /\ NotBegun' /\ FirstSightings' /\ CountsWithin' /\ RevisionsNumbered'
  BY <1>1, <1>2, SoundRowsKept
<1>4. \A z \in Writers : txn'[z] = IF z = s THEN t ELSE txn[z]
  BY <1>1 DEF TxnsTyped
<1>5. TxnsTyped'
  BY <1>1 DEF TxnsTyped
<1>6. OwnRuns'
  BY <1>1, <1>4 DEF OwnRuns
<1>7. ASSUME NEW z \in Writers PROVE TxnSound(z)'
  <2>1. CASE z = s
    BY <1>2, <1>4, <2>1, SoundTxn
  <2>2. CASE z # s
    <3>1. txn'[z] = txn[z] /\ TxnSound(z)
      BY <1>1, <1>4, <2>2
    <3>2. PICK x : x = txn[z]
      OBVIOUS
    <3>3. /\ txn'[z] = x /\ x \in Transactions
          /\ SawSound(x) /\ RunSound(x) /\ RevisionsSound(x)
      BY <3>1, <3>2 DEF TxnSound
    <3> QED
      BY <1>2, <3>3, SoundTxn
  <2> QED
    BY <2>1, <2>2
<1> QED
  BY <1>3, <1>5, <1>6, <1>7 DEF DiscoveryInvariant

LEMMA ClassNames == "none" \notin Classes /\ \A d \in Documents : Nothing[d] = "none"
BY DEF Classes, Nothing

LEMMA DocumentPairs ==
    ASSUME NEW d \in Documents
    PROVE  d = <<d[1], d[2]>> /\ d[1] \in Urls /\ d[2] \in Contents
BY DEF Documents

\* The transaction that a call begins with.
LEMMA TransactionTyped ==
    ASSUME NEW call \in Calls, NEW r \in SourceRuns \cup {"none"}, NEW row \in RunRecord(Statuses)
    PROVE  Transaction(call, r, row) \in Transactions
BY DEF Transaction, Transactions, Sightings, Nothing

LEMMA RowTyped == \A status \in Statuses : Row(status) \in RunRecord(Statuses)
BY DEF Row, RunRecord

LEMMA NoTxnSound ==
    NoTxn \in Transactions /\ SawSound(NoTxn) /\ RunSound(NoTxn) /\ RevisionsSound(NoTxn)
<1>1. NoTxn \in Transactions
  BY TransactionTyped, RowTyped DEF NoTxn, Calls, Statuses
<1>2. SawSound(NoTxn)
  BY ClassNames DEF NoTxn, Transaction, SawSound
<1>3. RunSound(NoTxn)
  BY DEF NoTxn, Transaction, RunSound
<1>4. RevisionsSound(NoTxn)
  BY FS_EmptySet DEF NoTxn, Transaction, RevisionsSound
<1> QED
  BY <1>1, <1>2, <1>3, <1>4

LEMMA RunsApart == \A r \in ApiRuns \cup CrawlRuns :
    r \in SourceRuns /\ r # "none" /\ ~(r \in ApiRuns /\ r \in CrawlRuns)
BY DiscoveryAssumption DEF SourceRuns

LEMMA RollbackKeeps ==
    ASSUME DiscoveryInvariant, NEW s \in Writers, Rollback(s)
    PROVE  DiscoveryInvariant'
<1>1. NoTxn.run \notin CrawlRuns
  BY RunsApart DEF NoTxn, Transaction
<1> QED
  BY <1>1, NoTxnSound, TxnStep DEF Rollback

----------------------------------------------------------------------------
(* The beginnings. *)

LEMMA BeginStep ==
    ASSUME DiscoveryInvariant, NEW s \in Writers, NEW t \in Transactions, BeginCall(s, t),
           SawSound(t), RunSound(t), RevisionsSound(t), t.run \notin CrawlRuns
    PROVE  DiscoveryInvariant'
BY TxnStep DEF BeginCall

LEMMA BeginCompleteKeeps ==
    ASSUME DiscoveryInvariant, NEW s \in Clients, NEW r \in ApiRuns, NEW status \in Ended,
           BeginCompletion(s, r, status)
    PROVE  DiscoveryInvariant'
<1> DEFINE t0 == Transaction("complete", r, runs[r])
           t == [t0 EXCEPT !.target = status]
<1>1. r \in SourceRuns /\ r \notin CrawlRuns /\ s \in Writers
  BY RunsApart DEF Writers
<1>2. runs[r] \in RunRecord(Statuses)
  BY <1>1 DEF DiscoveryInvariant, RowsTyped
<1>3. t0 \in Transactions
  BY <1>1, <1>2, TransactionTyped DEF Calls
<1>4. t \in Transactions
  BY <1>3 DEF Transactions
<1>5. /\ t.call = "complete" /\ t.run = r /\ t.target = status /\ t.todo = {}
      /\ t.notices = {} /\ t.found = {} /\ t.saw = Nothing /\ t.candidates = {}
      /\ t.revisions = {} /\ t.subject = {}
  BY DEF Transaction
<1>6. BeginCall(s, t) /\ runs[r].status = "RUNNING"
  BY DEF BeginCompletion
<1> HIDE DEF t
<1>7. SawSound(t)
  BY <1>5, ClassNames DEF SawSound
<1>8. RunSound(t)
  BY <1>5, <1>6 DEF RunSound
<1>9. RevisionsSound(t)
  BY <1>5, FS_EmptySet DEF RevisionsSound, Ended
<1> QED
  BY <1>1, <1>4, <1>5, <1>6, <1>7, <1>8, <1>9, BeginStep

LEMMA BeginCandidateKeeps ==
    ASSUME DiscoveryInvariant, NEW s \in Clients, NEW u \in Urls, BeginCandidate(s, u)
    PROVE  DiscoveryInvariant'
<1> DEFINE t0 == Transaction("candidate", "none", Row("none"))
           t == [t0 EXCEPT !.candidates = {u}]
<1>1. s \in Writers /\ "none" \notin CrawlRuns
  BY RunsApart DEF Writers
<1>2. t0 \in Transactions
  BY TransactionTyped, RowTyped DEF Calls, Statuses
<1>3. t \in Transactions
  BY <1>2 DEF Transactions
<1>4. /\ t.call = "candidate" /\ t.run = "none" /\ t.target = "none" /\ t.todo = {}
      /\ t.notices = {} /\ t.found = {} /\ t.saw = Nothing
      /\ t.revisions = {} /\ t.subject = {}
  BY DEF Transaction
<1>5. BeginCall(s, t)
  BY DEF BeginCandidate
<1> HIDE DEF t
<1>6. SawSound(t)
  BY <1>4, ClassNames DEF SawSound
<1>7. RunSound(t)
  BY <1>4 DEF RunSound
<1>8. RevisionsSound(t)
  BY <1>4, FS_EmptySet DEF RevisionsSound
<1> QED
  BY <1>1, <1>3, <1>4, <1>5, <1>6, <1>7, <1>8, BeginStep

LEMMA BeginStatusKeeps ==
    ASSUME DiscoveryInvariant, NEW s \in Clients, NEW u \in Urls,
           NEW status \in CandidateStatuses, BeginStatus(s, u, status)
    PROVE  DiscoveryInvariant'
<1> DEFINE t0 == Transaction("status", "none", Row("none"))
           t == [t0 EXCEPT !.subject = {u}, !.target = status]
<1>1. s \in Writers /\ "none" \notin CrawlRuns
  BY RunsApart DEF Writers
<1>2. t0 \in Transactions
  BY TransactionTyped, RowTyped DEF Calls, Statuses
<1>3. t \in Transactions
  BY <1>2 DEF Transactions
<1>4. /\ t.call = "status" /\ t.run = "none" /\ t.target = status /\ t.todo = {}
      /\ t.notices = {} /\ t.found = {} /\ t.saw = Nothing
      /\ t.candidates = {} /\ t.revisions = {} /\ t.subject = {u}
  BY DEF Transaction
<1>5. BeginCall(s, t) /\ status # "DRAFT" /\ MayBecome(u, status)
  BY DEF BeginStatus
<1> HIDE DEF t
<1>6. SawSound(t)
  BY <1>4, ClassNames DEF SawSound
<1>7. RunSound(t)
  BY <1>4 DEF RunSound
<1>8. status = "READY_FOR_VERIFICATION" => \E v \in revisions : v.candidate = u
  BY <1>5 DEF MayBecome
<1>9. RevisionsSound(t)
  BY <1>4, <1>5, <1>8, FS_EmptySet DEF RevisionsSound, CandidateStatuses
<1> QED
  BY <1>1, <1>3, <1>4, <1>5, <1>6, <1>7, <1>9, BeginStep

----------------------------------------------------------------------------
(* Observing a document. *)

LEMMA ObserveSound ==
    ASSUME RowsTyped, NEW t \in Transactions, SawSound(t), NEW d \in Documents, t.saw[d] = "none"
    PROVE  LET x == Observe(t, d) IN
           /\ x \in Transactions /\ SawSound(x)
           /\ Classify(t, d) \in Classes
           /\ x.saw = [t.saw EXCEPT ![d] = Classify(t, d)]
           /\ x.row.discovered = t.row.discovered + 1
           /\ \A c \in Classes :
                 x.row.count[c] = t.row.count[c] + (IF c = Classify(t, d) THEN 1 ELSE 0)
           /\ x.call = t.call /\ x.run = t.run /\ x.candidates = t.candidates
           /\ x.revisions = t.revisions /\ x.subject = t.subject /\ x.target = t.target
<1> DEFINE class == Classify(t, d)
           x == Observe(t, d)
<1>1. class \in Classes
  BY DEF Classify, Classes
<1>2. /\ t.saw \in Sightings /\ t.row \in RunRecord(Statuses) /\ t.found \subseteq Documents
      /\ t.todo \subseteq Documents /\ t.notices \subseteq Documents
  BY DEF Transactions
<1>3. /\ t.row.discovered \in Nat /\ t.row.count \in [Classes -> Nat]
      /\ t.row.status \in Statuses
  BY <1>2 DEF RunRecord
<1> HIDE DEF class
<1>4. CountedUp(t.row, class) \in RunRecord(Statuses)
  <2>1. t.row.count[class] + 1 \in Nat /\ t.row.discovered + 1 \in Nat
    BY <1>1, <1>3
  <2>2. [t.row.count EXCEPT ![class] = @ + 1] \in [Classes -> Nat]
    BY <1>3, <2>1
  <2> QED
    BY <1>2, <1>3, <2>1, <2>2 DEF CountedUp, RunRecord
<1>5. /\ CountedUp(t.row, class).discovered = t.row.discovered + 1
      /\ \A c \in Classes : CountedUp(t.row, class).count[c]
                            = t.row.count[c] + (IF c = class THEN 1 ELSE 0)
  BY <1>1, <1>2, <1>3 DEF CountedUp, RunRecord
<1>6. /\ x.todo = t.todo \ {d} /\ x.notices = t.notices
      /\ x.found = (IF document[d] # NoDocument THEN t.found \cup {d} ELSE t.found)
      /\ x.saw = [t.saw EXCEPT ![d] = class] /\ x.row = CountedUp(t.row, class)
      /\ x.call = t.call /\ x.run = t.run /\ x.candidates = t.candidates
      /\ x.revisions = t.revisions /\ x.subject = t.subject /\ x.target = t.target
  BY DEF Observe, Transactions, class
<1>7. [t.saw EXCEPT ![d] = class] \in Sightings
  BY <1>1, <1>2 DEF Sightings
<1>8. x \in Transactions
  <2>1. x = [t EXCEPT !.todo = t.todo \ {d},
                      !.found = IF document[d] # NoDocument THEN t.found \cup {d} ELSE t.found,
                      !.saw = [t.saw EXCEPT ![d] = class], !.row = CountedUp(t.row, class)]
    BY DEF Observe, Transactions, class
  <2>2. (IF document[d] # NoDocument THEN t.found \cup {d} ELSE t.found) \in SUBSET Documents
    BY <1>2
  <2>3. t.todo \ {d} \in SUBSET Documents
    BY <1>2
  <2> HIDE DEF x
  <2> QED
    BY <1>4, <1>7, <2>1, <2>2, <2>3 DEF Transactions
<1> HIDE DEF x
<1>9. \A e \in Documents : x.saw[e] = IF e = d THEN class ELSE t.saw[e]
  BY <1>2, <1>6 DEF Sightings
<1>10. \A e \in Documents : t.saw[e] # "none" => x.saw[e] = t.saw[e]
  BY <1>9
<1>11. class # "none"
  BY <1>1, ClassNames
<1>12. document[d] # NoDocument <=> class = "UNCHANGED"
  BY DEF class, Classify, Known
<1>13. \A e \in x.found : document[e] # NoDocument /\ x.saw[e] = "UNCHANGED"
  BY <1>2, <1>6, <1>9, <1>10, <1>12 DEF SawSound
<1>14. \A e \in Documents \ x.found : x.saw[e] \in {"none", "NEW", "CHANGED"}
  BY <1>1, <1>6, <1>9, <1>12 DEF SawSound, Classes
<1>15. ASSUME NEW e \in Documents, x.saw[e] = "CHANGED"
       PROVE  \E c \in Contents \ {e[2]} :
                  document[<<e[1], c>>] # NoDocument \/ x.saw[<<e[1], c>>] # "none"
  <2>1. \A c \in Contents : <<e[1], c>> \in Documents
    BY DEF Documents
  <2>2. CASE e = d
    <3>1. class = "CHANGED"
      BY <1>9, <1>15, <2>2
    <3>2. ~Known(t, d) /\ \E c \in Contents : Known(t, <<d[1], c>>)
      BY <3>1 DEF class, Classify
    <3>3. PICK c \in Contents : Known(t, <<d[1], c>>)
      BY <3>2
    <3>4. c # d[2]
      BY <3>2, <3>3, DocumentPairs
    <3> QED
      BY <1>10, <2>1, <2>2, <3>3, <3>4 DEF Known
  <2>3. CASE e # d
    <3>1. t.saw[e] = "CHANGED"
      BY <1>9, <1>15, <2>3
    <3>2. PICK c \in Contents \ {e[2]} :
              document[<<e[1], c>>] # NoDocument \/ t.saw[<<e[1], c>>] # "none"
      BY <3>1 DEF SawSound
    <3> QED
      BY <1>10, <2>1, <3>2
  <2> QED
    BY <2>2, <2>3
<1>16. \A e \in x.todo : x.saw[e] = "none"
  BY <1>2, <1>6, <1>9 DEF SawSound
<1>17. x.notices \subseteq x.todo \cup ObservedBy(x)
  BY <1>2, <1>6, <1>9, <1>11 DEF SawSound, ObservedBy
<1>18. SawSound(x)
  BY <1>13, <1>14, <1>15, <1>16, <1>17 DEF SawSound
<1> QED
  BY <1>1, <1>5, <1>6, <1>8, <1>18 DEF class, x

LEMMA DocumentsFinite ==
    ASSUME NEW S \in SUBSET Documents
    PROVE  IsFiniteSet(S) /\ Cardinality(S) \in Nat
BY DiscoveryAssumption, FS_Subset, FS_CardinalityType DEF Documents

LEMMA BeginObserveKeeps ==
    ASSUME DiscoveryInvariant, NEW s \in Clients, NEW r \in ApiRuns, NEW d \in Documents,
           BeginObserve(s, r, d)
    PROVE  DiscoveryInvariant'
<1> DEFINE t == Transaction("observe", r, runs[r])
           x == Observe(t, d)
<1>1. r \in SourceRuns /\ r \notin CrawlRuns /\ s \in Writers
  BY RunsApart DEF Writers
<1>2. RowsTyped /\ CountsWithin
  BY DEF DiscoveryInvariant
<1>3. runs[r] \in RunRecord(Statuses)
  BY <1>1, <1>2 DEF RowsTyped
<1>4. t \in Transactions
  BY <1>1, <1>3, TransactionTyped DEF Calls
<1>5. /\ t.call = "observe" /\ t.run = r /\ t.target = "none" /\ t.todo = {}
      /\ t.notices = {} /\ t.found = {} /\ t.saw = Nothing /\ t.candidates = {}
      /\ t.revisions = {} /\ t.subject = {} /\ t.row = runs[r]
  BY DEF Transaction
<1>6. BeginCall(s, x) /\ runs[r].status = "RUNNING"
  BY DEF BeginObserve
<1> HIDE DEF t
<1>7. SawSound(t)
  BY <1>5, ClassNames DEF SawSound
<1>8. t.saw[d] = "none"
  BY <1>5, ClassNames
<1>9. /\ x \in Transactions /\ SawSound(x) /\ Classify(t, d) \in Classes
      /\ x.saw = [t.saw EXCEPT ![d] = Classify(t, d)]
      /\ x.row.discovered = t.row.discovered + 1
      /\ x.row.count[Classify(t, d)] = t.row.count[Classify(t, d)] + 1
      /\ x.call = t.call /\ x.run = t.run /\ x.candidates = t.candidates
      /\ x.revisions = t.revisions /\ x.subject = t.subject /\ x.target = t.target
  BY <1>2, <1>4, <1>7, <1>8, ObserveSound
<1> HIDE DEF x
<1>10. /\ runs[r].discovered \in Nat /\ runs[r].discovered <= Cardinality(Observed(r))
       /\ \A c \in Classes : runs[r].count[c] \in Nat /\ runs[r].count[c] <= Cardinality(SeenAs(r, c))
  BY <1>1, <1>2, <1>3 DEF CountsWithin, RunRecord
<1>11. Cardinality(Observed(r)) \in Nat /\ \A c \in Classes : Cardinality(SeenAs(r, c)) \in Nat
  <2>1. Observed(r) \subseteq Documents /\ \A c \in Classes : SeenAs(r, c) \subseteq Documents
    BY DEF Observed, SeenAs
  <2> QED
    BY <2>1, DocumentsFinite
<1> DEFINE class == Classify(t, d)
<1> HIDE DEF class
<1>12. /\ x.row.discovered \in 1..(Cardinality(Observed(r)) + 1)
       /\ x.row.count[class] \in 1..(Cardinality(SeenAs(r, class)) + 1)
  BY <1>5, <1>9, <1>10, <1>11 DEF class
<1>13. RunSound(x)
  <2>1. x.saw = [Nothing EXCEPT ![d] = class] /\ class \in Classes
    BY <1>5, <1>9 DEF class
  <2> QED
    BY <1>5, <1>6, <1>9, <1>12, <2>1 DEF RunSound
<1>14. RevisionsSound(x)
  BY <1>5, <1>9, FS_EmptySet DEF RevisionsSound
<1> QED
  BY <1>1, <1>5, <1>6, <1>9, <1>13, <1>14, BeginStep

\* The transaction of one session, as a value.
LEMMA TxnOf ==
    ASSUME DiscoveryInvariant, NEW s \in Writers
    PROVE  /\ txn[s] \in Transactions
           /\ SawSound(txn[s]) /\ RunSound(txn[s]) /\ RevisionsSound(txn[s])
           /\ txn[s].run \in CrawlRuns => \A z \in Writers : z # s => txn[z].run # txn[s].run
BY DEF DiscoveryInvariant, TxnSound, OwnRuns

LEMMA RecordNextKeeps ==
    ASSUME DiscoveryInvariant, NEW s \in Workers, RecordNext(s)
    PROVE  DiscoveryInvariant'
<1> DEFINE t == txn[s]
<1>1. PICK d \in t.todo : txn' = [txn EXCEPT ![s] = Observe(@, d)]
  BY DEF RecordNext
<1> DEFINE x == Observe(t, d)
<1>2. /\ s \in Writers /\ RowsTyped /\ t.call = "discover"
      /\ UNCHANGED <<enabled, documents, candidates>> /\ TxnsTyped
  BY DEF DiscoveryInvariant, RecordNext, Writers
<1>3. /\ t \in Transactions /\ SawSound(t) /\ RunSound(t) /\ RevisionsSound(t)
      /\ t.run \in CrawlRuns => \A z \in Writers : z # s => txn[z].run # t.run
  BY <1>2, TxnOf
<1>4. txn' = [txn EXCEPT ![s] = x]
  BY <1>1, <1>2 DEF TxnsTyped
<1> HIDE DEF t
<1>5. d \in Documents /\ t.saw[d] = "none"
  BY <1>3 DEF SawSound, Transactions
<1>6. /\ x \in Transactions /\ SawSound(x) /\ Classify(t, d) \in Classes
      /\ x.saw = [t.saw EXCEPT ![d] = Classify(t, d)]
      /\ x.row.discovered = t.row.discovered + 1
      /\ \A c \in Classes :
            x.row.count[c] = t.row.count[c] + (IF c = Classify(t, d) THEN 1 ELSE 0)
      /\ x.call = t.call /\ x.run = t.run /\ x.candidates = t.candidates
      /\ x.revisions = t.revisions /\ x.subject = t.subject /\ x.target = t.target
  BY <1>2, <1>3, <1>5, ObserveSound
<1> HIDE DEF x
<1> DEFINE class == Classify(t, d)
<1> HIDE DEF class
<1>7. \A e \in Documents : x.saw[e] = IF e = d THEN class ELSE t.saw[e]
  BY <1>3, <1>6 DEF Transactions, Sightings, class
<1>8. class \in Classes /\ class # "none"
  BY <1>6, ClassNames DEF class
<1>9. ObservedBy(x) = ObservedBy(t) \cup {d} /\ d \notin ObservedBy(t)
  BY <1>5, <1>7, <1>8 DEF ObservedBy
<1>10. SeenBy(x, class) = SeenBy(t, class) \cup {d} /\ d \notin SeenBy(t, class)
  BY <1>5, <1>7, <1>8 DEF SeenBy
<1>11. \A c \in Classes : c # class => SeenBy(x, c) = SeenBy(t, c)
  BY <1>5, <1>7, <1>8, ClassNames DEF SeenBy
<1>12. IsFiniteSet(ObservedBy(t)) /\ \A c \in Classes : IsFiniteSet(SeenBy(t, c))
  <2>1. ObservedBy(t) \subseteq Documents /\ \A c \in Classes : SeenBy(t, c) \subseteq Documents
    BY DEF ObservedBy, SeenBy
  <2> QED
    BY <2>1, DocumentsFinite
<1>13. /\ Cardinality(ObservedBy(x)) = Cardinality(ObservedBy(t)) + 1
       /\ Cardinality(SeenBy(x, class)) = Cardinality(SeenBy(t, class)) + 1
  BY <1>8, <1>9, <1>10, <1>12, FS_AddElement
<1>14. /\ t.run \in CrawlRuns /\ runs[t.run].status = "none"
       /\ t.row.discovered = Cardinality(ObservedBy(t))
       /\ \A c \in Classes : t.row.count[c] = Cardinality(SeenBy(t, c))
  BY <1>2, <1>3 DEF RunSound
<1>15. \A c \in Classes : x.row.count[c] = Cardinality(SeenBy(x, c))
  <2>1. \A c \in Classes : Cardinality(SeenBy(t, c)) \in Nat
    BY <1>12, FS_CardinalityType
  <2> QED
    BY <1>6, <1>11, <1>13, <1>14, <2>1 DEF class
<1>16. RunSound(x)
  BY <1>2, <1>6, <1>13, <1>14, <1>15 DEF RunSound
<1>17. RevisionsSound(x)
  <2>1. \A v \in t.revisions : v.document \in Documents
    BY <1>3 DEF Transactions, Revision
  <2>2. \A e \in Documents : t.saw[e] # "none" => x.saw[e] # "none"
    BY <1>7, <1>8
  <2> QED
    BY <1>2, <1>3, <1>6, <2>1, <2>2 DEF RevisionsSound
<1> QED
  BY <1>2, <1>3, <1>4, <1>6, <1>16, <1>17, TxnStep DEF t

----------------------------------------------------------------------------
(* Extracting a notice. *)

LEMMA ExtractSound ==
    ASSUME RowsTyped, RevisionsNumbered, NEW t \in Transactions, RevisionsSound(t),
           t.call \in {"revision", "discover"}, NEW u \in Urls, NEW d \in Documents,
           NEW fields \in FieldSets, document[d] # NoDocument \/ t.saw[d] # "none"
    PROVE  LET x == Extract(t, u, d, fields) IN
           /\ x \in Transactions /\ RevisionsSound(x)
           /\ x.notices = t.notices \ {d}
           /\ x.call = t.call /\ x.run = t.run /\ x.row = t.row
           /\ x.todo = t.todo /\ x.found = t.found /\ x.saw = t.saw /\ x.target = t.target
<1> DEFINE x == Extract(t, u, d, fields)
           S == RevisionsOf(t, u)
           n == NextNumber(t, u)
           new == [candidate |-> u, number |-> n, document |-> d, fields |-> fields]
           Known1 == \E v \in S : v.document = d /\ v.fields = fields
<1>1. /\ t.revisions \subseteq Revision /\ t.candidates \subseteq Urls
      /\ t.notices \subseteq Documents /\ revisions \subseteq Revision
      /\ IsFiniteSet(revisions) /\ IsFiniteSet(t.revisions)
  BY DEF Transactions, RowsTyped, RevisionsSound
<1>2. S \subseteq revisions \cup t.revisions /\ S \subseteq Revision
  BY <1>1 DEF RevisionsOf
<1>3. IsFiniteSet(S)
  BY <1>1, <1>2, FS_Union, FS_Subset
<1>4. \A v \in S : v.number > 1 => \E w \in S : w.number = v.number - 1
  BY DEF RevisionsOf, RevisionsNumbered, RevisionsSound
<1>5. /\ n \in Nat \ {0}
      /\ \A v \in S : v.number < n
      /\ n > 1 => \E v \in S : v.number = n - 1
  BY <1>2, <1>3, <1>4, NextNumberIsNext
<1>6. /\ x.notices = t.notices \ {d}
      /\ x.candidates = (IF candidate[u] = "none" THEN t.candidates \cup {u} ELSE t.candidates)
      /\ x.revisions = (IF Known1 THEN t.revisions ELSE t.revisions \cup {new})
      /\ x.call = t.call /\ x.run = t.run /\ x.row = t.row /\ x.todo = t.todo
      /\ x.found = t.found /\ x.saw = t.saw /\ x.target = t.target /\ x.subject = t.subject
  BY DEF Extract, Transactions
<1>7. x = [t EXCEPT !.notices = t.notices \ {d}, !.candidates = x.candidates,
                    !.revisions = x.revisions]
  BY DEF Extract, Transactions
<1> HIDE DEF x, n, S
<1>8. new \in Revision
  BY <1>5 DEF Revision
<1>9. /\ x.revisions \subseteq Revision /\ x.candidates \subseteq Urls
      /\ t.candidates \subseteq x.candidates /\ t.notices \ {d} \subseteq Documents
  BY <1>1, <1>6, <1>8
<1>10. x \in Transactions
  BY <1>7, <1>9 DEF Transactions
<1>11. IsFiniteSet(x.revisions)
  <2>1. IsFiniteSet(t.revisions \cup {new})
    BY <1>1, FS_AddElement, Zenon
  <2> QED
    BY <1>1, <1>6, <2>1, Zenon
<1> DEFINE Same(v, w) == v.candidate = w.candidate
                         /\ (v.number = w.number \/ SameInput(v, w))
<1>12. ASSUME ~Known1, NEW v \in t.revisions PROVE ~Same(v, new) /\ ~Same(new, v)
  <2>1. CASE v.candidate = u
    <3>1. v \in S
      BY <2>1 DEF S, RevisionsOf
    <3>2. ~(v.document = d /\ v.fields = fields) /\ v.number < n /\ v.number \in Nat
      BY <1>2, <1>5, <1>12, <3>1 DEF Revision
    <3>3. v.number # n
      BY <1>5, <3>2
    <3> QED
      BY <3>2, <3>3 DEF SameInput
  <2> QED
    BY <2>1
<1>13. \A v, w \in x.revisions : Same(v, w) => v = w
  <2>1. \A v, w \in t.revisions : Same(v, w) => v = w
    BY DEF RevisionsSound
  <2> HIDE DEF Same, new, Known1
  <2> QED
    BY <1>6, <1>12, <2>1
<1>14. ASSUME NEW v \in x.revisions, v.number > 1
       PROVE  \E w \in revisions \cup x.revisions :
                  w.candidate = v.candidate /\ w.number = v.number - 1
  <2>1. CASE v \in t.revisions
    BY <1>6, <1>14, <2>1 DEF RevisionsSound
  <2>2. CASE v \notin t.revisions
    <3>1. v.candidate = u /\ v.number = n
      BY <1>6, <1>14, <2>2
    <3>2. PICK w \in S : w.number = n - 1
      BY <1>5, <1>14, <3>1
    <3>3. w \in revisions \cup x.revisions /\ w.candidate = u
      BY <1>6, <3>2 DEF S, RevisionsOf
    <3> QED
      BY <3>1, <3>2, <3>3
  <2> QED
    BY <2>1, <2>2
<1>15. ASSUME NEW v \in x.revisions
       PROVE  /\ document[v.document] # NoDocument \/ x.saw[v.document] # "none"
              /\ v.candidate \in x.candidates \/ candidate[v.candidate] # "none"
  <2>1. CASE v \in t.revisions
    BY <1>6, <1>9, <2>1 DEF RevisionsSound
  <2>2. CASE v \notin t.revisions
    BY <1>6, <1>15, <2>2
  <2> QED
    BY <2>1, <2>2
<1>16. /\ x.call = "revision" => x.saw = Nothing
       /\ x.subject # {} => x.target \in {"READY_FOR_VERIFICATION", "DISCARDED"}
       /\ x.target = "READY_FOR_VERIFICATION" =>
             \A y \in x.subject : \E v \in revisions : v.candidate = y
       /\ x.revisions # {} => x.call \in {"revision", "discover"}
  BY <1>6 DEF RevisionsSound
<1>17. RevisionsSound(x)
  BY <1>11, <1>13, <1>14, <1>15, <1>16 DEF RevisionsSound
<1> QED
  BY <1>6, <1>10, <1>17 DEF x

LEMMA BeginRevisionKeeps ==
    ASSUME DiscoveryInvariant, NEW s \in Clients, NEW u \in Urls, NEW d \in Documents,
           NEW fields \in FieldSets, BeginRevision(s, u, d, fields)
    PROVE  DiscoveryInvariant'
<1> DEFINE t == Transaction("revision", "none", Row("none"))
           x == Extract(t, u, d, fields)
<1>1. s \in Writers /\ "none" \notin CrawlRuns /\ RowsTyped /\ RevisionsNumbered
  BY RunsApart DEF Writers, DiscoveryInvariant
<1>2. t \in Transactions
  BY TransactionTyped, RowTyped DEF Calls, Statuses
<1>3. /\ t.call = "revision" /\ t.run = "none" /\ t.target = "none" /\ t.todo = {}
      /\ t.notices = {} /\ t.found = {} /\ t.saw = Nothing
      /\ t.revisions = {} /\ t.subject = {}
  BY DEF Transaction
<1>4. BeginCall(s, x) /\ document[d] # NoDocument
  BY DEF BeginRevision
<1> HIDE DEF t
<1>5. RevisionsSound(t)
  BY <1>3, FS_EmptySet DEF RevisionsSound
<1>6. /\ x \in Transactions /\ RevisionsSound(x) /\ x.notices = t.notices \ {d}
      /\ x.call = t.call /\ x.run = t.run /\ x.todo = t.todo /\ x.found = t.found
      /\ x.saw = t.saw
  BY <1>1, <1>2, <1>3, <1>4, <1>5, ExtractSound
<1> HIDE DEF x
<1>7. SawSound(x)
  BY <1>3, <1>6, ClassNames DEF SawSound
<1>8. RunSound(x)
  BY <1>3, <1>6 DEF RunSound
<1> QED
  BY <1>1, <1>3, <1>4, <1>6, <1>7, <1>8, BeginStep

LEMMA ExtractNextKeeps ==
    ASSUME DiscoveryInvariant, NEW s \in Workers, ExtractNext(s)
    PROVE  DiscoveryInvariant'
<1> DEFINE t == txn[s]
<1>1. PICK d \in t.notices : txn' = [txn EXCEPT ![s] = Extract(@, d[1], d, FieldsOf[d])]
  BY DEF ExtractNext
<1> DEFINE x == Extract(t, d[1], d, FieldsOf[d])
<1>2. /\ s \in Writers /\ RowsTyped /\ RevisionsNumbered /\ t.call = "discover" /\ t.todo = {}
      /\ UNCHANGED <<enabled, documents, candidates>> /\ TxnsTyped
  BY DEF DiscoveryInvariant, ExtractNext, Writers
<1>3. /\ t \in Transactions /\ SawSound(t) /\ RunSound(t) /\ RevisionsSound(t)
      /\ t.run \in CrawlRuns => \A z \in Writers : z # s => txn[z].run # t.run
  BY <1>2, TxnOf
<1>4. txn' = [txn EXCEPT ![s] = x]
  BY <1>1, <1>2 DEF TxnsTyped
<1> HIDE DEF t
<1>5. d \in Documents /\ t.saw[d] # "none" /\ FieldsOf[d] \in FieldSets
  BY <1>1, <1>2, <1>3, DiscoveryAssumption DEF SawSound, ObservedBy, Documents
<1>6. /\ x \in Transactions /\ RevisionsSound(x) /\ x.notices = t.notices \ {d}
      /\ x.call = t.call /\ x.run = t.run /\ x.row = t.row /\ x.todo = t.todo
      /\ x.found = t.found /\ x.saw = t.saw
  BY <1>2, <1>3, <1>5, DocumentPairs, ExtractSound
<1> HIDE DEF x
<1>7. SawSound(x)
  BY <1>3, <1>6 DEF SawSound, ObservedBy
<1>8. RunSound(x)
  BY <1>2, <1>3, <1>6 DEF RunSound, ObservedBy, SeenBy
<1> QED
  BY <1>2, <1>3, <1>4, <1>6, <1>7, <1>8, TxnStep DEF t

LEMMA BeginDiscoveryKeeps ==
    ASSUME DiscoveryInvariant, NEW s \in Workers, NEW r \in CrawlRuns,
           NEW listing \in SUBSET Documents, NEW notices \in SUBSET listing,
           BeginDiscovery(s, r, listing, notices)
    PROVE  DiscoveryInvariant'
<1> DEFINE t0 == Transaction("discover", r, Row("RUNNING"))
           t == [t0 EXCEPT !.todo = listing, !.notices = notices]
<1>1. s \in Writers /\ r \in SourceRuns
  BY RunsApart DEF Writers
<1>2. t0 \in Transactions
  BY <1>1, TransactionTyped, RowTyped DEF Calls, Statuses
<1>3. t \in Transactions
  BY <1>2 DEF Transactions
<1>4. /\ t.call = "discover" /\ t.run = r /\ t.target = "none" /\ t.todo = listing
      /\ t.notices = notices /\ t.found = {} /\ t.saw = Nothing
      /\ t.revisions = {} /\ t.subject = {} /\ t.row = Row("RUNNING")
  BY DEF Transaction
<1>5. /\ runs[r].status = "none" /\ BeginCall(s, t)
      /\ \A z \in Writers : txn[z].run # r
  BY DEF BeginDiscovery
<1> HIDE DEF t
<1>6. SawSound(t)
  BY <1>4, ClassNames DEF SawSound
<1>7. RunSound(t)
  <2>1. ObservedBy(t) = {} /\ \A c \in Classes : SeenBy(t, c) = {}
    BY <1>4, ClassNames DEF ObservedBy, SeenBy
  <2>2. t.row.discovered = 0 /\ \A c \in Classes : t.row.count[c] = 0
    BY <1>4 DEF Row
  <2> QED
    BY <1>4, <1>5, <2>1, <2>2, FS_EmptySet DEF RunSound
<1>8. RevisionsSound(t)
  BY <1>4, FS_EmptySet DEF RevisionsSound
<1> QED
  BY <1>1, <1>3, <1>4, <1>5, <1>6, <1>7, <1>8, TxnStep DEF BeginCall

----------------------------------------------------------------------------
(* Steps that write rows. *)

\* Rows only grow, and a worker's run stays as it was but for its own session:
\* what is sound of the transactions that go on stays so.
LEMMA SessionsKept ==
    ASSUME DiscoveryInvariant, TxnsTyped',
           \A z \in Writers : txn'[z] \in {txn[z], NoTxn},
           \A d \in Documents : document[d] # NoDocument => document'[d] # NoDocument,
           \A r \in SourceRuns : Observed(r) \subseteq Observed(r)',
           \A r \in SourceRuns, c \in Classes : SeenAs(r, c) \subseteq SeenAs(r, c)',
           revisions \subseteq revisions',
           \A u \in Urls : candidate[u] # "none" => candidate'[u] # "none",
           \A r \in SourceRuns : runs[r].status # "none" => runs'[r].status # "none",
           \A z \in Writers : txn'[z].run \in CrawlRuns =>
               runs'[txn'[z].run].status = runs[txn'[z].run].status
    PROVE  OwnRuns' /\ \A z \in Writers : TxnSound(z)'
<1>1. NoTxn.run \notin CrawlRuns
  BY RunsApart DEF NoTxn, Transaction
<1>2. OwnRuns'
  BY <1>1 DEF OwnRuns, DiscoveryInvariant
<1>3. ASSUME NEW z \in Writers PROVE TxnSound(z)'
  <2>1. PICK t : t = txn'[z]
    OBVIOUS
  <2>2. t \in Transactions /\ SawSound(t) /\ RunSound(t) /\ RevisionsSound(t)
    BY <2>1, TxnOf, NoTxnSound
  <2>3. /\ t.found \subseteq Documents /\ t.revisions \subseteq Revision
        /\ t.subject \subseteq Urls /\ t.saw \in Sightings /\ t.row \in RunRecord(Statuses)
    BY <2>2 DEF Transactions
  <2>4. SawSound(txn[z])'
    <3>1. \A d \in t.found : document'[d] # NoDocument /\ t.saw[d] = "UNCHANGED"
      BY <2>2, <2>3 DEF SawSound
    <3>2. \A d \in Documents, c \in Contents : <<d[1], c>> \in Documents
      BY DEF Documents
    <3>3. \A d \in Documents : t.saw[d] = "CHANGED" =>
             \E c \in Contents \ {d[2]} :
                 document'[<<d[1], c>>] # NoDocument \/ t.saw[<<d[1], c>>] # "none"
      BY <2>2, <3>2 DEF SawSound
    <3>4. /\ \A d \in Documents \ t.found : t.saw[d] \in {"none", "NEW", "CHANGED"}
          /\ \A d \in t.todo : t.saw[d] = "none"
          /\ t.notices \subseteq t.todo \cup ObservedBy(t)
      BY <2>2 DEF SawSound
    <3> QED
      BY <2>1, <3>1, <3>3, <3>4 DEF SawSound, ObservedBy
  <2>5. RunSound(txn[z])'
    <3>1. /\ t.call \in {"none", "candidate", "revision", "status"} => t.run = "none"
          /\ t.call = "complete" => t.target \in Ended
      BY <2>2 DEF RunSound
    <3>2. t.call \in {"observe", "complete"} => t.run \in ApiRuns /\ runs'[t.run].status # "none"
      BY <2>2, RunsApart DEF RunSound
    <3>3. ASSUME t.call = "observe"
          PROVE  \E d \in Documents, c \in Classes :
                    /\ t.saw = [Nothing EXCEPT ![d] = c]
                    /\ t.row.discovered \in 1..(Cardinality(Observed(t.run)') + 1)
                    /\ t.row.count[c] \in 1..(Cardinality(SeenAs(t.run, c)') + 1)
      <4>1. PICK d \in Documents, c \in Classes :
               /\ t.saw = [Nothing EXCEPT ![d] = c]
               /\ t.row.discovered \in 1..(Cardinality(Observed(t.run)) + 1)
               /\ t.row.count[c] \in 1..(Cardinality(SeenAs(t.run, c)) + 1)
        BY <2>2, <3>3 DEF RunSound
      <4>2. t.run \in SourceRuns
        BY <2>2, <3>3, RunsApart DEF RunSound
      <4>3. Observed(t.run)' \subseteq Documents /\ SeenAs(t.run, c)' \subseteq Documents
        BY DEF Observed, SeenAs
      <4>4. IsFiniteSet(Observed(t.run)') /\ IsFiniteSet(SeenAs(t.run, c)')
        BY <4>3, DocumentsFinite
      <4>5. Observed(t.run) \subseteq Observed(t.run)' /\ SeenAs(t.run, c) \subseteq SeenAs(t.run, c)'
        BY <4>2
      <4>6. /\ Cardinality(Observed(t.run)) <= Cardinality(Observed(t.run)')
            /\ Cardinality(SeenAs(t.run, c)) <= Cardinality(SeenAs(t.run, c)')
        BY <4>4, <4>5, FS_Subset
      <4>7. /\ Cardinality(Observed(t.run)) \in Nat /\ Cardinality(Observed(t.run)') \in Nat
            /\ Cardinality(SeenAs(t.run, c)) \in Nat /\ Cardinality(SeenAs(t.run, c)') \in Nat
        BY <4>4, <4>5, FS_Subset, FS_CardinalityType
      <4>8. /\ t.row.discovered \in 1..(Cardinality(Observed(t.run)') + 1)
            /\ t.row.count[c] \in 1..(Cardinality(SeenAs(t.run, c)') + 1)
        BY <4>1, <4>6, <4>7
      <4> QED
        BY <4>1, <4>8
    <3>4. ASSUME t.call = "discover"
          PROVE  /\ t.run \in CrawlRuns /\ runs'[t.run].status = "none"
                 /\ t.row.discovered = Cardinality(ObservedBy(t))
                 /\ \A c \in Classes : t.row.count[c] = Cardinality(SeenBy(t, c))
      BY <2>1, <2>2, <3>4 DEF RunSound
    <3>6. t.call = "discover" =>
                /\ t.run \in CrawlRuns /\ runs'[t.run].status = "none"
                /\ t.row.discovered = Cardinality({d \in Documents : t.saw[d] # "none"})
                /\ \A c \in Classes :
                      t.row.count[c] = Cardinality({d \in Documents : t.saw[d] = c})
      BY <3>4 DEF ObservedBy, SeenBy
    <3>7. (txn[z].call = "observe" => \E d \in Documents, c \in Classes :
              /\ txn[z].saw = [Nothing EXCEPT ![d] = c]
              /\ txn[z].row.discovered \in 1..(Cardinality(Observed(txn[z].run)) + 1)
              /\ txn[z].row.count[c] \in 1..(Cardinality(SeenAs(txn[z].run, c)) + 1))'
      <4>1. SUFFICES ASSUME t.call = "observe"
                     PROVE  (\E d \in Documents, c \in Classes :
              /\ txn[z].saw = [Nothing EXCEPT ![d] = c]
              /\ txn[z].row.discovered \in 1..(Cardinality(Observed(txn[z].run)) + 1)
              /\ txn[z].row.count[c] \in 1..(Cardinality(SeenAs(txn[z].run, c)) + 1))'
        BY <2>1
      <4>2. PICK d \in Documents, c \in Classes :
                /\ t.saw = [Nothing EXCEPT ![d] = c]
                /\ t.row.discovered \in 1..(Cardinality(Observed(t.run)') + 1)
                /\ t.row.count[c] \in 1..(Cardinality(SeenAs(t.run, c)') + 1)
        BY <3>3, <4>1
      <4>3. /\ Observed(txn[z].run)' = Observed(t.run)'
            /\ SeenAs(txn[z].run, c)' = SeenAs(t.run, c)'
        BY <2>1 DEF Observed, SeenAs
      <4>4. (/\ txn[z].saw = [Nothing EXCEPT ![d] = c]
             /\ txn[z].row.discovered \in 1..(Cardinality(Observed(txn[z].run)) + 1)
             /\ txn[z].row.count[c] \in 1..(Cardinality(SeenAs(txn[z].run, c)) + 1))'
        BY <2>1, <4>2, <4>3
      <4> QED
        BY <4>4
    <3>8. (txn[z].call = "discover" =>
              /\ txn[z].run \in CrawlRuns /\ runs[txn[z].run].status = "none"
              /\ txn[z].row.discovered = Cardinality(ObservedBy(txn[z]))
              /\ \A c \in Classes : txn[z].row.count[c] = Cardinality(SeenBy(txn[z], c)))'
      BY <2>1, <3>6 DEF ObservedBy, SeenBy
    <3>9. (/\ txn[z].call \in {"none", "candidate", "revision", "status"} => txn[z].run = "none"
           /\ txn[z].call = "complete" => txn[z].target \in Ended
           /\ txn[z].call \in {"observe", "complete"} =>
                 txn[z].run \in ApiRuns /\ runs[txn[z].run].status # "none")'
      BY <2>1, <3>1, <3>2
    <3> QED
      BY <3>7, <3>8, <3>9 DEF RunSound
  <2>6. RevisionsSound(txn[z])'
    <3>1. \A v \in t.revisions : v.document \in Documents /\ v.candidate \in Urls
      BY <2>3 DEF Revision
    <3>2. \A v \in t.revisions :
             /\ document'[v.document] # NoDocument \/ t.saw[v.document] # "none"
             /\ v.candidate \in t.candidates \/ candidate'[v.candidate] # "none"
      BY <2>2, <3>1 DEF RevisionsSound
    <3>3. \A v \in t.revisions : v.number > 1 =>
             \E w \in revisions' \cup t.revisions :
                 w.candidate = v.candidate /\ w.number = v.number - 1
      BY <2>2 DEF RevisionsSound
    <3>4. t.target = "READY_FOR_VERIFICATION" =>
             \A u \in t.subject : \E v \in revisions' : v.candidate = u
      BY <2>2 DEF RevisionsSound
    <3> QED
      BY <2>1, <2>2, <3>2, <3>3, <3>4 DEF RevisionsSound
  <2> QED
    BY <2>1, <2>2, <2>4, <2>5, <2>6 DEF TxnSound
<1> QED
  BY <1>2, <1>3

\* A transaction that ends.
LEMMA CommittedTxn ==
    ASSUME DiscoveryInvariant, NEW s \in Writers, CommitCall(s)
    PROVE  /\ TxnsTyped' /\ \A z \in Writers : txn'[z] \in {txn[z], NoTxn}
           /\ \A z \in Writers : txn'[z].run \in CrawlRuns =>
                 txn'[z] = txn[z] /\ z # s
           /\ enabled' \in BOOLEAN
<1>1. NoTxn.run \notin CrawlRuns
  BY RunsApart DEF NoTxn, Transaction
<1>2. TxnsTyped /\ enabled \in BOOLEAN
  BY DEF DiscoveryInvariant, RowsTyped
<1>3. txn' = [txn EXCEPT ![s] = NoTxn] /\ enabled' = enabled
  BY DEF CommitCall
<1>4. \A z \in Writers : txn'[z] = IF z = s THEN NoTxn ELSE txn[z]
  BY <1>2, <1>3 DEF TxnsTyped
<1>5. TxnsTyped'
  BY <1>2, <1>3, NoTxnSound DEF TxnsTyped
<1> QED
  BY <1>1, <1>2, <1>3, <1>4, <1>5

\* The documents and observations of a transaction that meets no conflict.
LEMMA DocumentsCommitted ==
    ASSUME RowsTyped, FirstSightings, NEW t \in Transactions, SawSound(t), t.run \in SourceRuns,
           ~VersionTaken(t), ~ObservationTaken(t), SaveDocuments(t)
    PROVE  /\ document' \in [Documents -> [first : SourceRuns \cup {"none"},
                                           latest : SourceRuns \cup {"none"}]]
           /\ observation' \in [SourceRuns -> Sightings] /\ FirstSightings'
           /\ \A d \in Documents : document[d] # NoDocument => document'[d] # NoDocument
           /\ \A d \in Documents : t.saw[d] # "none" =>
                 document'[d] # NoDocument /\ observation[t.run][d] = "none"
           /\ \A r \in SourceRuns, d \in Documents : observation'[r][d] =
                 IF r = t.run /\ t.saw[d] # "none" THEN t.saw[d] ELSE observation[r][d]
<1> DEFINE r0 == t.run
<1>1. /\ t.saw \in Sightings /\ t.found \subseteq Documents /\ r0 # "none" /\ r0 \in SourceRuns
  BY RunsApart DEF Transactions, SourceRuns
<1>2. /\ document \in [Documents -> [first : SourceRuns \cup {"none"}, latest : SourceRuns \cup {"none"}]]
      /\ observation \in [SourceRuns -> Sightings]
  BY DEF RowsTyped
<1>3. /\ document' = [d \in Documents |->
            IF t.saw[d] = "none" THEN document[d]
            ELSE [first |-> IF d \in t.found THEN document[d].first ELSE r0, latest |-> r0]]
      /\ observation' = [observation EXCEPT ![r0] =
            [d \in Documents |-> IF t.saw[d] = "none" THEN observation[r0][d] ELSE t.saw[d]]]
  BY <1>1, <1>2 DEF SaveDocuments
<1> HIDE DEF r0
<1>4. \A d \in Documents : document'[d] =
          IF t.saw[d] = "none" THEN document[d]
          ELSE [first |-> IF d \in t.found THEN document[d].first ELSE r0, latest |-> r0]
  BY <1>3
<1>5. [d \in Documents |-> IF t.saw[d] = "none" THEN observation[r0][d] ELSE t.saw[d]]
          \in Sightings
  BY <1>1, <1>2 DEF Sightings
<1>6. observation' \in [SourceRuns -> Sightings]
  BY <1>1, <1>2, <1>3, <1>5
<1>7. \A r \in SourceRuns, d \in Documents : observation'[r][d] =
          IF r = r0 /\ t.saw[d] # "none" THEN t.saw[d] ELSE observation[r][d]
  BY <1>1, <1>2, <1>3
<1>8. document' \in [Documents -> [first : SourceRuns \cup {"none"}, latest : SourceRuns \cup {"none"}]]
  BY <1>1, <1>2, <1>3
<1>10. \A d \in Documents : t.saw[d] # "none" =>
           document'[d] # NoDocument /\ observation[r0][d] = "none"
  <2>1. \A d \in Documents : t.saw[d] # "none" => observation[r0][d] = "none"
    BY <1>1 DEF ObservationTaken, r0
  <2>2. ASSUME NEW d \in Documents, t.saw[d] # "none" PROVE document'[d].latest = r0
    <3>1. document'[d] = [first |-> IF d \in t.found THEN document[d].first ELSE r0,
                          latest |-> r0]
      BY <1>4, <2>2
    <3> QED
      BY <3>1
  <2>3. \A d \in Documents : t.saw[d] # "none" => document'[d] # NoDocument
    BY <1>1, <2>2 DEF NoDocument
  <2> QED
    BY <2>1, <2>3
<1>11. \A d \in Documents : document[d] # NoDocument => document'[d] # NoDocument
  BY <1>4, <1>10
\* The version is new to the table, has been found there, or is not concerned.
<1>12. \A d \in Documents :
          \/ t.saw[d] = "none"
          \/ t.saw[d] = "UNCHANGED" /\ document[d] # NoDocument /\ d \in t.found
          \/ t.saw[d] \in {"NEW", "CHANGED"} /\ document[d] = NoDocument /\ d \notin t.found
  BY DEF SawSound, VersionTaken
<1>13. ASSUME NEW d \in Documents
       PROVE  /\ \A r \in SourceRuns : observation'[r][d] \in {"NEW", "CHANGED"} <=> document'[d].first = r
              /\ \A r \in SourceRuns : observation'[r][d] # "none" => document'[d] # NoDocument
              /\ \A r \in SourceRuns : observation'[r][d] = "CHANGED" =>
                    \E c \in Contents \ {d[2]} : document'[<<d[1], c>>] # NoDocument
              /\ document'[d] # NoDocument =>
                    document'[d].latest \in SourceRuns /\ observation'[document'[d].latest][d] # "none"
  <2>0. /\ \A r \in SourceRuns : observation[r][d] \in {"NEW", "CHANGED"} <=> document[d].first = r
        /\ \A r \in SourceRuns : observation[r][d] # "none" => document[d] # NoDocument
        /\ \A r \in SourceRuns : observation[r][d] = "CHANGED" =>
              \E c \in Contents \ {d[2]} : document[<<d[1], c>>] # NoDocument
        /\ document[d] # NoDocument =>
              document[d].latest \in SourceRuns /\ observation[document[d].latest][d] # "none"
    BY DEF FirstSightings
  <2>1. \A r \in SourceRuns : observation'[r][d] =
            IF r = r0 /\ t.saw[d] # "none" THEN t.saw[d] ELSE observation[r][d]
    BY <1>7
  <2>2. document'[d] = IF t.saw[d] = "none" THEN document[d]
          ELSE [first |-> IF d \in t.found THEN document[d].first ELSE r0, latest |-> r0]
    BY <1>4
  <2>3. \A r \in SourceRuns : observation'[r][d] \in {"NEW", "CHANGED"} <=> document'[d].first = r
    <3>1. CASE t.saw[d] = "none"
      BY <2>0, <2>1, <2>2, <3>1
    <3>2. CASE t.saw[d] = "UNCHANGED" /\ document[d] # NoDocument /\ d \in t.found
      <4>1. document'[d].first = document[d].first
        BY <2>2, <3>2
      <4>2. observation[r0][d] = "none"
        BY <1>10, <3>2
      <4>3. document[d].first # r0
        BY <1>1, <2>0, <4>2
      <4> QED
        BY <2>0, <2>1, <3>2, <4>1, <4>3
    <3>3. CASE t.saw[d] \in {"NEW", "CHANGED"} /\ document[d] = NoDocument /\ d \notin t.found
      <4>1. document'[d].first = r0
        BY <2>2, <3>3
      <4>2. \A r \in SourceRuns : observation[r][d] = "none"
        BY <2>0, <3>3
      <4> QED
        BY <2>1, <3>3, <4>1, <4>2
    <3> QED
      BY <1>12, <3>1, <3>2, <3>3
  <2>4. \A r \in SourceRuns : observation'[r][d] # "none" => document'[d] # NoDocument
    BY <1>10, <1>11, <2>0, <2>1
  <2>5. ASSUME NEW r \in SourceRuns, observation'[r][d] = "CHANGED"
        PROVE  \E c \in Contents \ {d[2]} : document'[<<d[1], c>>] # NoDocument
    <3>1. \A c \in Contents : <<d[1], c>> \in Documents
      BY DEF Documents
    <3>2. CASE observation[r][d] = "CHANGED"
      <4>1. PICK c \in Contents \ {d[2]} : document[<<d[1], c>>] # NoDocument
        BY <2>0, <3>2
      <4> QED
        BY <1>11, <3>1, <4>1
    <3>3. CASE t.saw[d] = "CHANGED"
      <4>1. PICK c \in Contents \ {d[2]} :
                document[<<d[1], c>>] # NoDocument \/ t.saw[<<d[1], c>>] # "none"
        BY <3>3 DEF SawSound
      <4> QED
        BY <1>10, <1>11, <3>1, <4>1
    <3> QED
      BY <2>1, <2>5, <3>2, <3>3
  <2>6. ASSUME document'[d] # NoDocument
        PROVE  document'[d].latest \in SourceRuns /\ observation'[document'[d].latest][d] # "none"
    <3>1. CASE t.saw[d] = "none"
      BY <2>0, <2>1, <2>2, <2>6, <3>1
    <3>2. CASE t.saw[d] # "none"
      <4>1. document'[d].latest = r0
        BY <2>2, <3>2
      <4> QED
        BY <1>1, <2>1, <3>2, <4>1
    <3> QED
      BY <3>1, <3>2
  <2> QED
    BY <2>3, <2>4, <2>5, <2>6
<1>14. FirstSightings'
  BY <1>13 DEF FirstSightings
<1> QED
  BY <1>6, <1>7, <1>8, <1>10, <1>11, <1>14 DEF r0

\* What a run has observed once its transaction has committed.
LEMMA ObservedCommitted ==
    ASSUME NEW t \in Transactions, t.run \in SourceRuns,
           \A d \in Documents : t.saw[d] # "none" => observation[t.run][d] = "none",
           \A r \in SourceRuns, d \in Documents : observation'[r][d] =
                IF r = t.run /\ t.saw[d] # "none" THEN t.saw[d] ELSE observation[r][d]
    PROVE  /\ Observed(t.run)' = Observed(t.run) \cup ObservedBy(t)
           /\ \A c \in Classes : SeenAs(t.run, c)' = SeenAs(t.run, c) \cup SeenBy(t, c)
           /\ Observed(t.run) \cap ObservedBy(t) = {}
           /\ \A c \in Classes : SeenAs(t.run, c) \cap SeenBy(t, c) = {}
           /\ \A r \in SourceRuns : r # t.run =>
                 /\ Observed(r)' = Observed(r)
                 /\ \A c \in Classes : SeenAs(r, c)' = SeenAs(r, c)
           /\ \A r \in SourceRuns : Observed(r) \subseteq Observed(r)'
           /\ \A r \in SourceRuns, c \in Classes : SeenAs(r, c) \subseteq SeenAs(r, c)'
<1>1. Observed(t.run)' = Observed(t.run) \cup ObservedBy(t)
  BY DEF Observed, ObservedBy
<1>2. ASSUME NEW c \in Classes PROVE SeenAs(t.run, c)' = SeenAs(t.run, c) \cup SeenBy(t, c)
  <2>1. c # "none"
    BY ClassNames
  <2>2. \A d \in Documents : observation'[t.run][d] = c
                             <=> observation[t.run][d] = c \/ t.saw[d] = c
    BY <2>1
  <2> QED
    BY <2>2 DEF SeenAs, SeenBy
<1>3. Observed(t.run) \cap ObservedBy(t) = {}
  BY DEF Observed, ObservedBy
<1>4. ASSUME NEW c \in Classes PROVE SeenAs(t.run, c) \cap SeenBy(t, c) = {}
  <2>1. c # "none"
    BY ClassNames
  <2> QED
    BY <2>1 DEF SeenAs, SeenBy
<1>5. ASSUME NEW r \in SourceRuns, r # t.run
      PROVE  Observed(r)' = Observed(r) /\ \A c \in Classes : SeenAs(r, c)' = SeenAs(r, c)
  <2>1. \A d \in Documents : observation'[r][d] = observation[r][d]
    BY <1>5
  <2> QED
    BY <2>1 DEF Observed, SeenAs
<1> QED
  BY <1>1, <1>2, <1>3, <1>4, <1>5, Zenon

\* The candidates and revisions of one.
LEMMA CandidatesCommitted ==
    ASSUME RowsTyped, RevisionsNumbered, NEW t \in Transactions, RevisionsSound(t),
           ~NumberTaken(t), ~HashTaken(t), SaveCandidates(t),
           \A d \in Documents : document[d] # NoDocument => document'[d] # NoDocument,
           \A v \in t.revisions : document'[v.document] # NoDocument
    PROVE  /\ candidate' \in [Urls -> CandidateStatuses \cup {"none"}]
           /\ revisions' \subseteq Revision /\ IsFiniteSet(revisions')
           /\ revisions \subseteq revisions'
           /\ \A u \in Urls : candidate[u] # "none" => candidate'[u] # "none"
           /\ RevisionsNumbered'
<1>1. /\ t.revisions \subseteq Revision /\ revisions \subseteq Revision
      /\ IsFiniteSet(revisions) /\ IsFiniteSet(t.revisions) /\ t.candidates \subseteq Urls
      /\ candidate \in [Urls -> CandidateStatuses \cup {"none"}]
  BY DEF Transactions, RowsTyped, RevisionsSound
<1>2. revisions' = revisions \cup t.revisions
  BY DEF SaveCandidates
<1>3. \A u \in Urls : candidate'[u] =
          IF u \in t.candidates THEN "DRAFT"
          ELSE IF u \in t.subject THEN t.target ELSE candidate[u]
  BY DEF SaveCandidates
<1>4. t.subject # {} => t.target \in {"READY_FOR_VERIFICATION", "DISCARDED"}
  BY DEF RevisionsSound
<1>5. candidate' \in [Urls -> CandidateStatuses \cup {"none"}]
  BY <1>1, <1>4 DEF SaveCandidates, CandidateStatuses
<1>6. revisions' \subseteq Revision /\ revisions \subseteq revisions'
  BY <1>1, <1>2
<1>7. IsFiniteSet(revisions')
  BY <1>1, <1>2, FS_Union
<1>8. \A u \in Urls : candidate[u] # "none" => candidate'[u] # "none"
  BY <1>3, <1>4
<1> DEFINE Same(v, w) == v.candidate = w.candidate
                         /\ (v.number = w.number \/ SameInput(v, w))
<1>9. \A v, w \in revisions' : Same(v, w) => v = w
  <2>1. \A v, w \in revisions : Same(v, w) => v = w
    BY DEF RevisionsNumbered
  <2>2. \A v, w \in t.revisions : Same(v, w) => v = w
    BY DEF RevisionsSound
  <2>3. \A v \in t.revisions, w \in revisions : ~Same(v, w) /\ ~Same(w, v)
    BY DEF NumberTaken, HashTaken, SameInput
  <2> HIDE DEF Same
  <2> QED
    BY <1>2, <2>1, <2>2, <2>3
<1>10. \A v \in revisions' : v.number > 1 =>
          \E w \in revisions' : w.candidate = v.candidate /\ w.number = v.number - 1
  BY <1>2 DEF RevisionsNumbered, RevisionsSound
<1>11. \A v \in revisions' : document'[v.document] # NoDocument /\ candidate'[v.candidate] # "none"
  <2>1. \A v \in revisions : v.document \in Documents /\ v.candidate \in Urls
    BY <1>1 DEF Revision
  <2>2. \A v \in revisions : document'[v.document] # NoDocument /\ candidate'[v.candidate] # "none"
    BY <1>8, <2>1 DEF RevisionsNumbered
  <2>3. \A v \in t.revisions : v.candidate \in Urls
    BY <1>1 DEF Revision
  <2>4. \A v \in t.revisions : candidate'[v.candidate] # "none"
    BY <1>3, <1>8, <2>3 DEF RevisionsSound
  <2> QED
    BY <1>2, <2>2, <2>4
<1>12. \A u \in Urls : candidate'[u] = "READY_FOR_VERIFICATION" =>
          \E v \in revisions' : v.candidate = u
  BY <1>2, <1>3 DEF RevisionsNumbered, RevisionsSound
<1>13. RevisionsNumbered'
  BY <1>9, <1>10, <1>11, <1>12 DEF RevisionsNumbered
<1> QED
  BY <1>5, <1>6, <1>7, <1>8, <1>13

----------------------------------------------------------------------------
(* The ends. *)

LEMMA CommitObserveKeeps ==
    ASSUME DiscoveryInvariant, NEW s \in Writers, CommitObserve(s)
    PROVE  DiscoveryInvariant'
<1>1. PICK t : t = txn[s]
  OBVIOUS
<1>2. /\ RowsTyped /\ NotBegun /\ FirstSightings /\ CountsWithin /\ RevisionsNumbered
  BY DEF DiscoveryInvariant
<1>3. /\ t.call = "observe" /\ CommitCall(s) /\ SaveDocuments(t) /\ ~Conflict(t)
      /\ runs' = [runs EXCEPT ![t.run].discovered = t.row.discovered,
                              ![t.run].count = [c \in Classes |->
                                  IF \E d \in Documents : t.saw[d] = c
                                  THEN t.row.count[c] ELSE @[c]]]
      /\ UNCHANGED <<candidate, revisions, enabled>>
  BY <1>1 DEF CommitObserve, CommitCall, candidates
<1>4. t \in Transactions /\ SawSound(t) /\ RunSound(t)
  BY <1>1, TxnOf
<1>5. PICK d \in Documents, class \in Classes :
          /\ t.saw = [Nothing EXCEPT ![d] = class]
          /\ t.row.discovered \in 1..(Cardinality(Observed(t.run)) + 1)
          /\ t.row.count[class] \in 1..(Cardinality(SeenAs(t.run, class)) + 1)
  BY <1>3, <1>4 DEF RunSound
<1>6. PICK r : r = t.run
  OBVIOUS
<1>7. r \in ApiRuns /\ r \in SourceRuns /\ r \notin CrawlRuns /\ runs[r].status # "none"
  BY <1>3, <1>4, <1>6, RunsApart DEF RunSound
<1>8. runs \in [SourceRuns -> RunRecord(Statuses)]
  BY <1>2 DEF RowsTyped
<1>9. ~VersionTaken(t) /\ ~ObservationTaken(t)
  BY <1>3 DEF Conflict
<1>10. /\ document' \in [Documents -> [first : SourceRuns \cup {"none"}, latest : SourceRuns \cup {"none"}]]
       /\ observation' \in [SourceRuns -> Sightings] /\ FirstSightings'
       /\ \A e \in Documents : document[e] # NoDocument => document'[e] # NoDocument
       /\ \A e \in Documents : t.saw[e] # "none" => observation[t.run][e] = "none"
       /\ \A x \in SourceRuns, e \in Documents : observation'[x][e] =
                 IF x = t.run /\ t.saw[e] # "none" THEN t.saw[e] ELSE observation[x][e]
  BY <1>2, <1>3, <1>4, <1>6, <1>7, <1>9, DocumentsCommitted
<1>11. /\ Observed(r)' = Observed(r) \cup ObservedBy(t)
       /\ \A c \in Classes : SeenAs(r, c)' = SeenAs(r, c) \cup SeenBy(t, c)
       /\ Observed(r) \cap ObservedBy(t) = {}
       /\ \A c \in Classes : SeenAs(r, c) \cap SeenBy(t, c) = {}
       /\ \A x \in SourceRuns : x # r =>
             Observed(x)' = Observed(x) /\ \A c \in Classes : SeenAs(x, c)' = SeenAs(x, c)
       /\ \A x \in SourceRuns : Observed(x) \subseteq Observed(x)'
       /\ \A x \in SourceRuns, c \in Classes : SeenAs(x, c) \subseteq SeenAs(x, c)'
  BY <1>4, <1>6, <1>7, <1>10, ObservedCommitted
<1>12. \A e \in Documents : t.saw[e] = IF e = d THEN class ELSE "none"
  BY <1>5 DEF Nothing
<1>13. /\ ObservedBy(t) = {d} /\ SeenBy(t, class) = {d}
       /\ \A c \in Classes : c # class => SeenBy(t, c) = {}
       /\ class # "none"
  BY <1>5, <1>12, ClassNames DEF ObservedBy, SeenBy
<1>14. /\ IsFiniteSet(Observed(r)) /\ Cardinality(Observed(r)) \in Nat
       /\ \A c \in Classes : IsFiniteSet(SeenAs(r, c)) /\ Cardinality(SeenAs(r, c)) \in Nat
  <2>1. Observed(r) \subseteq Documents /\ \A c \in Classes : SeenAs(r, c) \subseteq Documents
    BY DEF Observed, SeenAs
  <2> QED
    BY <2>1, DocumentsFinite
<1>15. /\ Cardinality(Observed(r)') = Cardinality(Observed(r)) + 1 /\ Observed(r)' # {}
       /\ Cardinality(SeenAs(r, class)') = Cardinality(SeenAs(r, class)) + 1 /\ SeenAs(r, class)' # {}
  <2>1. /\ d \notin Observed(r) /\ Observed(r)' = Observed(r) \cup {d}
        /\ d \notin SeenAs(r, class) /\ SeenAs(r, class)' = SeenAs(r, class) \cup {d}
    BY <1>5, <1>11, <1>13
  <2>2. IsFiniteSet(SeenAs(r, class))
    BY <1>5, <1>14
  <2> QED
    BY <1>14, <2>1, <2>2, FS_AddElement
\* The row: the counters of what was observed, as it was loaded.
<1>16. \A x \in SourceRuns : x # r => runs'[x] = runs[x]
  BY <1>3, <1>6, <1>8
<1> DEFINE counts == [c \in Classes |->
                        IF \E e \in Documents : t.saw[e] = c THEN t.row.count[c] ELSE runs[r].count[c]]
<1>17. runs'[r] = [runs[r] EXCEPT !.discovered = t.row.discovered, !.count = counts]
  BY <1>3, <1>6, <1>7, <1>8
<1>18. /\ t.row.discovered \in Nat /\ t.row.count \in [Classes -> Nat]
       /\ runs[r].count \in [Classes -> Nat] /\ runs[r] \in RunRecord(Statuses)
  BY <1>4, <1>7, <1>8 DEF Transactions, RunRecord
<1>19. counts \in [Classes -> Nat]
  BY <1>18
<1>20. /\ counts[class] = t.row.count[class]
       /\ \A c \in Classes : c # class => counts[c] = runs[r].count[c]
  <2>1. \E e \in Documents : t.saw[e] = class
    BY <1>12
  <2>2. \A c \in Classes : c # class => ~\E e \in Documents : t.saw[e] = c
    BY <1>12, ClassNames
  <2> QED
    BY <1>5, <2>1, <2>2
<1> HIDE DEF counts
<1>21. /\ runs'[r] \in RunRecord(Statuses) /\ runs'[r].discovered = t.row.discovered
       /\ runs'[r].count = counts /\ runs'[r].status = runs[r].status
  BY <1>17, <1>18, <1>19 DEF RunRecord
<1>22. runs' \in [SourceRuns -> RunRecord(Statuses)]
  <2>1. /\ DOMAIN runs' = SourceRuns /\ runs' = [x \in SourceRuns |-> runs'[x]]
    BY <1>3, <1>8
  <2>2. \A x \in SourceRuns : runs'[x] \in RunRecord(Statuses)
    BY <1>8, <1>16, <1>21
  <2> QED
    BY <2>1, <2>2
<1>23. RowsTyped'
  BY <1>2, <1>3, <1>10, <1>22 DEF RowsTyped
<1>24. NotBegun'
  <2>1. ASSUME NEW x \in SourceRuns, runs'[x].status = "none" PROVE observation'[x] = Nothing
    <3>1. x # r /\ runs[x].status = "none"
      BY <1>7, <1>16, <1>21, <2>1
    <3>2. observation'[x] = observation[x]
      BY <1>2, <1>3, <1>6, <1>7, <3>1 DEF SaveDocuments, RowsTyped
    <3> QED
      BY <1>2, <3>1, <3>2 DEF NotBegun
  <2> QED
    BY <2>1 DEF NotBegun
<1>25. CountsWithin'
  <2>1. ASSUME NEW x \in SourceRuns
        PROVE  /\ runs'[x].discovered <= Cardinality(Observed(x)')
               /\ runs'[x].discovered = 0 <=> Observed(x)' = {}
               /\ \A c \in Classes :
                     /\ runs'[x].count[c] <= Cardinality(SeenAs(x, c)')
                     /\ runs'[x].count[c] = 0 <=> SeenAs(x, c)' = {}
    <3>1. CASE x # r
      BY <1>2, <1>11, <1>16, <3>1 DEF CountsWithin
    <3>2. CASE x = r
      <4>1. runs'[r].discovered <= Cardinality(Observed(r)') /\ runs'[r].discovered > 0
        BY <1>5, <1>6, <1>14, <1>15, <1>21
      <4>2. runs'[r].count[class] <= Cardinality(SeenAs(r, class)') /\ runs'[r].count[class] > 0
        BY <1>5, <1>6, <1>14, <1>15, <1>20, <1>21
      <4>3. ASSUME NEW c \in Classes, c # class
            PROVE  /\ runs'[r].count[c] <= Cardinality(SeenAs(r, c)')
                   /\ runs'[r].count[c] = 0 <=> SeenAs(r, c)' = {}
        <5>1. runs'[r].count[c] = runs[r].count[c] /\ SeenAs(r, c)' = SeenAs(r, c)
          BY <1>11, <1>13, <1>20, <1>21, <4>3
        <5> QED
          BY <1>2, <1>7, <5>1 DEF CountsWithin
      <4>4. runs'[r].discovered # 0 /\ runs'[r].count[class] # 0
        BY <4>1, <4>2
      <4> HIDE DEF counts
      <4> QED
        BY <1>15, <3>2, <4>1, <4>2, <4>3, <4>4
    <3> QED
      BY <3>1, <3>2
  <2>2. ASSUME NEW x \in CrawlRuns
        PROVE  /\ runs'[x].status \in {"none", "SUCCEEDED", "PARTIAL"}
               /\ runs'[x].discovered = Cardinality(Observed(x)')
               /\ \A c \in Classes : runs'[x].count[c] = Cardinality(SeenAs(x, c)')
    <3>1. x \in SourceRuns /\ x # r
      BY <1>7, RunsApart
    <3> QED
      BY <1>2, <1>11, <1>16, <3>1 DEF CountsWithin
  <2> QED
    BY <2>1, <2>2 DEF CountsWithin
<1>26. RevisionsNumbered'
  <2>1. \A v \in revisions : v.document \in Documents
    BY <1>2 DEF RowsTyped, Revision
  <2> QED
    BY <1>2, <1>3, <1>10, <2>1 DEF RevisionsNumbered
<1>27. /\ TxnsTyped' /\ \A z \in Writers : txn'[z] \in {txn[z], NoTxn}
       /\ \A z \in Writers : txn'[z].run \in CrawlRuns => txn'[z] = txn[z] /\ z # s
  BY <1>3, CommittedTxn
<1>28. \A z \in Writers : txn'[z].run \in CrawlRuns =>
           runs'[txn'[z].run].status = runs[txn'[z].run].status
  BY <1>7, <1>16, RunsApart
<1>29. \A x \in SourceRuns : runs[x].status # "none" => runs'[x].status # "none"
  BY <1>16, <1>21
<1>30. /\ revisions \subseteq revisions'
       /\ \A u \in Urls : candidate[u] # "none" => candidate'[u] # "none"
  BY <1>3
<1>31. OwnRuns' /\ \A z \in Writers : TxnSound(z)'
  BY <1>10, <1>11, <1>27, <1>28, <1>29, <1>30, SessionsKept
<1> QED
  BY <1>10, <1>23, <1>24, <1>25, <1>26, <1>27, <1>31 DEF DiscoveryInvariant

LEMMA CommitCompleteKeeps ==
    ASSUME DiscoveryInvariant, NEW s \in Writers, CommitCompletion(s)
    PROVE  DiscoveryInvariant'
<1>1. PICK t : t = txn[s]
  OBVIOUS
<1>2. /\ RowsTyped /\ NotBegun /\ FirstSightings /\ CountsWithin /\ RevisionsNumbered
  BY DEF DiscoveryInvariant
<1>3. /\ t.call = "complete" /\ CommitCall(s)
      /\ runs' = [runs EXCEPT ![t.run].status = t.target]
      /\ document' = document /\ observation' = observation
      /\ candidate' = candidate /\ revisions' = revisions /\ enabled' = enabled
  BY <1>1 DEF CommitCompletion, CommitCall, candidates
<1>4. t \in Transactions /\ RunSound(t)
  BY <1>1, TxnOf
<1>5. PICK r : r = t.run
  OBVIOUS
<1>6. /\ r \in ApiRuns /\ r \in SourceRuns /\ r \notin CrawlRuns /\ runs[r].status # "none"
      /\ t.target \in Ended
  BY <1>3, <1>4, <1>5, RunsApart DEF RunSound
<1>7. runs \in [SourceRuns -> RunRecord(Statuses)]
  BY <1>2 DEF RowsTyped
<1>8. \A x \in SourceRuns : x # r => runs'[x] = runs[x]
  BY <1>3, <1>5, <1>7
<1>9. runs'[r] = [runs[r] EXCEPT !.status = t.target] /\ runs[r] \in RunRecord(Statuses)
  BY <1>3, <1>5, <1>6, <1>7
<1>10. /\ runs'[r] \in RunRecord(Statuses) /\ runs'[r].discovered = runs[r].discovered
       /\ runs'[r].count = runs[r].count /\ runs'[r].status = t.target
  BY <1>6, <1>9 DEF RunRecord, Statuses
<1>11. runs' \in [SourceRuns -> RunRecord(Statuses)]
  <2>1. runs' = [x \in SourceRuns |-> runs'[x]]
    BY <1>3, <1>7
  <2>2. \A x \in SourceRuns : runs'[x] \in RunRecord(Statuses)
    BY <1>7, <1>8, <1>10
  <2> QED
    BY <2>1, <2>2
<1>12. RowsTyped'
  BY <1>2, <1>3, <1>11 DEF RowsTyped
<1>13. t.target # "none"
  BY <1>6 DEF Ended
<1>14. NotBegun'
  BY <1>2, <1>3, <1>8, <1>10, <1>13 DEF NotBegun
<1>15. FirstSightings' /\ RevisionsNumbered'
  <2>1. FirstSightings'
    BY <1>2, <1>3 DEF FirstSightings
  <2>2. RevisionsNumbered'
    BY <1>2, <1>3, Zenon DEF RevisionsNumbered, SameInput
  <2> QED
    BY <2>1, <2>2
<1>16. \A x \in SourceRuns : /\ Observed(x)' = Observed(x)
                             /\ \A c \in Classes : SeenAs(x, c)' = SeenAs(x, c)
                             /\ runs'[x].discovered = runs[x].discovered
                             /\ runs'[x].count = runs[x].count
  BY <1>3, <1>8, <1>10 DEF Observed, SeenAs
<1>17. CountsWithin'
  BY <1>2, <1>6, <1>8, <1>16, RunsApart DEF CountsWithin
<1>18. /\ TxnsTyped' /\ \A z \in Writers : txn'[z] \in {txn[z], NoTxn}
  BY <1>3, CommittedTxn
<1>19. \A z \in Writers : txn'[z].run \in CrawlRuns =>
           runs'[txn'[z].run].status = runs[txn'[z].run].status
  BY <1>6, <1>8, RunsApart
<1>20. \A x \in SourceRuns : runs[x].status # "none" => runs'[x].status # "none"
  BY <1>8, <1>10, <1>13
<1>21. /\ \A x \in SourceRuns : Observed(x) \subseteq Observed(x)'
       /\ \A x \in SourceRuns, c \in Classes : SeenAs(x, c) \subseteq SeenAs(x, c)'
  BY <1>16
<1>22. OwnRuns' /\ \A z \in Writers : TxnSound(z)'
  BY <1>3, <1>18, <1>19, <1>20, <1>21, SessionsKept
<1> QED
  BY <1>12, <1>14, <1>15, <1>17, <1>18, <1>22 DEF DiscoveryInvariant

LEMMA CommitCandidateKeeps ==
    ASSUME DiscoveryInvariant, NEW s \in Writers, CommitCandidate(s)
    PROVE  DiscoveryInvariant'
<1>1. PICK t : t = txn[s]
  OBVIOUS
<1>2. /\ RowsTyped /\ NotBegun /\ FirstSightings /\ CountsWithin /\ RevisionsNumbered
  BY DEF DiscoveryInvariant
<1>3. /\ t.call \in {"candidate", "revision", "status"} /\ CommitCall(s) /\ ~Conflict(t)
      /\ SaveCandidates(t) /\ enabled' = enabled
      /\ runs' = runs /\ document' = document /\ observation' = observation
  BY <1>1 DEF CommitCandidate, CommitCall, documents
<1>4. t \in Transactions /\ RevisionsSound(t)
  BY <1>1, TxnOf
<1>5. ~NumberTaken(t) /\ ~HashTaken(t)
  BY <1>3 DEF Conflict
<1>6. \A v \in t.revisions : document'[v.document] # NoDocument
  <2>1. ASSUME NEW v \in t.revisions PROVE document[v.document] # NoDocument
    <3>1. t.call = "revision" /\ t.saw = Nothing
      BY <1>3, <1>4 DEF RevisionsSound
    <3>2. v.document \in Documents
      BY <1>4 DEF Transactions, Revision
    <3> QED
      BY <1>4, <3>1, <3>2, ClassNames DEF RevisionsSound
  <2> QED
    BY <1>3, <2>1
<1>7. /\ candidate' \in [Urls -> CandidateStatuses \cup {"none"}]
      /\ revisions' \subseteq Revision /\ IsFiniteSet(revisions')
      /\ revisions \subseteq revisions'
      /\ \A u \in Urls : candidate[u] # "none" => candidate'[u] # "none"
      /\ RevisionsNumbered'
  BY <1>2, <1>3, <1>4, <1>5, <1>6, CandidatesCommitted
<1>8. RowsTyped' /\ NotBegun' /\ FirstSightings'
  <2>1. RowsTyped'
    BY <1>2, <1>3, <1>7 DEF RowsTyped
  <2>2. NotBegun' /\ FirstSightings'
    BY <1>2, <1>3 DEF NotBegun, FirstSightings
  <2> QED
    BY <2>1, <2>2
<1>9. \A x \in SourceRuns : /\ Observed(x)' = Observed(x)
                            /\ \A c \in Classes : SeenAs(x, c)' = SeenAs(x, c)
  BY <1>3 DEF Observed, SeenAs
<1>10. CountsWithin'
  BY <1>2, <1>3, <1>9, RunsApart DEF CountsWithin
<1>11. /\ TxnsTyped' /\ \A z \in Writers : txn'[z] \in {txn[z], NoTxn}
  BY <1>3, CommittedTxn
<1>12. OwnRuns' /\ \A z \in Writers : TxnSound(z)'
  <2>1. /\ \A x \in SourceRuns : Observed(x) \subseteq Observed(x)'
        /\ \A x \in SourceRuns, c \in Classes : SeenAs(x, c) \subseteq SeenAs(x, c)'
    BY <1>9
  <2> QED
    BY <1>3, <1>7, <1>11, <2>1, SessionsKept
<1> QED
  BY <1>7, <1>8, <1>10, <1>11, <1>12 DEF DiscoveryInvariant

\* A worker's run appears with all it observed: its counters are exact.
LEMMA CommitDiscoveryKeeps ==
    ASSUME DiscoveryInvariant, NEW s \in Workers, NEW status \in {"SUCCEEDED", "PARTIAL"},
           CommitDiscovery(s, status)
    PROVE  DiscoveryInvariant'
<1>1. PICK t : t = txn[s]
  OBVIOUS
<1>2. /\ RowsTyped /\ NotBegun /\ FirstSightings /\ CountsWithin /\ RevisionsNumbered
      /\ s \in Writers
  BY DEF DiscoveryInvariant, Writers
<1>3. /\ t.call = "discover" /\ CommitCall(s) /\ SaveDocuments(t) /\ SaveCandidates(t)
      /\ ~Conflict(t) /\ runs' = [runs EXCEPT ![t.run] = [t.row EXCEPT !.status = status]]
      /\ enabled' = enabled
  BY <1>1 DEF CommitDiscovery, CommitCall
<1>4. /\ t \in Transactions /\ SawSound(t) /\ RunSound(t) /\ RevisionsSound(t)
      /\ t.run \in CrawlRuns => \A z \in Writers : z # s => txn[z].run # t.run
  BY <1>1, <1>2, TxnOf
<1>5. PICK r : r = t.run
  OBVIOUS
<1>6. /\ r \in CrawlRuns /\ r \in SourceRuns /\ runs[r].status = "none"
      /\ t.row.discovered = Cardinality(ObservedBy(t))
      /\ \A c \in Classes : t.row.count[c] = Cardinality(SeenBy(t, c))
  BY <1>3, <1>4, <1>5, RunsApart DEF RunSound
<1>7. runs \in [SourceRuns -> RunRecord(Statuses)]
  BY <1>2 DEF RowsTyped
<1>8. ~VersionTaken(t) /\ ~ObservationTaken(t) /\ ~NumberTaken(t) /\ ~HashTaken(t)
  BY <1>3 DEF Conflict
<1>9. /\ document' \in [Documents -> [first : SourceRuns \cup {"none"}, latest : SourceRuns \cup {"none"}]]
      /\ observation' \in [SourceRuns -> Sightings] /\ FirstSightings'
      /\ \A e \in Documents : document[e] # NoDocument => document'[e] # NoDocument
      /\ \A e \in Documents : t.saw[e] # "none" =>
             document'[e] # NoDocument /\ observation[t.run][e] = "none"
      /\ \A x \in SourceRuns, e \in Documents : observation'[x][e] =
                IF x = t.run /\ t.saw[e] # "none" THEN t.saw[e] ELSE observation[x][e]
  BY <1>2, <1>3, <1>4, <1>5, <1>6, <1>8, DocumentsCommitted
<1>10. /\ Observed(r)' = Observed(r) \cup ObservedBy(t)
       /\ \A c \in Classes : SeenAs(r, c)' = SeenAs(r, c) \cup SeenBy(t, c)
       /\ \A x \in SourceRuns : x # r =>
             Observed(x)' = Observed(x) /\ \A c \in Classes : SeenAs(x, c)' = SeenAs(x, c)
       /\ \A x \in SourceRuns : Observed(x) \subseteq Observed(x)'
       /\ \A x \in SourceRuns, c \in Classes : SeenAs(x, c) \subseteq SeenAs(x, c)'
  BY <1>4, <1>5, <1>6, <1>9, ObservedCommitted
<1>11. Observed(r) = {} /\ \A c \in Classes : SeenAs(r, c) = {}
  BY <1>2, <1>6, ClassNames DEF NotBegun, Observed, SeenAs
<1>12. Observed(r)' = ObservedBy(t) /\ \A c \in Classes : SeenAs(r, c)' = SeenBy(t, c)
  BY <1>10, <1>11
<1>13. \A v \in t.revisions : document'[v.document] # NoDocument
  <2>1. \A v \in t.revisions : v.document \in Documents
    BY <1>4 DEF Transactions, Revision
  <2> QED
    BY <1>4, <1>9, <2>1 DEF RevisionsSound
<1>14. /\ candidate' \in [Urls -> CandidateStatuses \cup {"none"}]
       /\ revisions' \subseteq Revision /\ IsFiniteSet(revisions')
       /\ revisions \subseteq revisions'
       /\ \A u \in Urls : candidate[u] # "none" => candidate'[u] # "none"
       /\ RevisionsNumbered'
  BY <1>2, <1>3, <1>4, <1>8, <1>9, <1>13, CandidatesCommitted
<1>15. \A x \in SourceRuns : x # r => runs'[x] = runs[x]
  BY <1>3, <1>5, <1>7
<1>16. runs'[r] = [t.row EXCEPT !.status = status] /\ t.row \in RunRecord(Statuses)
  BY <1>3, <1>4, <1>5, <1>6, <1>7 DEF Transactions
<1>17. /\ runs'[r] \in RunRecord(Statuses) /\ runs'[r].discovered = t.row.discovered
       /\ runs'[r].count = t.row.count /\ runs'[r].status = status
  BY <1>16 DEF RunRecord, Statuses, Ended
<1>18. runs' \in [SourceRuns -> RunRecord(Statuses)]
  <2>1. runs' = [x \in SourceRuns |-> runs'[x]]
    BY <1>3, <1>7
  <2>2. \A x \in SourceRuns : runs'[x] \in RunRecord(Statuses)
    BY <1>7, <1>15, <1>17
  <2> QED
    BY <2>1, <2>2
<1>19. RowsTyped'
  BY <1>2, <1>3, <1>9, <1>14, <1>18 DEF RowsTyped
<1>20. NotBegun'
  <2>1. ASSUME NEW x \in SourceRuns, runs'[x].status = "none" PROVE observation'[x] = Nothing
    <3>1. x # r /\ runs[x].status = "none"
      BY <1>15, <1>17, <2>1
    <3>2. observation'[x] = observation[x]
      BY <1>2, <1>3, <1>5, <1>6, <3>1 DEF SaveDocuments, RowsTyped
    <3> QED
      BY <1>2, <3>1, <3>2 DEF NotBegun
  <2> QED
    BY <2>1 DEF NotBegun
<1>21. CountsWithin'
  <2>1. IsFiniteSet(ObservedBy(t)) /\ \A c \in Classes : IsFiniteSet(SeenBy(t, c))
    <3>1. ObservedBy(t) \subseteq Documents /\ \A c \in Classes : SeenBy(t, c) \subseteq Documents
      BY DEF ObservedBy, SeenBy
    <3> QED
      BY <3>1, DocumentsFinite
  <2>2. /\ Cardinality(ObservedBy(t)) \in Nat
        /\ Cardinality(ObservedBy(t)) = 0 <=> ObservedBy(t) = {}
        /\ \A c \in Classes : /\ Cardinality(SeenBy(t, c)) \in Nat
                              /\ Cardinality(SeenBy(t, c)) = 0 <=> SeenBy(t, c) = {}
    BY <2>1, FS_EmptySet, FS_CardinalityType
  <2>3. /\ runs'[r].discovered = Cardinality(Observed(r)')
        /\ runs'[r].discovered \in Nat
        /\ runs'[r].discovered = 0 <=> Observed(r)' = {}
        /\ \A c \in Classes :
              /\ runs'[r].count[c] = Cardinality(SeenAs(r, c)')
              /\ runs'[r].count[c] \in Nat
              /\ runs'[r].count[c] = 0 <=> SeenAs(r, c)' = {}
    BY <1>6, <1>12, <1>17, <2>2
  <2>4. ASSUME NEW x \in SourceRuns
        PROVE  /\ runs'[x].discovered <= Cardinality(Observed(x)')
               /\ runs'[x].discovered = 0 <=> Observed(x)' = {}
               /\ \A c \in Classes :
                     /\ runs'[x].count[c] <= Cardinality(SeenAs(x, c)')
                     /\ runs'[x].count[c] = 0 <=> SeenAs(x, c)' = {}
    <3>1. CASE x # r
      BY <1>2, <1>10, <1>15, <3>1 DEF CountsWithin
    <3>2. CASE x = r
      <4>1. /\ runs'[r].discovered <= Cardinality(Observed(r)')
            /\ \A c \in Classes : runs'[r].count[c] <= Cardinality(SeenAs(r, c)')
        <5>1. runs'[r].discovered <= Cardinality(Observed(r)')
          BY <2>3
        <5>2. ASSUME NEW c \in Classes PROVE runs'[r].count[c] <= Cardinality(SeenAs(r, c)')
          <6>1. PICK n \in Nat : n = runs'[r].count[c] /\ n = Cardinality(SeenAs(r, c)')
            BY <2>3
          <6> QED
            BY <6>1
        <5> QED
          BY <5>1, <5>2
      <4>2. Observed(x)' = Observed(r)' /\ \A c \in Classes : SeenAs(x, c)' = SeenAs(r, c)'
        BY <3>2
      <4> QED
        BY <2>3, <3>2, <4>1, <4>2
    <3> QED
      BY <3>1, <3>2
  <2>5. ASSUME NEW x \in CrawlRuns
        PROVE  /\ runs'[x].status \in {"none", "SUCCEEDED", "PARTIAL"}
               /\ runs'[x].discovered = Cardinality(Observed(x)')
               /\ \A c \in Classes : runs'[x].count[c] = Cardinality(SeenAs(x, c)')
    <3>1. x \in SourceRuns
      BY RunsApart
    <3>2. CASE x # r
      BY <1>2, <1>10, <1>15, <3>1, <3>2 DEF CountsWithin
    <3>3. CASE x = r
      BY <1>17, <2>3, <3>3
    <3> QED
      BY <3>2, <3>3
  <2> QED
    BY <2>4, <2>5 DEF CountsWithin
<1>22. /\ TxnsTyped' /\ \A z \in Writers : txn'[z] \in {txn[z], NoTxn}
       /\ \A z \in Writers : txn'[z].run \in CrawlRuns => txn'[z] = txn[z] /\ z # s
  BY <1>2, <1>3, CommittedTxn
<1>23. \A z \in Writers : txn'[z].run \in CrawlRuns =>
           runs'[txn'[z].run].status = runs[txn'[z].run].status
  BY <1>4, <1>5, <1>6, <1>15, <1>22, RunsApart
<1>24. \A x \in SourceRuns : runs[x].status # "none" => runs'[x].status # "none"
  BY <1>15, <1>17
<1>25. OwnRuns' /\ \A z \in Writers : TxnSound(z)'
  BY <1>9, <1>10, <1>14, <1>22, <1>23, <1>24, SessionsKept
<1> QED
  BY <1>9, <1>14, <1>19, <1>20, <1>21, <1>22, <1>25 DEF DiscoveryInvariant

LEMMA CreateRunKeeps ==
    ASSUME DiscoveryInvariant, NEW r \in ApiRuns, CreateDiscovery(r)
    PROVE  DiscoveryInvariant'
<1>1. /\ RowsTyped /\ NotBegun /\ FirstSightings /\ CountsWithin /\ RevisionsNumbered
      /\ TxnsTyped
  BY DEF DiscoveryInvariant
<1>2. /\ runs[r].status = "none" /\ runs' = [runs EXCEPT ![r] = Row("RUNNING")]
      /\ enabled' = enabled /\ document' = document /\ observation' = observation
      /\ candidate' = candidate /\ revisions' = revisions /\ txn' = txn
  BY DEF CreateDiscovery, candidates
<1>3. r \in SourceRuns /\ r \notin CrawlRuns
  BY RunsApart
<1>4. runs \in [SourceRuns -> RunRecord(Statuses)]
  BY <1>1 DEF RowsTyped
<1>5. \A x \in SourceRuns : x # r => runs'[x] = runs[x]
  BY <1>2, <1>4
<1>6. /\ runs'[r] = Row("RUNNING") /\ Row("RUNNING") \in RunRecord(Statuses)
      /\ Row("RUNNING").status = "RUNNING" /\ Row("RUNNING").discovered = 0
      /\ \A c \in Classes : Row("RUNNING").count[c] = 0
  <2>1. Row("RUNNING") \in RunRecord(Statuses)
    BY RowTyped DEF Statuses
  <2>2. /\ Row("RUNNING").status = "RUNNING" /\ Row("RUNNING").discovered = 0
        /\ \A c \in Classes : Row("RUNNING").count[c] = 0
    BY DEF Row
  <2> QED
    BY <1>2, <1>3, <1>4, <2>1, <2>2
<1>7. runs' \in [SourceRuns -> RunRecord(Statuses)]
  BY <1>2, <1>4, <1>6
<1>8. RowsTyped'
  BY <1>1, <1>2, <1>7 DEF RowsTyped
<1>9. NotBegun' /\ FirstSightings' /\ RevisionsNumbered'
  <2>1. NotBegun'
    BY <1>1, <1>2, <1>5, <1>6 DEF NotBegun
  <2>2. FirstSightings'
    BY <1>1, <1>2 DEF FirstSightings
  <2>3. RevisionsNumbered'
    BY <1>1, <1>2 DEF RevisionsNumbered
  <2> QED
    BY <2>1, <2>2, <2>3
<1>10. \A x \in SourceRuns : /\ Observed(x)' = Observed(x)
                             /\ \A c \in Classes : SeenAs(x, c)' = SeenAs(x, c)
  BY <1>2 DEF Observed, SeenAs
<1>11. /\ Observed(r) = {} /\ \A c \in Classes : SeenAs(r, c) = {}
       /\ Cardinality({}) = 0
  BY <1>1, <1>2, <1>3, ClassNames, FS_EmptySet DEF NotBegun, Observed, SeenAs
<1>12. CountsWithin'
  <2>1. ASSUME NEW x \in SourceRuns
        PROVE  /\ runs'[x].discovered <= Cardinality(Observed(x)')
               /\ runs'[x].discovered = 0 <=> Observed(x)' = {}
               /\ \A c \in Classes :
                     /\ runs'[x].count[c] <= Cardinality(SeenAs(x, c)')
                     /\ runs'[x].count[c] = 0 <=> SeenAs(x, c)' = {}
    <3>1. CASE x # r
      BY <1>1, <1>5, <1>10, <3>1 DEF CountsWithin
    <3>2. CASE x = r
      <4>1. /\ runs'[r].discovered = 0 /\ Cardinality(Observed(r)') = 0 /\ Observed(r)' = {}
            /\ \A c \in Classes :
                  runs'[r].count[c] = 0 /\ Cardinality(SeenAs(r, c)') = 0 /\ SeenAs(r, c)' = {}
        BY <1>3, <1>6, <1>10, <1>11
      <4> QED
        BY <3>2, <4>1
    <3> QED
      BY <3>1, <3>2
  <2>2. ASSUME NEW x \in CrawlRuns
        PROVE  /\ runs'[x].status \in {"none", "SUCCEEDED", "PARTIAL"}
               /\ runs'[x].discovered = Cardinality(Observed(x)')
               /\ \A c \in Classes : runs'[x].count[c] = Cardinality(SeenAs(x, c)')
    <3>1. x \in SourceRuns /\ x # r
      BY <1>3, RunsApart
    <3> QED
      BY <1>1, <1>5, <1>10, <3>1 DEF CountsWithin
  <2> QED
    BY <2>1, <2>2 DEF CountsWithin
<1>13. /\ TxnsTyped' /\ \A z \in Writers : txn'[z] \in {txn[z], NoTxn}
       /\ \A z \in Writers : txn'[z].run \in CrawlRuns =>
             runs'[txn'[z].run].status = runs[txn'[z].run].status
  <2>1. TxnsTyped'
    BY <1>1, <1>2 DEF TxnsTyped
  <2>2. \A x \in CrawlRuns : runs'[x] = runs[x]
    BY <1>3, <1>5, RunsApart
  <2> QED
    BY <1>2, <2>1, <2>2
<1>14. \A x \in SourceRuns : runs[x].status # "none" => runs'[x].status # "none"
  BY <1>5, <1>6
<1>15. OwnRuns' /\ \A z \in Writers : TxnSound(z)'
  <2>1. /\ \A x \in SourceRuns : Observed(x) \subseteq Observed(x)'
        /\ \A x \in SourceRuns, c \in Classes : SeenAs(x, c) \subseteq SeenAs(x, c)'
    BY <1>10
  <2> QED
    BY <1>2, <1>13, <1>14, <2>1, SessionsKept
<1> QED
  BY <1>8, <1>9, <1>12, <1>13, <1>15 DEF DiscoveryInvariant

\* The registry, and steps of other components.
LEMMA RowsUnchangedKeep ==
    ASSUME DiscoveryInvariant, enabled' \in BOOLEAN,
           UNCHANGED <<documents, candidates, txn>>
    PROVE  DiscoveryInvariant'
<1>1. /\ RowsTyped /\ NotBegun /\ FirstSightings /\ CountsWithin /\ RevisionsNumbered
      /\ TxnsTyped /\ OwnRuns /\ txn' = txn /\ UNCHANGED <<documents, candidates>>
  BY DEF DiscoveryInvariant
<1>2. RowsTyped' /\ NotBegun' /\ FirstSightings' /\ CountsWithin' /\ RevisionsNumbered'
  BY <1>1, SoundRowsKept
<1>3. TxnsTyped' /\ OwnRuns'
  BY <1>1 DEF TxnsTyped, OwnRuns
<1>4. ASSUME NEW z \in Writers PROVE TxnSound(z)'
  <2>1. PICK t : t = txn[z]
    OBVIOUS
  <2> QED
    BY <1>1, <2>1, TxnOf, SoundTxn
<1> QED
  BY <1>2, <1>3, <1>4 DEF DiscoveryInvariant

----------------------------------------------------------------------------
(* The theorems. *)

LEMMA DiscoveryBegins == DiscoveryInit => DiscoveryInvariant
<1> SUFFICES ASSUME DiscoveryInit PROVE DiscoveryInvariant
  OBVIOUS
<1>1. /\ enabled = TRUE /\ runs = [r \in SourceRuns |-> Row("none")]
      /\ document = [d \in Documents |-> NoDocument] /\ observation = [r \in SourceRuns |-> Nothing]
      /\ candidate = [u \in Urls |-> "none"] /\ revisions = {}
      /\ txn = [s \in Writers |-> NoTxn]
  BY DEF DiscoveryInit
<1>2. RowsTyped
  <2>1. Row("none") \in RunRecord(Statuses)
    BY RowTyped DEF Statuses
  <2>2. Nothing \in Sightings
    BY DEF Nothing, Sightings
  <2>3. NoDocument \in [first : SourceRuns \cup {"none"}, latest : SourceRuns \cup {"none"}]
    BY DEF NoDocument
  <2> HIDE DEF Row
  <2> QED
    BY <1>1, <2>1, <2>2, <2>3, FS_EmptySet DEF RowsTyped
<1>3. NotBegun
  BY <1>1 DEF NotBegun
<1>4. FirstSightings
  <2>1. \A d \in Documents : document[d] = NoDocument /\ document[d].first = "none"
    BY <1>1 DEF NoDocument
  <2>2. \A r \in SourceRuns, d \in Documents : observation[r][d] = "none" /\ r # "none"
    BY <1>1, ClassNames, RunsApart DEF SourceRuns
  <2> QED
    BY <2>1, <2>2 DEF FirstSightings
<1>5. CountsWithin
  <2>1. \A r \in SourceRuns : Observed(r) = {} /\ \A c \in Classes : SeenAs(r, c) = {}
    BY <1>1, ClassNames DEF Observed, SeenAs
  <2>2. \A r \in SourceRuns : runs[r].status = "none" /\ runs[r].discovered = 0
                              /\ \A c \in Classes : runs[r].count[c] = 0
    BY <1>1 DEF Row
  <2>3. \A r \in SourceRuns : Cardinality(Observed(r)) = 0
                              /\ \A c \in Classes : Cardinality(SeenAs(r, c)) = 0
    BY <2>1, FS_EmptySet, Zenon
  <2>4. \A r \in CrawlRuns : r \in SourceRuns
    BY RunsApart
  <2> QED
    BY <2>1, <2>2, <2>3, <2>4 DEF CountsWithin
<1>6. RevisionsNumbered
  BY <1>1 DEF RevisionsNumbered
<1>7. TxnsTyped /\ OwnRuns
  <2>1. NoTxn.run \notin CrawlRuns
    BY RunsApart DEF NoTxn, Transaction
  <2> QED
    BY <1>1, <2>1, NoTxnSound DEF TxnsTyped, OwnRuns
<1>8. \A s \in Writers : TxnSound(s)
  BY <1>1, NoTxnSound DEF TxnSound
<1> QED
  BY <1>2, <1>3, <1>4, <1>5, <1>6, <1>7, <1>8 DEF DiscoveryInvariant

LEMMA DiscoveryStep ==
    DiscoveryInvariant /\ [DiscoveryNext]_discoveryVars => DiscoveryInvariant'
<1> SUFFICES ASSUME DiscoveryInvariant, [DiscoveryNext]_discoveryVars
             PROVE  DiscoveryInvariant'
  OBVIOUS
<1>1. Clients \subseteq Writers /\ Workers \subseteq Writers
  BY DEF Writers
<1>2. CASE UpdateRegistry
  BY <1>2, RowsUnchangedKeep DEF UpdateRegistry
<1>3. ASSUME NEW r \in ApiRuns, CreateDiscovery(r) PROVE DiscoveryInvariant'
  BY <1>3, CreateRunKeeps
<1>4. ASSUME NEW s \in Clients,
             \/ \E r \in ApiRuns, d \in Documents : BeginObserve(s, r, d)
             \/ \E r \in ApiRuns, status \in Ended : BeginCompletion(s, r, status)
             \/ \E u \in Urls : BeginCandidate(s, u)
             \/ \E u \in Urls, d \in Documents, fields \in FieldSets :
                   BeginRevision(s, u, d, fields)
             \/ \E u \in Urls, status \in CandidateStatuses : BeginStatus(s, u, status)
      PROVE  DiscoveryInvariant'
  BY <1>4, BeginObserveKeeps, BeginCompleteKeeps, BeginCandidateKeeps,
     BeginRevisionKeeps, BeginStatusKeeps
<1>5. ASSUME NEW s \in Workers,
             \/ \E r \in CrawlRuns, listing \in SUBSET Documents :
                   \E notices \in SUBSET listing : BeginDiscovery(s, r, listing, notices)
             \/ RecordNext(s) \/ ExtractNext(s)
             \/ \E status \in {"SUCCEEDED", "PARTIAL"} : CommitDiscovery(s, status)
      PROVE  DiscoveryInvariant'
  BY <1>5, BeginDiscoveryKeeps, RecordNextKeeps, ExtractNextKeeps, CommitDiscoveryKeeps
<1>6. ASSUME NEW s \in Writers,
             CommitObserve(s) \/ CommitCompletion(s) \/ CommitCandidate(s) \/ Rollback(s)
      PROVE  DiscoveryInvariant'
  BY <1>6, CommitObserveKeeps, CommitCompleteKeeps, CommitCandidateKeeps, RollbackKeeps
<1>7. CASE UNCHANGED discoveryVars
  <2>1. UNCHANGED <<documents, candidates, txn>> /\ enabled' = enabled
    BY <1>7 DEF discoveryVars
  <2>2. enabled' \in BOOLEAN
    BY <2>1 DEF DiscoveryInvariant, RowsTyped
  <2> QED
    BY <2>1, <2>2, RowsUnchangedKeep
<1> QED
  BY <1>2, <1>3, <1>4, <1>5, <1>6, <1>7 DEF DiscoveryNext

\* The inductive invariant: the committed rows agree with one another, and
\* every open transaction of a session would still leave them so if it met no
\* unique key at its commit.
THEOREM DiscoveryInvariantHolds == DiscoverySpec => []DiscoveryInvariant
<1>1. DiscoveryInit => DiscoveryInvariant
  BY DiscoveryBegins
<1>2. DiscoveryInvariant /\ [DiscoveryNext]_discoveryVars => DiscoveryInvariant'
  BY DiscoveryStep
<1> QED
  BY <1>1, <1>2, PTL DEF DiscoverySpec

\* Every row and every transaction of the source's history is of its type.
THEOREM DiscoveryTypeHolds == DiscoverySpec => []DiscoveryTypeOK
<1>1. DiscoveryInvariant => DiscoveryTypeOK
  BY DEF DiscoveryInvariant, RowsTyped, TxnsTyped, DiscoveryTypeOK, Transactions, Sightings,
     Statuses, Calls
<1> QED
  BY <1>1, DiscoveryInvariantHolds, PTL

\* However the sessions of the API and of the workers overlap, one run saw each
\* version of a document first, no counter of a run exceeds what it observed
\* and those of a worker's run are exact, and the revisions of a candidate are
\* numbered without a gap, each of another document.
THEOREM DiscoverySoundHolds == DiscoverySpec => []DiscoverySound
<1>1. DiscoveryInvariant => DiscoverySound
  BY DEF DiscoveryInvariant, DiscoverySound
<1> QED
  BY <1>1, DiscoveryInvariantHolds, PTL

----------------------------------------------------------------------------
(* What was recorded stays. *)

Recorded ==
    /\ revisions \subseteq revisions'
    /\ \A d \in Documents : document[d] # NoDocument => document'[d].first = document[d].first
    /\ \A r \in SourceRuns, d \in Documents :
          observation[r][d] # "none" => observation'[r][d] = observation[r][d]
    /\ \A r \in SourceRuns : runs[r].status \in Ended => runs'[r].status \in Ended

LEMMA DocumentsRecorded ==
    ASSUME RowsTyped, NEW t \in Transactions, SawSound(t), t.run \in SourceRuns,
           ~VersionTaken(t), ~ObservationTaken(t), SaveDocuments(t)
    PROVE  /\ \A d \in Documents :
                 document[d] # NoDocument => document'[d].first = document[d].first
           /\ \A r \in SourceRuns, d \in Documents :
                 observation[r][d] # "none" => observation'[r][d] = observation[r][d]
<1>1. ASSUME NEW d \in Documents, document[d] # NoDocument
      PROVE  document'[d].first = document[d].first
  <2>1. CASE t.saw[d] = "none"
    <3>1. document'[d] = document[d]
      BY <2>1 DEF SaveDocuments
    <3> QED
      BY <3>1
  <2>2. CASE t.saw[d] # "none"
    <3>1. d \in t.found
      BY <1>1, <2>2 DEF VersionTaken
    <3>2. document'[d] = [first |-> document[d].first, latest |-> t.run]
      BY <2>2, <3>1 DEF SaveDocuments
    <3> QED
      BY <3>2
  <2> QED
    BY <2>1, <2>2
<1>2. ASSUME NEW r \in SourceRuns, NEW d \in Documents, observation[r][d] # "none"
      PROVE  observation'[r][d] = observation[r][d]
  <2>1. r = t.run => t.saw[d] = "none"
    BY <1>2 DEF ObservationTaken
  <2>2. observation \in [SourceRuns -> Sightings]
    BY DEF RowsTyped
  <2> QED
    BY <2>1, <2>2 DEF SaveDocuments
<1> QED
  BY <1>1, <1>2

LEMMA StepRecords ==
    DiscoveryInvariant /\ [DiscoveryNext]_discoveryVars => [Recorded]_discoveryVars
<1> SUFFICES ASSUME DiscoveryInvariant, DiscoveryNext PROVE Recorded
  OBVIOUS
<1>1. RowsTyped /\ Clients \subseteq Writers /\ Workers \subseteq Writers
  BY DEF DiscoveryInvariant, Writers
<1>2. ASSUME UNCHANGED <<documents, candidates>> PROVE Recorded
  BY <1>2 DEF documents, candidates, Recorded
<1>3. CASE UpdateRegistry
  BY <1>2, <1>3 DEF UpdateRegistry
<1>4. ASSUME NEW r \in ApiRuns, CreateDiscovery(r) PROVE Recorded
  <2>1. \A x \in SourceRuns : runs'[x].status = runs[x].status \/ runs[x].status = "none"
    BY <1>1, <1>4 DEF CreateDiscovery, RowsTyped
  <2> QED
    BY <1>4, <2>1 DEF CreateDiscovery, candidates, Recorded, Ended
<1>5. ASSUME NEW s \in Clients,
             \/ \E r \in ApiRuns, d \in Documents : BeginObserve(s, r, d)
             \/ \E r \in ApiRuns, status \in Ended : BeginCompletion(s, r, status)
             \/ \E u \in Urls : BeginCandidate(s, u)
             \/ \E u \in Urls, d \in Documents, fields \in FieldSets :
                   BeginRevision(s, u, d, fields)
             \/ \E u \in Urls, status \in CandidateStatuses : BeginStatus(s, u, status)
      PROVE  Recorded
  <2>1. UNCHANGED <<documents, candidates>>
    BY <1>5 DEF BeginObserve, BeginCompletion, BeginCandidate, BeginRevision, BeginStatus, BeginCall
  <2> QED
    BY <1>2, <2>1
<1>6. ASSUME NEW s \in Workers,
             \/ \E r \in CrawlRuns, listing \in SUBSET Documents :
                   \E notices \in SUBSET listing : BeginDiscovery(s, r, listing, notices)
             \/ RecordNext(s) \/ ExtractNext(s)
      PROVE  Recorded
  <2>1. UNCHANGED <<documents, candidates>>
    BY <1>6 DEF BeginDiscovery, RecordNext, ExtractNext, BeginCall
  <2> QED
    BY <1>2, <2>1
<1>7. ASSUME NEW s \in Writers, Rollback(s) PROVE Recorded
  BY <1>2, <1>7 DEF Rollback
<1>8. ASSUME NEW s \in Writers, CommitObserve(s) PROVE Recorded
  <2>1. PICK t : t = txn[s]
    OBVIOUS
  <2>2. t \in Transactions /\ SawSound(t) /\ RunSound(t)
    BY <2>1, TxnOf
  <2>3. t.call = "observe" /\ ~Conflict(t) /\ SaveDocuments(t) /\ revisions' = revisions
    BY <1>8, <2>1 DEF CommitObserve, CommitCall, candidates
  <2>4. t.run \in SourceRuns
    BY <2>2, <2>3, RunsApart DEF RunSound
  <2>5. \A x \in SourceRuns : runs'[x].status = runs[x].status
    BY <1>1, <1>8 DEF CommitObserve, RowsTyped, RunRecord
  <2>6. ~VersionTaken(t) /\ ~ObservationTaken(t)
    BY <2>3 DEF Conflict
  <2> QED
    BY <1>1, <2>2, <2>3, <2>4, <2>5, <2>6, DocumentsRecorded DEF Recorded
<1>9. ASSUME NEW s \in Writers, CommitCompletion(s) PROVE Recorded
  <2>1. PICK t : t = txn[s]
    OBVIOUS
  <2>2. t.call = "complete" /\ runs' = [runs EXCEPT ![t.run].status = t.target]
    BY <1>9, <2>1 DEF CommitCompletion
  <2>3. t.target \in Ended
    BY <2>1, <2>2, TxnOf DEF RunSound
  <2>4. \A x \in SourceRuns : runs'[x].status \in {runs[x].status, t.target}
    BY <1>1, <2>2 DEF RowsTyped, RunRecord
  <2> QED
    BY <1>9, <2>3, <2>4 DEF CommitCompletion, candidates, Recorded
<1>10. ASSUME NEW s \in Writers, CommitCandidate(s) PROVE Recorded
  BY <1>10 DEF CommitCandidate, SaveCandidates, documents, Recorded
<1>11. ASSUME NEW s \in Workers, NEW status \in {"SUCCEEDED", "PARTIAL"},
              CommitDiscovery(s, status)
       PROVE  Recorded
  <2>1. PICK t : t = txn[s]
    OBVIOUS
  <2>2. t \in Transactions /\ SawSound(t) /\ RunSound(t)
    BY <1>1, <2>1, TxnOf
  <2>3. /\ t.call = "discover" /\ ~Conflict(t) /\ SaveDocuments(t) /\ SaveCandidates(t)
        /\ runs' = [runs EXCEPT ![t.run] = [t.row EXCEPT !.status = status]]
    BY <1>11, <2>1 DEF CommitDiscovery, CommitCall
  <2>4. t.run \in SourceRuns /\ t.row \in RunRecord(Statuses)
    BY <2>2, <2>3, RunsApart DEF RunSound, Transactions
  <2>5. [t.row EXCEPT !.status = status].status = status
    BY <2>4 DEF RunRecord
  <2>6. \A x \in SourceRuns : runs'[x].status \in {runs[x].status, status}
    BY <1>1, <2>3, <2>5 DEF RowsTyped
  <2>7. ~VersionTaken(t) /\ ~ObservationTaken(t) /\ revisions' = revisions \cup t.revisions
    BY <2>3 DEF Conflict, SaveCandidates
  <2>8. status \in Ended
    BY DEF Ended
  <2> QED
    BY <1>1, <2>2, <2>3, <2>4, <2>6, <2>7, <2>8, DocumentsRecorded DEF Recorded
<1> QED
  BY <1>3, <1>4, <1>5, <1>6, <1>7, <1>8, <1>9, <1>10, <1>11 DEF DiscoveryNext

\* Revisions and observations are immutable, the run that saw a version first
\* stays named, and a run that is over is never opened again.
THEOREM SourceHistoryIsKept == DiscoverySpec => HistoryKept
<1>1. DiscoveryInvariant /\ [DiscoveryNext]_discoveryVars => [Recorded]_discoveryVars
  BY StepRecords
<1> QED
  BY <1>1, DiscoveryInvariantHolds, PTL DEF DiscoverySpec, HistoryKept, Recorded
=============================================================================
