---------------------------- MODULE ServiceProofs ----------------------------
(***************************************************************************)
(* Proofs about the smaller services that MCServices runs side by side,    *)
(* each for any value of its constants: the window table of the public     *)
(* side, eligibility, confidence scoring, the crawl of a source, public    *)
(* listings and the facts of Posts.                                        *)
(***************************************************************************)
EXTENDS ConfidenceScoring, Eligibility, Services, PolicyProofs, FiniteSetTheorems,
        WellFoundedInduction, TLAPS

\* The least of two numbers.
LEMMA MinOfTwo ==
    ASSUME NEW a \in Nat, NEW b \in Nat
    PROVE  Min({a, b}) = IF a <= b THEN a ELSE b
<1> DEFINE m == IF a <= b THEN a ELSE b
<1>1. m \in {a, b} /\ \A y \in {a, b} : m =< y
  OBVIOUS
<1>2. \A x \in {a, b} : (\A y \in {a, b} : x =< y) => x = m
  OBVIOUS
<1> QED
  BY <1>1, <1>2 DEF Min

----------------------------------------------------------------------------
(* The public gate.                                                        *)

Keys == PublicClients \cup {Overflow}
Windows == [age : 0..Window, count : 1..(MaxRequests + 1)]

\* The table holds windows, and is finite.
TableOK ==
    /\ bucket = [k \in DOMAIN bucket |-> bucket[k]]
    /\ DOMAIN bucket \subseteq Keys /\ IsFiniteSet(DOMAIN bucket)
    /\ \A k \in DOMAIN bucket : bucket[k] \in Windows

LEMMA AgeGrows ==
    ASSUME NEW n \in 0..Window
    PROVE  Min({n + 1, Window}) \in 0..Window /\ Min({n + 1, Window}) >= n
BY MinOfTwo, GateAssumption

LEMMA CountGrows ==
    ASSUME NEW n \in 1..(MaxRequests + 1)
    PROVE  Capped(n + 1) \in 1..(MaxRequests + 1) /\ Capped(n + 1) >= n
<1>1. n + 1 \in Nat /\ MaxRequests + 1 \in Nat
  BY GateAssumption
<1>2. Capped(n + 1) = IF n + 1 <= MaxRequests + 1 THEN n + 1 ELSE MaxRequests + 1
  BY <1>1, MinOfTwo DEF Capped
<1> QED
  BY <1>2, GateAssumption

----------------------------------------------------------------------------
(* A request.                                                              *)

\* Only windows that have ended are forgotten.
LEMMA PrunedTable ==
    ASSUME TableOK, NEW c \in PublicClients
    PROVE  /\ DOMAIN Pruned(c) \subseteq DOMAIN bucket /\ IsFiniteSet(DOMAIN Pruned(c))
           /\ \A k \in DOMAIN Pruned(c) : Pruned(c)[k] = bucket[k]
           /\ \A k \in DOMAIN bucket : Lasting(k) => k \in DOMAIN Pruned(c)
<1>1. CASE Crowded(c)
  <2>1. Pruned(c) = [k \in {k \in DOMAIN bucket : Lasting(k)} |-> bucket[k]]
    BY <1>1 DEF Pruned, Restrict
  <2>2. DOMAIN Pruned(c) \subseteq DOMAIN bucket
    BY <2>1
  <2> QED
    BY <2>1, <2>2, FS_Subset DEF TableOK
<1>2. CASE ~Crowded(c)
  BY <1>2 DEF Pruned, TableOK
<1> QED
  BY <1>1, <1>2

\* What a request writes: one window that is begun or counted in.
LEMMA Counting ==
    ASSUME TableOK, NEW c \in PublicClients, Ask(c)
    PROVE  /\ Key(c) \in Keys
           /\ DOMAIN bucket' = DOMAIN Pruned(c) \cup {Key(c)}
           /\ bucket' = [k \in DOMAIN bucket' |-> bucket'[k]]
           /\ \A k \in DOMAIN Pruned(c) : k # Key(c) => bucket'[k] = bucket[k]
           /\ bucket'[Key(c)] \in Windows
           /\ Key(c) \in DOMAIN Pruned(c) /\ Lasting(Key(c)) =>
                 /\ bucket'[Key(c)].age = bucket[Key(c)].age
                 /\ bucket'[Key(c)].count >= bucket[Key(c)].count
<1> DEFINE table == Pruned(c)
           k == Key(c)
           counted == IF k \in DOMAIN table /\ table[k].age < Window
                      THEN [table[k] EXCEPT !.count = Capped(@ + 1)]
                      ELSE [age |-> 0, count |-> 1]
<1>1. k \in Keys
  BY DEF Key, Keys
<1>2. bucket' = [j \in DOMAIN table \cup {k} |-> IF j = k THEN counted ELSE table[j]]
  BY DEF Ask, CountedIn
<1>3. \A j \in DOMAIN table : j \in DOMAIN bucket /\ table[j] = bucket[j]
  BY PrunedTable
<1>4. CASE k \in DOMAIN table /\ table[k].age < Window
  <2>1. table[k] \in Windows /\ table[k] = bucket[k]
    BY <1>3, <1>4 DEF TableOK
  <2>2. /\ Capped(table[k].count + 1) \in 1..(MaxRequests + 1)
        /\ Capped(table[k].count + 1) >= table[k].count
    BY <2>1, CountGrows DEF Windows
  <2>3. counted = [table[k] EXCEPT !.count = Capped(table[k].count + 1)]
    BY <1>4
  <2>4. counted = [age |-> table[k].age, count |-> Capped(table[k].count + 1)]
    BY <2>1, <2>3 DEF Windows
  <2>5. counted \in Windows /\ counted.age = bucket[k].age /\ counted.count >= bucket[k].count
    BY <2>1, <2>2, <2>4 DEF Windows
  <2> QED
    BY <1>1, <1>2, <1>3, <2>5
<1>5. CASE ~(k \in DOMAIN table /\ table[k].age < Window)
  <2>1. counted \in Windows
    BY <1>5, GateAssumption DEF Windows
  <2> QED
    BY <1>1, <1>2, <1>3, <1>5, <2>1 DEF Lasting
<1> QED
  BY <1>4, <1>5

\* The table stays one of windows.
LEMMA TableKept ==
    ASSUME TableOK, [GateNext]_bucket
    PROVE  TableOK'
<1>1. CASE Tick
  <2>1. bucket' = [k \in DOMAIN bucket |-> [bucket[k] EXCEPT !.age = Min({@ + 1, Window})]]
    BY <1>1 DEF Tick
  <2>2. ASSUME NEW k \in DOMAIN bucket PROVE bucket'[k] \in Windows
    <3>1. bucket[k] \in Windows /\ bucket[k].age \in 0..Window
      BY DEF TableOK, Windows
    <3>2. Min({bucket[k].age + 1, Window}) \in 0..Window
      BY <3>1, AgeGrows
    <3> QED
      BY <2>1, <3>1, <3>2 DEF Windows
  <2> QED
    BY <2>1, <2>2 DEF TableOK
<1>2. CASE \E c \in PublicClients : Ask(c)
  <2>1. PICK c \in PublicClients : Ask(c)
    BY <1>2
  <2>2. IsFiniteSet(DOMAIN Pruned(c) \cup {Key(c)})
    BY PrunedTable, FS_AddElement
  <2> QED
    BY <2>1, <2>2, PrunedTable, Counting DEF TableOK
<1>3. CASE UNCHANGED bucket
  BY <1>3 DEF TableOK
<1> QED
  BY <1>1, <1>2, <1>3 DEF GateNext

\* public_security.py:62-73: the table outgrows its bound by the shared window
\* only.
LEMMA BoundKept ==
    ASSUME TableOK, GateBounded, [GateNext]_bucket
    PROVE  GateBounded'
<1>1. CASE Tick
  <2>1. DOMAIN bucket' = DOMAIN bucket
    BY <1>1 DEF Tick
  <2> QED
    BY <2>1 DEF GateBounded
<1>2. CASE \E c \in PublicClients : Ask(c)
  <2>1. PICK c \in PublicClients : Ask(c)
    BY <1>2
  <2> DEFINE D == DOMAIN Pruned(c)
  <2>2. /\ DOMAIN bucket' = D \cup {Key(c)} /\ IsFiniteSet(D)
        /\ D \subseteq DOMAIN bucket /\ IsFiniteSet(DOMAIN bucket)
    BY <2>1, PrunedTable, Counting DEF TableOK
  <2>3. /\ Cardinality(D) \in Nat /\ Cardinality(DOMAIN bucket) \in Nat
        /\ Cardinality(D) <= Cardinality(DOMAIN bucket)
        /\ Cardinality(DOMAIN bucket') =
              IF Key(c) \in D THEN Cardinality(D) ELSE Cardinality(D) + 1
    BY <2>2, FS_AddElement, FS_Subset, FS_CardinalityType
  <2>4. CASE Overflow \in D
    <3>1. Overflow \in DOMAIN bucket /\ Overflow \in DOMAIN bucket'
      BY <2>2, <2>4
    <3>2. CASE Key(c) \in D
      BY <2>3, <3>1, <3>2, GateAssumption DEF GateBounded
    <3>3. CASE Key(c) \notin D
      <4>1. Key(c) = c
        BY <2>4, <3>3 DEF Key
      <4>2. Cardinality(D) < MaxBuckets
        BY <2>3, <3>3, <4>1, GateAssumption DEF Key, Crowded, Pruned, TableOK
      <4> QED
        BY <2>3, <3>1, <3>3, <4>2, GateAssumption DEF GateBounded
    <3> QED
      BY <3>2, <3>3
  <2>5. CASE Overflow \notin D
    <3> DEFINE rest == DOMAIN bucket \ {Overflow}
    <3>1. D \in SUBSET rest /\ IsFiniteSet(rest)
      BY <2>2, <2>5, FS_RemoveElement
    <3>2. Cardinality(rest) =
            IF Overflow \in DOMAIN bucket
            THEN Cardinality(DOMAIN bucket) - 1 ELSE Cardinality(DOMAIN bucket)
      BY <2>2, FS_RemoveElement
    <3>3. Cardinality(D) <= MaxBuckets
      BY <2>3, <3>1, <3>2, FS_Subset, FS_CardinalityType, GateAssumption DEF GateBounded
    <3>4. CASE Key(c) \in D
      <4>1. DOMAIN bucket' = D
        BY <2>2, <3>4
      <4> QED
        BY <2>3, <2>5, <3>3, <3>4, <4>1, GateAssumption DEF GateBounded
    <3>5. CASE Key(c) \notin D /\ Key(c) = Overflow
      <4>1. Overflow \in DOMAIN bucket'
        BY <2>2, <3>5
      <4> QED
        BY <2>3, <3>3, <3>5, <4>1, GateAssumption DEF GateBounded
    <3>6. CASE Key(c) \notin D /\ Key(c) # Overflow
      <4>1. Key(c) = c
        BY <3>6 DEF Key
      <4>2. Overflow \notin DOMAIN bucket'
        BY <2>2, <2>5, <3>6
      <4>3. Cardinality(D) < MaxBuckets
        BY <2>3, <3>6, <4>1, GateAssumption DEF Key, Crowded, Pruned, TableOK
      <4> QED
        BY <2>3, <3>6, <4>2, <4>3, GateAssumption DEF GateBounded
    <3> QED
      BY <3>4, <3>5, <3>6
  <2> QED
    BY <2>4, <2>5
<1>3. CASE UNCHANGED bucket
  BY <1>3 DEF GateBounded
<1> QED
  BY <1>1, <1>2, <1>3 DEF GateNext

\* A window that runs is neither forgotten nor begun again.
LEMMA WindowsStep ==
    ASSUME TableOK, [GateNext]_bucket, NEW k \in DOMAIN bucket, Lasting(k)
    PROVE  /\ k \in DOMAIN bucket'
           /\ bucket'[k].age >= bucket[k].age
           /\ bucket'[k].count >= bucket[k].count
<1>0. bucket[k] \in Windows /\ bucket[k].age \in 0..Window /\ bucket[k].count \in Nat
  BY GateAssumption DEF TableOK, Windows
<1>1. CASE Tick
  <2>1. /\ k \in DOMAIN bucket'
        /\ bucket'[k] = [bucket[k] EXCEPT !.age = Min({bucket[k].age + 1, Window})]
    BY <1>1 DEF Tick
  <2>2. bucket'[k].age = Min({bucket[k].age + 1, Window}) /\ bucket'[k].count = bucket[k].count
    BY <1>0, <2>1 DEF Windows
  <2> QED
    BY <1>0, <2>1, <2>2, AgeGrows
<1>2. CASE \E c \in PublicClients : Ask(c)
  <2>1. PICK c \in PublicClients : Ask(c)
    BY <1>2
  <2>2. k \in DOMAIN Pruned(c)
    BY PrunedTable
  <2>3. k \in DOMAIN bucket'
    BY <2>1, <2>2, Counting
  <2>4. CASE k = Key(c)
    <3>1. Key(c) \in DOMAIN Pruned(c) /\ Lasting(Key(c))
      BY <2>2, <2>4
    <3>2. bucket'[Key(c)].age = bucket[Key(c)].age /\ bucket'[Key(c)].count >= bucket[Key(c)].count
      BY <2>1, <3>1, Counting
    <3> QED
      BY <1>0, <2>3, <2>4, <3>2
  <2>5. CASE k # Key(c)
    <3>1. bucket'[k] = bucket[k]
      BY <2>1, <2>2, <2>5, Counting
    <3> QED
      BY <1>0, <2>3, <3>1
  <2> QED
    BY <2>4, <2>5
<1>3. CASE UNCHANGED bucket
  BY <1>0, <1>3
<1> QED
  BY <1>1, <1>2, <1>3 DEF GateNext

----------------------------------------------------------------------------
LEMMA TableInvariant == GateSpec => [](TableOK /\ GateBounded)
<1>1. GateInit => TableOK /\ GateBounded
  <2> SUFFICES ASSUME GateInit PROVE TableOK /\ GateBounded
    OBVIOUS
  <2>1. DOMAIN bucket = {}
    BY DEF GateInit
  <2>2. bucket = [k \in DOMAIN bucket |-> bucket[k]]
    BY DEF GateInit
  <2> QED
    BY <2>1, <2>2, FS_EmptySet, GateAssumption DEF TableOK, GateBounded
<1>2. TableOK /\ GateBounded /\ [GateNext]_bucket => (TableOK /\ GateBounded)'
  BY TableKept, BoundKept
<1> QED
  BY <1>1, <1>2, PTL DEF GateSpec

\* public_security.py:62-73: however many clients ask, the table of windows
\* outgrows its bound by the shared window only.
THEOREM TableIsBounded == GateSpec => []GateBounded
BY TableInvariant, PTL

\* public_security.py:62-75: however full the table is, a window that runs, of a
\* client or shared, is neither forgotten nor begun again.
THEOREM WindowsAreKept == GateSpec => WindowsKept
<1>1. TableOK /\ [GateNext]_bucket =>
        [\A k \in DOMAIN bucket : Lasting(k) =>
            /\ k \in DOMAIN bucket'
            /\ bucket'[k].age >= bucket[k].age
            /\ bucket'[k].count >= bucket[k].count]_bucket
  BY WindowsStep
<1> QED
  BY <1>1, TableInvariant, PTL DEF GateSpec, WindowsKept

----------------------------------------------------------------------------
(* Eligibility. *)

EligibilityTyped == rule \in Rules /\ applicant \in Applicants /\ told \subseteq Inputs

LEMMA ValuesOf ==
    ASSUME NEW r \in Rule, NEW a \in Applicant
    PROVE  /\ r.minimum \in Value /\ r.maximum \in Value /\ r.cutoff \in {NotStated, Text, 1}
           /\ r.months \in Value /\ r.years \in Value /\ r.other \in {NotStated, Text}
           /\ r.qualification \in {NotStated, Text, 1} /\ r.domicile \in {NotStated, Text, 1}
           /\ \A c \in Relaxed : r.direct[c] \in Value /\ r.mapped[c] \in Value
           /\ a.age \in Int /\ a.category \in Categories /\ a.matches \in BOOLEAN
           /\ a.resident \in BOOLEAN /\ a.experience \in Nat
BY DEF Rule, Applicant

\* What a structured value is.
LEMMA StructuredValue ==
    ASSUME NEW v \in Value
    PROVE  /\ Structured(v) <=> v \in Int
           /\ ~Structured(v) <=> v \in {NotStated, Text}
BY EligibilityAssumption DEF Value, Structured

LEMMA RelaxationOf ==
    ASSUME NEW r \in Rule, NEW c \in Relaxed
    PROVE  Relaxation(r, c) \in Int \cup {NotStated}
<1>1. r.direct[c] \in Value /\ r.mapped[c] \in Value
  BY DEF Rule
<1> QED
  BY <1>1, StructuredValue DEF Relaxation, Value

\* A verdict on the age.
LEMMA AgeSays ==
    ASSUME NEW r \in Rule, NEW a \in Applicant, NEW known
    PROVE  LET mayRelax == "category" \in known /\ a.category \in Relaxed
               relaxed == r.maximum + Relaxation(r, a.category)
               oldest == IF a.category = "GENERAL" \/ "category" \notin known THEN r.maximum
                         ELSE relaxed
           IN
           /\ Age(r, a, known) \in EligibilityStatus
           /\ Age(r, a, known) = "ELIGIBLE" =>
                 /\ "birth" \in known /\ {r.minimum, r.maximum} # {NotStated}
                 /\ ~Structured(r.minimum) \/ a.age >= r.minimum
                 /\ \/ r.maximum = NotStated
                    \/ a.age <= r.maximum
                    \/ mayRelax /\ Relaxation(r, a.category) # NotStated /\ a.age <= relaxed
           /\ Age(r, a, known) = "NOT_ELIGIBLE" =>
                 /\ "birth" \in known
                 /\ \/ ~(~Structured(r.minimum) \/ a.age >= r.minimum)
                    \/ /\ Structured(r.maximum)
                       /\ mayRelax => Relaxation(r, a.category) # NotStated
                       /\ a.age > oldest
           /\ Age(r, a, known) = "UNKNOWN" =>
                 "birth" \notin known \/ {r.minimum, r.maximum} = {NotStated}
<1> DEFINE n == r.minimum
           x == r.maximum
           relax == Relaxation(r, a.category)
<1>1. /\ n \in Value /\ x \in Value /\ r.cutoff \in {NotStated, Text, 1}
      /\ a.age \in Int /\ a.category \in Categories
      /\ a.category # "GENERAL" => a.category \in Relaxed
  BY ValuesOf DEF Relaxed
<1>2. /\ Structured(n) <=> n \in Int
      /\ Structured(x) <=> x \in Int
      /\ n \notin {NotStated, Text} => n \in Int
      /\ x \notin {NotStated, Text} => x \in Int
  BY <1>1, StructuredValue DEF Value
<1>3. a.category \in Relaxed => relax \in Int \cup {NotStated}
  BY RelaxationOf
<1>4. {n, x} = {NotStated} <=> n = NotStated /\ x = NotStated
  OBVIOUS
<1>5. "GENERAL" \notin Relaxed
  BY DEF Relaxed
<1>6. CASE n = NotStated /\ x = NotStated
  BY <1>4, <1>6 DEF Age, EligibilityStatus
<1>7. CASE ~(n = NotStated /\ x = NotStated) /\ "birth" \notin known
  BY <1>4, <1>7 DEF Age, EligibilityStatus
<1>8. CASE /\ ~(n = NotStated /\ x = NotStated) /\ "birth" \in known
           /\ ~Structured(r.cutoff) \/ Text \in {n, x}
  BY <1>4, <1>8 DEF Age, EligibilityStatus
<1>9. CASE /\ ~(n = NotStated /\ x = NotStated) /\ "birth" \in known
           /\ ~(~Structured(r.cutoff) \/ Text \in {n, x})
  <2>1. /\ n # NotStated <=> n \in Int
        /\ x # NotStated <=> x \in Int
    BY <1>1, <1>2, <1>9, EligibilityAssumption DEF Value
  <2>2. Age(r, a, known) = IF n # NotStated /\ a.age < n THEN "NOT_ELIGIBLE"
                           ELSE IF x # NotStated /\ a.age > x THEN TooOld(r, a, known)
                           ELSE "ELIGIBLE"
    BY <1>9 DEF Age
  <2>3. CASE n # NotStated /\ a.age < n
    BY <1>1, <1>2, <1>9, <2>1, <2>2, <2>3 DEF EligibilityStatus
  <2>4. CASE ~(n # NotStated /\ a.age < n) /\ ~(x # NotStated /\ a.age > x)
    BY <1>1, <1>2, <1>4, <1>9, <2>1, <2>2, <2>4 DEF EligibilityStatus
  <2>5. CASE ~(n # NotStated /\ a.age < n) /\ x # NotStated /\ a.age > x
    <3>1. Age(r, a, known) = TooOld(r, a, known)
      BY <2>2, <2>5
    <3>2. CASE "category" \notin known \/ a.category = "GENERAL"
      BY <1>1, <1>2, <1>5, <1>9, <2>1, <2>5, <3>1, <3>2 DEF TooOld, EligibilityStatus
    <3>3. CASE ~("category" \notin known \/ a.category = "GENERAL") /\ relax = NotStated
      BY <1>1, <1>2, <1>9, <2>1, <2>5, <3>1, <3>3 DEF TooOld, EligibilityStatus
    <3>4. CASE ~("category" \notin known \/ a.category = "GENERAL") /\ relax # NotStated
      <4>1. relax \in Int
        BY <1>1, <1>3, <3>4
      <4>2. Age(r, a, known) = IF a.age > x + relax THEN "NOT_ELIGIBLE" ELSE "ELIGIBLE"
        BY <3>1, <3>4 DEF TooOld
      <4> HIDE DEF relax, n
      <4> QED
        BY <1>1, <1>2, <1>4, <1>9, <2>1, <2>5, <3>4, <4>1, <4>2 DEF EligibilityStatus, relax, n
    <3> QED
      BY <3>2, <3>3, <3>4
  <2> QED
    BY <2>3, <2>4, <2>5
<1> QED
  BY <1>6, <1>7, <1>8, <1>9

LEMMA OthersSay ==
    ASSUME NEW r \in Rule, NEW a \in Applicant, NEW known
    PROVE  /\ {Qualification(r, a, known), Domicile(r, a, known), Experience(r, a, known)}
                 \subseteq EligibilityStatus
           /\ Qualification(r, a, known) = "ELIGIBLE" => "qualification" \in known /\ a.matches
           /\ Qualification(r, a, known) # "NOT_ELIGIBLE"
           /\ Qualification(r, a, known) = "UNKNOWN" =>
                 r.qualification = NotStated \/ "qualification" \notin known
           /\ Domicile(r, a, known) = "ELIGIBLE" => "domicile" \in known /\ a.resident
           /\ Domicile(r, a, known) = "NOT_ELIGIBLE" => "domicile" \in known /\ ~a.resident
           /\ Domicile(r, a, known) = "UNKNOWN" =>
                 r.domicile = NotStated \/ "domicile" \notin known
           /\ Experience(r, a, known) = "ELIGIBLE" =>
                 /\ "experience" \in known
                 /\ \/ Structured(r.months) /\ a.experience >= r.months
                    \/ /\ ~Structured(r.months) /\ Structured(r.years)
                       /\ a.experience >= 12 * r.years
           /\ Experience(r, a, known) = "NOT_ELIGIBLE" =>
                 /\ "experience" \in known /\ Required(r) # NotStated
                 /\ a.experience < Required(r)
           /\ Experience(r, a, known) = "UNKNOWN" =>
                 \/ {r.months, r.years, r.other} = {NotStated}
                 \/ "experience" \notin known
<1>1. /\ r.months \in Value /\ r.years \in Value /\ r.other \in {NotStated, Text}
      /\ r.qualification \in {NotStated, Text, 1} /\ r.domicile \in {NotStated, Text, 1}
      /\ a.matches \in BOOLEAN /\ a.resident \in BOOLEAN /\ a.experience \in Nat
  BY ValuesOf
<1>2. /\ Structured(r.months) <=> r.months \in Int
      /\ Structured(r.years) <=> r.years \in Int
  BY <1>1, StructuredValue
<1>3. Qualification(r, a, known) \in EligibilityStatus /\ Domicile(r, a, known) \in EligibilityStatus
  BY DEF Qualification, Domicile, EligibilityStatus
<1>4. /\ Qualification(r, a, known) = "ELIGIBLE" => "qualification" \in known /\ a.matches
      /\ Qualification(r, a, known) # "NOT_ELIGIBLE"
      /\ Qualification(r, a, known) = "UNKNOWN" =>
            r.qualification = NotStated \/ "qualification" \notin known
  BY DEF Qualification
<1>5. /\ Domicile(r, a, known) = "ELIGIBLE" => "domicile" \in known /\ a.resident
      /\ Domicile(r, a, known) = "NOT_ELIGIBLE" => "domicile" \in known /\ ~a.resident
      /\ Domicile(r, a, known) = "UNKNOWN" =>
            r.domicile = NotStated \/ "domicile" \notin known
  BY <1>1 DEF Domicile
<1> DEFINE none == {r.months, r.years, r.other} = {NotStated}
           q == Required(r)
<1>6. /\ q \in Int \cup {NotStated}
      /\ q # NotStated =>
            \/ Structured(r.months) /\ q = r.months
            \/ ~Structured(r.months) /\ Structured(r.years) /\ q = 12 * r.years
  BY <1>1, <1>2 DEF Required
<1>7. Experience(r, a, known) =
         IF none THEN "UNKNOWN"
         ELSE IF q = NotStated THEN "REVIEW_REQUIRED"
         ELSE IF "experience" \notin known THEN "UNKNOWN"
         ELSE IF a.experience >= q THEN "ELIGIBLE" ELSE "NOT_ELIGIBLE"
  BY DEF Experience
<1> HIDE DEF q, none
<1>8. Experience(r, a, known) \in EligibilityStatus
  BY <1>7 DEF EligibilityStatus
<1>9. Experience(r, a, known) = "ELIGIBLE" =>
         "experience" \in known /\ q # NotStated /\ a.experience >= q
  BY <1>7
<1>10. Experience(r, a, known) = "NOT_ELIGIBLE" =>
          "experience" \in known /\ q # NotStated /\ a.experience < q
  BY <1>1, <1>6, <1>7
<1>11. Experience(r, a, known) = "UNKNOWN" => none \/ "experience" \notin known
  BY <1>7
<1>12. Experience(r, a, known) = "ELIGIBLE" =>
          /\ "experience" \in known
          /\ \/ Structured(r.months) /\ a.experience >= r.months
             \/ /\ ~Structured(r.months) /\ Structured(r.years)
                /\ a.experience >= 12 * r.years
  BY <1>6, <1>9
<1> QED
  BY <1>3, <1>4, <1>5, <1>8, <1>10, <1>11, <1>12 DEF q, none

\* With one more input a criterion says something else only where it said
\* nothing, but for the category of those it may relax the age for.
LEMMA MoreIsKnown ==
    ASSUME NEW r \in Rule, NEW a \in Applicant, NEW known, NEW i \in Inputs \ known
    PROVE  LET more == known \cup {i} IN
           /\ \/ Qualification(r, a, more) = Qualification(r, a, known)
              \/ Qualification(r, a, known) = "UNKNOWN"
           /\ \/ Domicile(r, a, more) = Domicile(r, a, known)
              \/ Domicile(r, a, known) = "UNKNOWN"
           /\ \/ Experience(r, a, more) = Experience(r, a, known)
              \/ Experience(r, a, known) = "UNKNOWN"
           /\ \/ Age(r, a, more) = Age(r, a, known)
              \/ Age(r, a, known) = "UNKNOWN"
              \/ /\ i = "category" /\ Age(r, a, known) = "NOT_ELIGIBLE"
                 /\ a.category \in Relaxed
<1> DEFINE more == known \cup {i}
<1>1. /\ "birth" \in known => "birth" \in more
      /\ "qualification" \in known => "qualification" \in more
      /\ "domicile" \in known => "domicile" \in more
      /\ "experience" \in known => "experience" \in more
      /\ i # "category" => ("category" \in known <=> "category" \in more)
      /\ i = "category" => "category" \notin known
  OBVIOUS
<1> HIDE DEF more
<1>2. \/ Qualification(r, a, more) = Qualification(r, a, known)
      \/ Qualification(r, a, known) = "UNKNOWN"
  BY <1>1 DEF Qualification
<1>3. Domicile(r, a, more) = Domicile(r, a, known) \/ Domicile(r, a, known) = "UNKNOWN"
  BY <1>1 DEF Domicile
<1>4. Experience(r, a, more) = Experience(r, a, known) \/ Experience(r, a, known) = "UNKNOWN"
  BY <1>1 DEF Experience
<1>5. \/ Age(r, a, more) = Age(r, a, known)
      \/ Age(r, a, known) = "UNKNOWN"
      \/ /\ i = "category" /\ Age(r, a, known) = "NOT_ELIGIBLE"
         /\ a.category \in Relaxed
  <2>1. CASE i # "category"
    <3>1. TooOld(r, a, more) = TooOld(r, a, known)
      BY <1>1, <2>1 DEF TooOld
    <3> QED
      BY <1>1, <3>1 DEF Age
  <2>2. CASE i = "category"
    <3>1. TooOld(r, a, known) = "NOT_ELIGIBLE"
      BY <1>1, <2>2 DEF TooOld
    <3>2. a.category \notin Relaxed => TooOld(r, a, more) = "NOT_ELIGIBLE"
      BY ValuesOf DEF TooOld, Relaxed
    <3>3. "birth" \in known <=> "birth" \in more
      BY <2>2 DEF more
    <3> QED
      BY <2>2, <3>1, <3>2, <3>3 DEF Age
  <2> QED
    BY <2>1, <2>2
<1> QED
  BY <1>2, <1>3, <1>4, <1>5 DEF more

LEMMA OverallOf ==
    ASSUME NEW r, NEW a, NEW known,
           NEW p, p = Age(r, a, known), NEW q, q = Qualification(r, a, known),
           NEW d, d = Domicile(r, a, known), NEW x, x = Experience(r, a, known),
           {p, q, d, x} \subseteq EligibilityStatus
    PROVE  LET o == Overall(Criteria(r, a, known)) IN
           /\ o = "NOT_ELIGIBLE" <=> "NOT_ELIGIBLE" \in {p, q, d, x}
           /\ o = "ELIGIBLE" <=> {p, q, d, x} = {"ELIGIBLE"}
           /\ o = "UNKNOWN" <=> "UNKNOWN" \in {p, q, d, x}
                                /\ {p, q, d, x} \cap {"NOT_ELIGIBLE", "REVIEW_REQUIRED"} = {}
<1> DEFINE c == Criteria(r, a, known)
<1>1. \A v : (\E k \in DOMAIN c : c[k] = v) <=> v \in {p, q, d, x}
  BY DEF Criteria
<1> HIDE DEF c
<1>2. Overall(c) = IF "NOT_ELIGIBLE" \in {p, q, d, x} THEN "NOT_ELIGIBLE"
                   ELSE IF "REVIEW_REQUIRED" \in {p, q, d, x} THEN "REVIEW_REQUIRED"
                   ELSE IF "UNKNOWN" \in {p, q, d, x} THEN "UNKNOWN" ELSE "ELIGIBLE"
  BY <1>1 DEF Overall
<1>3. {p, q, d, x} \subseteq {"NOT_ELIGIBLE", "REVIEW_REQUIRED", "UNKNOWN", "ELIGIBLE"}
  BY DEF EligibilityStatus
<1>4. PICK o : o = Overall(c)
  OBVIOUS
<1>5. /\ o = "NOT_ELIGIBLE" <=> "NOT_ELIGIBLE" \in {p, q, d, x}
      /\ o = "ELIGIBLE" <=> {p, q, d, x} = {"ELIGIBLE"}
      /\ o = "UNKNOWN" <=> "UNKNOWN" \in {p, q, d, x}
                           /\ {p, q, d, x} \cap {"NOT_ELIGIBLE", "REVIEW_REQUIRED"} = {}
  BY <1>2, <1>3, <1>4
<1> QED
  BY <1>4, <1>5 DEF c

LEMMA TypedAnswers == EligibilitySpec => []EligibilityTyped
<1>1. EligibilityInit => EligibilityTyped
  BY DEF EligibilityInit, EligibilityTyped
<1>2. EligibilityTyped /\ [EligibilityNext]_eligibilityVars => EligibilityTyped'
  BY DEF EligibilityTyped, EligibilityNext, Tell, eligibilityVars
<1> QED
  BY <1>1, <1>2, PTL DEF EligibilitySpec

LEMMA SoundAnswers == EligibilityTyped => AnswersSound
<1> SUFFICES ASSUME EligibilityTyped PROVE AnswersSound
  OBVIOUS
<1> DEFINE r == rule
           a == applicant
           p == Age(rule, applicant, told)
           q == Qualification(rule, applicant, told)
           d == Domicile(rule, applicant, told)
           x == Experience(rule, applicant, told)
           mayRelax == "category" \in told /\ applicant.category \in Relaxed
           relaxed == rule.maximum + Relaxation(rule, applicant.category)
<1>1. rule \in Rule /\ applicant \in Applicant
  BY EligibilityAssumption DEF EligibilityTyped
<1>2. /\ p \in EligibilityStatus
      /\ p = "ELIGIBLE" =>
            /\ "birth" \in told /\ {rule.minimum, rule.maximum} # {NotStated}
            /\ OldEnough
            /\ \/ rule.maximum = NotStated
               \/ applicant.age <= rule.maximum
               \/ /\ mayRelax /\ Relaxation(rule, applicant.category) # NotStated
                  /\ applicant.age <= relaxed
      /\ p = "NOT_ELIGIBLE" =>
            /\ "birth" \in told
            /\ \/ ~OldEnough
               \/ /\ Structured(rule.maximum)
                  /\ mayRelax => Relaxation(rule, applicant.category) # NotStated
                  /\ applicant.age > Oldest
      /\ p = "UNKNOWN" => "birth" \notin told \/ {rule.minimum, rule.maximum} = {NotStated}
  BY <1>1, AgeSays DEF OldEnough, Oldest
<1>3. /\ {q, d, x} \subseteq EligibilityStatus
      /\ q = "ELIGIBLE" => "qualification" \in told /\ applicant.matches
      /\ q # "NOT_ELIGIBLE"
      /\ q = "UNKNOWN" => rule.qualification = NotStated \/ "qualification" \notin told
      /\ d = "ELIGIBLE" => "domicile" \in told /\ applicant.resident
      /\ d = "NOT_ELIGIBLE" => "domicile" \in told /\ ~applicant.resident
      /\ d = "UNKNOWN" => rule.domicile = NotStated \/ "domicile" \notin told
      /\ x = "ELIGIBLE" =>
            /\ "experience" \in told
            /\ \/ Structured(rule.months) /\ applicant.experience >= rule.months
               \/ /\ ~Structured(rule.months) /\ Structured(rule.years)
                  /\ applicant.experience >= 12 * rule.years
      /\ x = "NOT_ELIGIBLE" =>
            /\ "experience" \in told /\ Required(rule) # NotStated
            /\ applicant.experience < Required(rule)
      /\ x = "UNKNOWN" =>
            \/ {rule.months, rule.years, rule.other} = {NotStated}
            \/ "experience" \notin told
  BY <1>1, OthersSay
<1> HIDE DEF p, q, d, x, mayRelax, relaxed
<1>4. /\ Answer = "NOT_ELIGIBLE" <=> "NOT_ELIGIBLE" \in {p, q, d, x}
      /\ Answer = "ELIGIBLE" <=> {p, q, d, x} = {"ELIGIBLE"}
      /\ Answer = "UNKNOWN" <=> "UNKNOWN" \in {p, q, d, x}
                                /\ {p, q, d, x} \cap {"NOT_ELIGIBLE", "REVIEW_REQUIRED"} = {}
  <2>1. {p, q, d, x} \subseteq EligibilityStatus
    BY <1>2, <1>3
  <2>2. /\ p = Age(rule, applicant, told) /\ q = Qualification(rule, applicant, told)
        /\ d = Domicile(rule, applicant, told) /\ x = Experience(rule, applicant, told)
    BY DEF p, q, d, x
  <2> QED
    BY <2>1, <2>2, OverallOf DEF Answer
<1>5. Answer = "ELIGIBLE" =>
         /\ Inputs \ {"category"} \subseteq told
         /\ {rule.minimum, rule.maximum} # {NotStated} /\ OldEnough
         /\ rule.maximum = NotStated \/ applicant.age <= rule.maximum
            \/ (mayRelax /\ Relaxation(rule, applicant.category) # NotStated
                /\ applicant.age <= relaxed)
         /\ applicant.matches /\ applicant.resident
         /\ \/ Structured(rule.months) /\ applicant.experience >= rule.months
            \/ /\ ~Structured(rule.months) /\ Structured(rule.years)
               /\ applicant.experience >= 12 * rule.years
  <2>1. ASSUME Answer = "ELIGIBLE"
        PROVE  p = "ELIGIBLE" /\ q = "ELIGIBLE" /\ d = "ELIGIBLE" /\ x = "ELIGIBLE"
    BY <1>4, <2>1
  <2> QED
    BY <1>2, <1>3, <2>1 DEF Inputs
<1>6. Answer = "NOT_ELIGIBLE" =>
         \/ "birth" \in told /\ ~OldEnough
         \/ /\ "birth" \in told /\ Structured(rule.maximum)
            /\ mayRelax => Relaxation(rule, applicant.category) # NotStated
            /\ applicant.age > Oldest
         \/ "domicile" \in told /\ ~applicant.resident
         \/ /\ "experience" \in told /\ Required(rule) # NotStated
            /\ applicant.experience < Required(rule)
  <2>1. ASSUME Answer = "NOT_ELIGIBLE"
        PROVE  p = "NOT_ELIGIBLE" \/ d = "NOT_ELIGIBLE" \/ x = "NOT_ELIGIBLE"
    BY <1>3, <1>4, <2>1
  <2> QED
    BY <1>2, <1>3, <2>1
<1>7. Answer = "UNKNOWN" =>
         \/ ~(Inputs \ {"category"} \subseteq told)
         \/ {rule.minimum, rule.maximum} = {NotStated}
         \/ NotStated \in {rule.qualification, rule.domicile}
         \/ {rule.months, rule.years, rule.other} = {NotStated}
  <2>1. ASSUME Answer = "UNKNOWN"
        PROVE  p = "UNKNOWN" \/ q = "UNKNOWN" \/ d = "UNKNOWN" \/ x = "UNKNOWN"
    BY <1>4, <2>1
  <2> QED
    BY <1>2, <1>3, <2>1 DEF Inputs
<1>8. ASSUME NEW i \in Inputs \ told
      PROVE  LET more == Criteria(rule, applicant, told \cup {i})
                 criteria == Criteria(rule, applicant, told)
             IN
             /\ \A c \in DOMAIN criteria : more[c] # criteria[c] =>
                   \/ criteria[c] = "UNKNOWN"
                   \/ i = "category" /\ c = "age" /\ criteria[c] = "NOT_ELIGIBLE"
                      /\ applicant.category \in Relaxed
             /\ i # "category" /\ Overall(more) = "UNKNOWN" => Answer = "UNKNOWN"
  <2> DEFINE K == told \cup {i}
             p2 == Age(rule, applicant, K)
             q2 == Qualification(rule, applicant, K)
             d2 == Domicile(rule, applicant, K)
             x2 == Experience(rule, applicant, K)
             more == Criteria(rule, applicant, K)
             criteria == Criteria(rule, applicant, told)
  <2>1. /\ q2 = q \/ q = "UNKNOWN"
        /\ d2 = d \/ d = "UNKNOWN"
        /\ x2 = x \/ x = "UNKNOWN"
        /\ p2 = p \/ p = "UNKNOWN" \/ (i = "category" /\ p = "NOT_ELIGIBLE"
                                       /\ applicant.category \in Relaxed)
    BY <1>1, MoreIsKnown DEF p, q, d, x
  <2>2. /\ more = [age |-> p2, qualification |-> q2, domicile |-> d2, experience |-> x2]
        /\ criteria = [age |-> p, qualification |-> q, domicile |-> d, experience |-> x]
    BY DEF Criteria, p, q, d, x
  <2>3. {p2, q2, d2, x2} \subseteq EligibilityStatus
    BY <1>1, AgeSays, OthersSay
  <2> HIDE DEF p2, q2, d2, x2, more, criteria
  <2>4. Overall(more) = "UNKNOWN" => "UNKNOWN" \in {p2, q2, d2, x2}
              /\ {p2, q2, d2, x2} \cap {"NOT_ELIGIBLE", "REVIEW_REQUIRED"} = {}
    <3>1. /\ p2 = Age(rule, applicant, K) /\ q2 = Qualification(rule, applicant, K)
          /\ d2 = Domicile(rule, applicant, K) /\ x2 = Experience(rule, applicant, K)
      BY DEF p2, q2, d2, x2
    <3> HIDE DEF K
    <3> QED
      BY <2>3, <3>1, OverallOf DEF more
  <2>5. \A c \in DOMAIN criteria : more[c] # criteria[c] =>
           \/ criteria[c] = "UNKNOWN"
           \/ i = "category" /\ c = "age" /\ criteria[c] = "NOT_ELIGIBLE"
              /\ applicant.category \in Relaxed
    BY <2>1, <2>2
  <2>6. i # "category" /\ Overall(more) = "UNKNOWN" => Answer = "UNKNOWN"
    BY <1>4, <2>1, <2>4
  <2> QED
    BY <2>5, <2>6 DEF more, criteria, K
<1> QED
  BY <1>5, <1>6, <1>7, <1>8 DEF AnswersSound, mayRelax, relaxed

\* Whoever is told to be eligible, or not to be, meets every rule or misses one
\* that is stated; and one more input turns no other answer around
\* (app/services/eligibility.py, EligibilityService.evaluate).
THEOREM AnswersAreSound == EligibilitySpec => []AnswersSound
BY TypedAnswers, SoundAnswers, PTL

----------------------------------------------------------------------------
(* Scoring: the inductive invariant. *)

\* A result that was made of some of the assessments.
Grown(x) ==
    \E seen \in Seen, na \in BOOLEAN :
        x.result = ResultOf(seen, na) /\ Extends(seen, x.seen)

\* What a row was computed from was once what is now y.
Was(x, y) == x.seen \in Seen /\ x.result = y.result /\ Extends(x.seen, y.seen) /\ Grown(x)

FieldRowKept(f) ==
    LET kept == fieldScore[f] IN
    /\ f \in Finalized
    /\ kept = FieldRow(f, kept.finding, kept.evidence)
    /\ kept.evidence \subseteq linked[f] /\ Was(kept.finding, finding[f])

RunRowsKept ==
    /\ runScore["V1"] # NoRow =>
          /\ \A f \in Finalized : fieldScore[f] # NoRow
          /\ runScore["V1"] = RunRowV1([f \in Finalized |-> fieldScore[f]])
    /\ runScore["V2"] # NoRow =>
          /\ runScore["V2"] = RunRowV2([f \in Finalized |->
                                FieldRowV2(f, runScore["V2"].fields[f].finding, posts)], posts)
          /\ \A f \in Finalized : Was(runScore["V2"].fields[f].finding, finding[f])

RoutedReasons ==
    (UNION {RouteReasons(f, finding[f].result) : f \in Finalized})
    \cup {r \in {"AMBIGUOUS_POST_SPLIT", "UNCERTAIN_VACANCY_MAPPING"} :
              posts.split = "AMBIGUOUS"}
    \cup {r \in {"PARTIAL_VERIFICATION"} : Partial}
    \cup {r \in {"MISSING_PUBLIC_REQUIRED_FIELDS"} : posts.missing}

RoutedPriorities ==
    {RoutePriority(f, RouteReasons(f, finding[f].result)) : f \in Finalized}
    \cup {IF posts.split = "AMBIGUOUS" THEN "HIGH"
          ELSE IF Partial \/ posts.missing THEN "NORMAL" ELSE "NONE"}

RoutingKept ==
    routing # NoRow =>
        /\ runScore["V2"] # NoRow /\ routing.confidence = runScore["V2"]
        /\ routing.reasons = RoutedReasons
        /\ routing.priority = Highest(RoutedPriorities)

ScoringTyped ==
    /\ finding \in [Fields -> [seen : Seen, result : Results]]
    /\ posts \in AnyReading
    /\ linked \in [Fields -> SUBSET Evidence]
    /\ DOMAIN fieldScore = Fields /\ DOMAIN runScore = {"V1", "V2"}

ScoringInvariant ==
    /\ ScoringTyped
    /\ \A f \in Finalized : Grown(finding[f])
    /\ \A f \in Fields : fieldScore[f] # NoRow => FieldRowKept(f)
    /\ RunRowsKept /\ RoutingKept

LEMMA GrownFollows ==
    ASSUME NEW x, x.seen \in Seen, Grown(x)
    PROVE  /\ x.result \in Results \ {NoResult} /\ Justified(x)
           /\ \E seen \in Seen : Follows(x.result, seen) /\ Extends(seen, x.seen)
<1>1. PICK seen \in Seen, na \in BOOLEAN : x.result = ResultOf(seen, na) /\ Extends(seen, x.seen)
  BY DEF Grown
<1>2. x.result \in Results \ {NoResult} /\ Follows(x.result, seen)
  BY <1>1, PolicyMeetsReference
<1> DEFINE S == {e \in Evidence : seen[e] # "none"}
<1>3. seen = [e \in Evidence |-> IF e \in S THEN x.seen[e] ELSE "none"]
  <2>1. \A e \in Evidence : seen[e] = IF e \in S THEN x.seen[e] ELSE "none"
    BY <1>1 DEF Extends
  <2> HIDE DEF S
  <2> QED
    BY <2>1 DEF Seen
<1>4. S \in SUBSET Evidence
  OBVIOUS
<1> HIDE DEF S
<1>5. Justified(x)
  BY <1>2, <1>3, <1>4 DEF Justified
<1> QED
  BY <1>1, <1>2, <1>5

LEMMA WasOf ==
    ASSUME NEW x, NEW y, Was(x, y)
    PROVE  /\ x.seen \in Seen /\ x.result = y.result /\ Justified(x)
           /\ x.result \in Results \ {NoResult}
           /\ \A e \in Evidence : x.seen[e] \in {"none", y.seen[e]}
BY GrownFollows DEF Was, Extends

\* A row of another kind.
LEMMA RowsAreRows ==
    /\ \A f, x, E : FieldRow(f, x, E) # NoRow
    /\ \A rows : RunRowV1(rows) # NoRow
    /\ \A rows, how : RunRowV2(rows, how) # NoRow
    /\ Route # NoRow
<1>1. DOMAIN NoRow = {"none"}
  BY DEF NoRow
<1>2. \A a, b, c, d, e : [finding |-> a, evidence |-> b, score |-> c, reasons |-> d, priority |-> e]
         # NoRow
  BY <1>1
<1>3. \A a, b, c, d : [fields |-> a, score |-> b, reasons |-> c, priority |-> d] # NoRow
  BY <1>1
<1>4. \A a, b : [fields |-> a, score |-> b] # NoRow
  BY <1>1
<1>5. \A a, b, c : [confidence |-> a, reasons |-> b, priority |-> c] # NoRow
  BY <1>1
<1>6. \A f, x, E : FieldRow(f, x, E) # NoRow
  BY <1>2, Zenon DEF FieldRow
<1>7. \A rows : RunRowV1(rows) # NoRow
  BY <1>3, Zenon DEF RunRowV1
<1>8. \A rows, how : RunRowV2(rows, how) # NoRow
  BY <1>4, Zenon DEF RunRowV2
<1>9. Route # NoRow
  BY <1>5, Zenon DEF Route
<1> QED
  BY <1>6, <1>7, <1>8, <1>9

\* The findings only grow, under their results.
FindingsGrow ==
    /\ \A f \in Fields :
          finding'[f].result = finding[f].result /\ Extends(finding[f].seen, finding'[f].seen)
    /\ Finalized' = Finalized /\ posts' = posts
    /\ \A f \in Fields : linked[f] \subseteq linked'[f]

LEMMA FindingsStep ==
    ASSUME ScoringTyped, [ScoringNext]_scoringVars
    PROVE  FindingsGrow /\ ScoringTyped'
<1>1. CASE finding' = finding /\ posts' = posts
  <2>1. /\ \A f \in Fields :
             finding'[f].result = finding[f].result /\ Extends(finding[f].seen, finding'[f].seen)
        /\ Finalized' = Finalized
    BY <1>1 DEF Extends, Finalized
  <2>2. /\ \A f \in Fields : linked[f] \subseteq linked'[f]
        /\ linked' \in [Fields -> SUBSET Evidence]
    <3>1. CASE \E x \in Links : LinkEvidence(x)
      <4>1. PICK x \in Links : linked' = [linked EXCEPT ![x[1]] = @ \cup {x[2]}]
        BY <3>1 DEF LinkEvidence
      <4>2. x[1] \in Fields /\ x[2] \in Evidence
        BY ScoringAssumption
      <4> QED
        BY <4>1, <4>2 DEF ScoringTyped
    <3>2. CASE linked' = linked
      BY <3>2 DEF ScoringTyped
    <3> QED
      BY <3>1, <3>2 DEF ScoringNext, ScoreField, ScoreRun, ScoreRunV2, Assess, AddLate, scoringVars
  <2>3. DOMAIN fieldScore' = Fields /\ DOMAIN runScore' = {"V1", "V2"}
    BY DEF ScoringTyped, ScoringNext, ScoreField, ScoreRun, ScoreRunV2, Assess, AddLate,
           LinkEvidence, scoringVars, scores
  <2> QED
    BY <1>1, <2>1, <2>2, <2>3 DEF FindingsGrow, ScoringTyped
<1>2. ASSUME NEW x \in Late, AddLate(x)
      PROVE  FindingsGrow /\ ScoringTyped'
  <2>1. /\ x[1] \in Fields /\ x[2] \in Evidence /\ x[3] \in Assessments
        /\ finding[x[1]].seen[x[2]] = "none"
        /\ finding' = [finding EXCEPT ![x[1]].seen[x[2]] = x[3]]
        /\ UNCHANGED <<posts, linked, scores>>
    BY <1>2, ScoringAssumption DEF AddLate
  <2>2. PICK g \in Fields, d \in Evidence, a \in Assessments : g = x[1] /\ d = x[2] /\ a = x[3]
    BY <2>1
  <2>3. /\ finding[g].seen \in Seen /\ finding[g].result \in Results
        /\ finding[g] = [seen |-> finding[g].seen, result |-> finding[g].result]
    BY DEF ScoringTyped
  <2>4. PICK s \in Seen, r \in Results : finding[g] = [seen |-> s, result |-> r]
    BY <2>3
  <2>5. s[d] = "none" /\ finding' = [finding EXCEPT ![g].seen[d] = a]
    BY <2>1, <2>2, <2>4
  <2>6. finding'[g] = [seen |-> [s EXCEPT ![d] = a], result |-> r]
    BY <2>4, <2>5 DEF ScoringTyped
  <2>7. [s EXCEPT ![d] = a] \in Seen /\ Extends(s, [s EXCEPT ![d] = a])
    BY <2>5 DEF Seen, Extends
  <2>8. \A f \in Fields \ {g} : finding'[f] = finding[f]
    BY <2>5 DEF ScoringTyped
  <2>9. finding' = [f \in Fields |-> finding'[f]]
    BY <2>5 DEF ScoringTyped
  <2>10. \A f \in Fields : finding'[f] \in [seen : Seen, result : Results]
    BY <2>6, <2>7, <2>8 DEF ScoringTyped
  <2>11. ASSUME NEW f \in Fields
         PROVE  finding'[f].result = finding[f].result /\ Extends(finding[f].seen, finding'[f].seen)
    <3>1. CASE f = g
      <4>1. finding'[f].result = r /\ finding[f].result = r /\ finding[f].seen = s
            /\ finding'[f].seen = [s EXCEPT ![d] = a]
        BY <3>1, <2>4, <2>6
      <4> QED
        BY <4>1, <2>7
    <3>2. CASE f # g
      BY <3>2, <2>8 DEF Extends
    <3> QED
      BY <3>1, <3>2
  <2>12. Finalized' = Finalized
    BY <2>11 DEF Finalized
  <2>13. ScoringTyped'
    BY <2>1, <2>9, <2>10 DEF ScoringTyped, scores
  <2> QED
    BY <2>1, <2>11, <2>12, <2>13 DEF FindingsGrow
<1>3. (\E x \in Late : AddLate(x)) \/ (finding' = finding /\ posts' = posts)
  BY DEF ScoringNext, ScoreField, ScoreRun, ScoreRunV2, Assess, LinkEvidence, scoringVars
<1> QED
  BY <1>1, <1>2, <1>3

LEMMA GrownLater ==
    ASSUME ScoringTyped, FindingsGrow, NEW f \in Fields
    PROVE  /\ Grown(finding[f]) => Grown(finding'[f])
           /\ \A x : Was(x, finding[f]) => Was(x, finding'[f])
<1>1. finding'[f].result = finding[f].result /\ Extends(finding[f].seen, finding'[f].seen)
  BY DEF FindingsGrow
<1>2. \A s : Extends(s, finding[f].seen) => Extends(s, finding'[f].seen)
  BY <1>1 DEF Extends
<1>3. Grown(finding[f]) => Grown(finding'[f])
  BY <1>1, <1>2 DEF Grown
<1>4. ASSUME NEW x, Was(x, finding[f]) PROVE Was(x, finding'[f])
  BY <1>1, <1>2, <1>4 DEF Was
<1> QED
  BY <1>3, <1>4

LEMMA InitScoring == ScoringInit => ScoringInvariant
<1> SUFFICES ASSUME ScoringInit PROVE ScoringInvariant
  OBVIOUS
<1>1. ASSUME NEW x \in AnyFinding
      PROVE  x \in [seen : Seen, result : Results] /\ (x.result # NoResult => Grown(x))
  <2>1. CASE x = Unfinished
    BY <2>1 DEF Unfinished, Unassessed, Seen, Results
  <2>2. CASE x # Unfinished
    <3>1. PICK seen \in Seen, na \in BOOLEAN : x = [seen |-> seen, result |-> ResultOf(seen, na)]
      BY <2>2 DEF AnyFinding, Seen
    <3>2. x.seen = seen /\ x.result = ResultOf(seen, na) /\ x.result \in Results
      BY <3>1, PolicyMeetsReference
    <3> QED
      BY <3>1, <3>2 DEF Grown, Extends
  <2> QED
    BY <2>1, <2>2
<1>2. \A f \in Fields : finding[f] \in AnyFinding
  BY InputsAssumption DEF ScoringInit
<1>3. finding \in [Fields -> [seen : Seen, result : Results]]
  BY <1>1, <1>2 DEF ScoringInit
<1>4. posts \in AnyReading
  BY InputsAssumption DEF ScoringInit
<1>5. /\ linked = [f \in Fields |-> {}] /\ fieldScore = [f \in Fields |-> NoRow]
      /\ runScore = [v \in {"V1", "V2"} |-> NoRow] /\ routing = NoRow
  BY DEF ScoringInit, NoScores
<1>6. ScoringTyped
  BY <1>3, <1>4, <1>5 DEF ScoringTyped
<1>7. \A f \in Finalized : Grown(finding[f])
  BY <1>1, <1>2 DEF Finalized
<1> QED
  BY <1>5, <1>6, <1>7 DEF ScoringInvariant, RunRowsKept, RoutingKept

LEMMA AnewOf ==
    ASSUME NEW f
    PROVE  Anew(f).finding = finding[f] /\ Anew(f).evidence = linked[f]
BY DEF Anew, FieldRow

LEMMA FieldRowsStep ==
    ASSUME ScoringInvariant, [ScoringNext]_scoringVars, NEW f \in Fields, fieldScore'[f] # NoRow
    PROVE  FieldRowKept(f)'
<1>1. ScoringTyped /\ FindingsGrow
  BY FindingsStep DEF ScoringInvariant
<1>2. CASE fieldScore'[f] = fieldScore[f]
  <2>1. FieldRowKept(f) /\ linked[f] \subseteq linked'[f] /\ Finalized' = Finalized
    BY <1>1, <1>2 DEF ScoringInvariant, FindingsGrow
  <2>2. PICK kept : kept = fieldScore[f]
    OBVIOUS
  <2>3. /\ f \in Finalized /\ kept = FieldRow(f, kept.finding, kept.evidence)
        /\ kept.evidence \subseteq linked[f] /\ Was(kept.finding, finding[f])
    BY <2>1, <2>2 DEF FieldRowKept
  <2>4. Was(kept.finding, finding'[f])
    BY <1>1, <2>3, GrownLater
  <2> QED
    BY <1>2, <2>1, <2>2, <2>3, <2>4 DEF FieldRowKept
<1>3. CASE fieldScore'[f] # fieldScore[f]
  <2>1. /\ f \in Finalized /\ fieldScore'[f] = Anew(f)
        /\ finding' = finding /\ linked' = linked
    <3>1. CASE \E g \in Fields : ScoreField(g)
      BY <1>1, <1>3, <3>1 DEF ScoreField, ScoringTyped
    <3>2. CASE ScoreRun
      BY <1>1, <1>3, <3>2 DEF ScoreRun, ScoringTyped
    <3>3. fieldScore' # fieldScore
      BY <1>3
    <3> QED
      BY <3>1, <3>2, <3>3 DEF ScoringNext, ScoreRunV2, Assess, LinkEvidence, AddLate, scoringVars,
                              scores
  <2>2. /\ fieldScore'[f].finding = finding[f] /\ fieldScore'[f].evidence = linked[f]
        /\ fieldScore'[f] = FieldRow(f, finding[f], linked[f])
    BY <2>1, AnewOf DEF Anew
  <2>3. Was(finding[f], finding[f])
    BY <2>1 DEF Was, Extends, ScoringInvariant, ScoringTyped
  <2>4. Finalized' = Finalized
    BY <1>1 DEF FindingsGrow
  <2> QED
    BY <2>1, <2>2, <2>3, <2>4 DEF FieldRowKept
<1> QED
  BY <1>2, <1>3

LEMMA RunRowV1Step ==
    ASSUME ScoringInvariant, [ScoringNext]_scoringVars, runScore'["V1"] # NoRow
    PROVE  /\ \A f \in Finalized' : fieldScore'[f] # NoRow
           /\ runScore'["V1"] = RunRowV1([f \in Finalized' |-> fieldScore'[f]])
<1>1. ScoringTyped /\ Finalized' = Finalized
  BY FindingsStep DEF ScoringInvariant, FindingsGrow
<1>2. CASE runScore["V1"] # NoRow
  <2>1. /\ \A f \in Finalized : fieldScore[f] # NoRow
        /\ runScore["V1"] = RunRowV1([f \in Finalized |-> fieldScore[f]])
    BY <1>2 DEF ScoringInvariant, RunRowsKept
  <2>2. fieldScore' = fieldScore
    BY <1>2, <2>1 DEF ScoringNext, ScoreField, ScoreRun, ScoreRunV2, Assess, LinkEvidence, AddLate,
                      scoringVars, scores
  <2>3. runScore'["V1"] = runScore["V1"]
    BY <1>1, <1>2 DEF ScoringTyped, ScoringNext, ScoreField, ScoreRun, ScoreRunV2, Assess,
                      LinkEvidence, AddLate, scoringVars, scores
  <2> QED
    BY <1>1, <2>1, <2>2, <2>3, Zenon
<1>3. CASE runScore["V1"] = NoRow
  <2>1. runScore' # runScore /\ ~ScoreRunV2
    BY <1>1, <1>3 DEF ScoreRunV2, ScoringTyped
  <2>2. ScoreRun
    BY <2>1 DEF ScoringNext, ScoreField, Assess, LinkEvidence, AddLate, scoringVars, scores
  <2>3. /\ runScore'["V1"] = RunRowV1([f \in Finalized |-> Anew(f)])
        /\ \A f \in Finalized : fieldScore'[f] = Anew(f) /\ Anew(f) # NoRow
    <3>1. /\ runScore' = [runScore EXCEPT !["V1"] = RunRowV1([f \in Finalized |-> Anew(f)])]
          /\ fieldScore' = [f \in Fields |-> IF f \in Finalized THEN Anew(f) ELSE NoRow]
      BY <2>2 DEF ScoreRun
    <3>2. \A f : Anew(f) # NoRow
      BY RowsAreRows, Zenon DEF Anew
    <3>3. Finalized \subseteq Fields
      BY DEF Finalized
    <3> QED
      BY <1>1, <3>1, <3>2, <3>3 DEF ScoringTyped
  <2>4. [f \in Finalized |-> Anew(f)] = [f \in Finalized |-> fieldScore'[f]]
    BY <2>3
  <2>5. runScore'["V1"] = RunRowV1([f \in Finalized |-> fieldScore'[f]])
    BY <2>3, <2>4, Zenon
  <2> QED
    BY <1>1, <2>3, <2>5, Zenon
<1> QED
  BY <1>2, <1>3

LEMMA RunRowV2Step ==
    ASSUME ScoringInvariant, [ScoringNext]_scoringVars, runScore'["V2"] # NoRow
    PROVE  /\ runScore'["V2"] = RunRowV2([f \in Finalized' |->
                 FieldRowV2(f, runScore'["V2"].fields[f].finding, posts')], posts')
           /\ \A f \in Finalized' : Was(runScore'["V2"].fields[f].finding, finding'[f])
<1>1. ScoringTyped /\ FindingsGrow /\ Finalized' = Finalized /\ posts' = posts
      /\ Finalized \subseteq Fields
  BY FindingsStep DEF ScoringInvariant, FindingsGrow, Finalized
<1>2. CASE runScore'["V2"] = runScore["V2"]
  <2>1. PICK was : was = runScore["V2"]
    OBVIOUS
  <2>2. /\ was = RunRowV2([f \in Finalized |-> FieldRowV2(f, was.fields[f].finding, posts)], posts)
        /\ \A f \in Finalized : Was(was.fields[f].finding, finding[f])
    BY <1>2, <2>1 DEF ScoringInvariant, RunRowsKept
  <2>3. \A f \in Finalized : Was(was.fields[f].finding, finding'[f])
    BY <1>1, <2>2, GrownLater
  <2> QED
    BY <1>1, <1>2, <2>1, <2>2, <2>3, Zenon
<1>3. CASE runScore'["V2"] # runScore["V2"]
  <2>1. ~ScoreRun /\ runScore' # runScore
    BY <1>1, <1>3 DEF ScoreRun, ScoringTyped
  <2>2. ScoreRunV2
    BY <2>1 DEF ScoringNext, ScoreField, Assess, LinkEvidence, AddLate, scoringVars, scores
  <2>3. runScore'["V2"] = ResultV2 /\ finding' = finding
    BY <1>1, <2>2 DEF ScoreRunV2, ScoringTyped
  <2>4. PICK rows : rows = [f \in Finalized |-> FieldRowV2(f, finding[f], posts)]
    OBVIOUS
  <2>5. PICK now : now = runScore'["V2"]
    OBVIOUS
  <2>6. now = RunRowV2(rows, posts) /\ now.fields = rows
    BY <2>3, <2>4, <2>5 DEF ResultV2, RunRowV2
  <2>7. ASSUME NEW f \in Finalized PROVE now.fields[f].finding = finding[f]
    BY <2>4, <2>6 DEF FieldRowV2
  <2>8. rows = [f \in Finalized |-> FieldRowV2(f, now.fields[f].finding, posts)]
    BY <2>4, <2>7
  <2>9. \A f \in Finalized : Was(finding[f], finding[f])
    BY <1>1 DEF ScoringInvariant, Was, Extends, ScoringTyped
  <2>10. now = RunRowV2([f \in Finalized |-> FieldRowV2(f, now.fields[f].finding, posts)], posts)
    BY <2>6, <2>8, Zenon
  <2>11. \A f \in Finalized : Was(now.fields[f].finding, finding[f])
    BY <2>7, <2>9, Zenon
  <2> QED
    BY <1>1, <2>3, <2>5, <2>10, <2>11, Zenon
<1> QED
  BY <1>2, <1>3

\* The routing of what does not change stays the same.
LEMMA RoutingStays ==
    ASSUME ScoringTyped, FindingsGrow
    PROVE  RoutedReasons' = RoutedReasons /\ RoutedPriorities' = RoutedPriorities
<1>1. /\ Finalized' = Finalized /\ posts' = posts /\ Finalized \subseteq Fields
      /\ Partial' <=> Partial
  BY DEF FindingsGrow, Finalized, Partial
<1>2. \A f \in Finalized : finding'[f].result = finding[f].result
  BY <1>1 DEF FindingsGrow
<1>3. \A f, result : RouteReasons(f, result)' = RouteReasons(f, result)
  BY <1>1 DEF RouteReasons
<1>4. \A f \in Finalized : RouteReasons(f, finding[f].result)' = RouteReasons(f, finding[f].result)
  BY <1>1, <1>2 DEF RouteReasons
<1>5. UNION {RouteReasons(f, finding[f].result)' : f \in Finalized}
         = UNION {RouteReasons(f, finding[f].result) : f \in Finalized}
  BY <1>4
<1>6. RoutedReasons' = RoutedReasons
  BY <1>1, <1>5 DEF RoutedReasons
<1>7. {RoutePriority(f, RouteReasons(f, finding[f].result)') : f \in Finalized}
         = {RoutePriority(f, RouteReasons(f, finding[f].result)) : f \in Finalized}
  BY <1>4
<1>8. RoutedPriorities' = RoutedPriorities
  BY <1>1, <1>7 DEF RoutedPriorities
<1> QED
  BY <1>6, <1>8

LEMMA RoutingStep ==
    ASSUME ScoringInvariant, [ScoringNext]_scoringVars
    PROVE  RoutingKept'
<1> SUFFICES ASSUME routing' # NoRow PROVE RoutingKept'
  BY DEF RoutingKept
<1>1. ScoringTyped /\ FindingsGrow /\ RoutedReasons' = RoutedReasons
      /\ RoutedPriorities' = RoutedPriorities
  BY FindingsStep, RoutingStays DEF ScoringInvariant
<1>2. CASE routing' = routing
  <2>1. /\ runScore["V2"] # NoRow /\ routing.confidence = runScore["V2"]
        /\ routing.reasons = RoutedReasons
        /\ routing.priority = Highest(RoutedPriorities)
    BY <1>2 DEF ScoringInvariant, RoutingKept
  <2>2. runScore'["V2"] = runScore["V2"]
    BY <1>1, <2>1 DEF ScoringTyped, ScoringNext, ScoreField, ScoreRun, ScoreRunV2, Assess,
                      LinkEvidence, AddLate, scoringVars, scores
  <2> QED
    BY <1>1, <1>2, <2>1, <2>2 DEF RoutingKept
<1>3. CASE routing' # routing
  <2>1. Assess
    BY <1>3 DEF ScoringNext, ScoreField, ScoreRun, ScoreRunV2, LinkEvidence, AddLate,
                scoringVars, scores
  <2>2. runScore["V2"] = ResultV2 /\ routing' = Route /\ runScore' = runScore
    BY <2>1 DEF Assess
  <2>3. ResultV2 # NoRow
    BY RowsAreRows, Zenon DEF ResultV2
  <2>4. /\ Route.confidence = ResultV2 /\ Route.reasons = RoutedReasons
        /\ Route.priority = Highest(RoutedPriorities)
    BY DEF Route, RoutedReasons, RoutedPriorities
  <2> QED
    BY <1>1, <2>2, <2>3, <2>4 DEF RoutingKept
<1> QED
  BY <1>2, <1>3

LEMMA ScoringKeeps ==
    ASSUME ScoringInvariant, [ScoringNext]_scoringVars
    PROVE  ScoringInvariant'
<1>1. ScoringTyped /\ FindingsGrow /\ ScoringTyped'
  BY FindingsStep DEF ScoringInvariant
<1>2. (\A f \in Finalized : Grown(finding[f]))'
  <2>1. Finalized' = Finalized /\ Finalized \subseteq Fields
    BY <1>1 DEF FindingsGrow, Finalized
  <2> QED
    BY <1>1, <2>1, GrownLater DEF ScoringInvariant
<1>3. (\A f \in Fields : fieldScore[f] # NoRow => FieldRowKept(f))'
  BY FieldRowsStep
<1>4. RunRowsKept'
  BY RunRowV1Step, RunRowV2Step DEF RunRowsKept
<1>5. RoutingKept'
  BY RoutingStep
<1> QED
  BY <1>1, <1>2, <1>3, <1>4, <1>5 DEF ScoringInvariant

\* Every row of an assessment is what its own inputs give, and these were once
\* what was found (app/services/confidence.py, review_routing.py).
THEOREM ScoringKeepsInvariant == ScoringSpec => []ScoringInvariant
<1>1. ScoringInvariant /\ [ScoringNext]_scoringVars => ScoringInvariant'
  BY ScoringKeeps
<1> QED
  BY <1>1, InitScoring, PTL DEF ScoringSpec

----------------------------------------------------------------------------
(* The scores of fields. *)

LEMMA CountOf ==
    ASSUME NEW seen, NEW class, NEW stance
    PROVE  /\ Count(seen, class, stance) \in Nat
           /\ Count(seen, class, stance) = 0 <=>
                 ~\E e \in Evidence : SourceClass[e] = class /\ seen[e] = stance
<1> DEFINE S == {x \in Evidence : SourceClass[x] = class /\ seen[x] = stance}
           F == [e \in S |-> EndpointOf[e]]
           T == Endpoints(seen, class, stance)
<1>1. IsFiniteSet(S)
  BY PolicyAssumption, FS_Subset
<1>2. T = {F[e] : e \in S}
  BY DEF Endpoints
<1>3. F \in Surjection(S, T)
  BY <1>2 DEF Surjection
<1>4. IsFiniteSet(T)
  BY <1>1, <1>3, FS_Surjection
<1>5. T = {} <=> S = {}
  BY <1>2
<1>6. Cardinality(T) \in Nat /\ (Cardinality(T) = 0 <=> T = {})
  BY <1>4, FS_CardinalityType, FS_EmptySet
<1> QED
  BY <1>5, <1>6 DEF Count

LEMMA BelowOf ==
    ASSUME NEW n \in Nat, NEW most \in Nat
    PROVE  Below(n, most) \in 0..most
BY DEF Below

\* What is added for support, and taken off for contradiction.
LEMMA BonusMalus ==
    ASSUME NEW seen
    PROVE  /\ Bonus(seen) \in 0..12 /\ Malus(seen) \in 0..34
           /\ Count(seen, "AUTHORITATIVE_OFFICIAL", "SUPPORTS") = 0 => Bonus(seen) \in 0..6
           /\ /\ Count(seen, "AUTHORITATIVE_OFFICIAL", "SUPPORTS") = 0
              /\ Count(seen, "OFFICIAL_SUPPORTING", "SUPPORTS") = 0
              => Bonus(seen) \in 0..2
<1>1. PICK a \in Nat, o \in Nat, d \in Nat :
         /\ a = Count(seen, "AUTHORITATIVE_OFFICIAL", "SUPPORTS")
         /\ o = Count(seen, "OFFICIAL_SUPPORTING", "SUPPORTS")
         /\ d = Count(seen, "SECONDARY_DISCOVERY_ONLY", "SUPPORTS")
  BY CountOf
<1>2. PICK c \in Nat, e \in Nat :
         /\ c = Count(seen, "SECONDARY_DISCOVERY_ONLY", "CONTRADICTS")
         /\ e = Count(seen, "OFFICIAL_SUPPORTING", "CONTRADICTS")
  BY CountOf
<1>3. PICK p \in 0..6, q \in 0..4, r \in 0..2 :
         /\ p = Below(3 * (IF a > 0 THEN a - 1 ELSE 0), 6)
         /\ q = Below(2 * o, 4) /\ r = Below(d, 2)
  <2>1. 3 * (IF a > 0 THEN a - 1 ELSE 0) \in Nat /\ 2 * o \in Nat
    OBVIOUS
  <2> QED
    BY <2>1, BelowOf
<1>4. PICK u \in 0..10, v \in 0..24 : u = Below(5 * c, 10) /\ v = Below(12 * e, 24)
  <2>1. 5 * c \in Nat /\ 12 * e \in Nat
    OBVIOUS
  <2> QED
    BY <2>1, BelowOf
<1>5. Bonus(seen) = p + q + r /\ Malus(seen) = u + v
  BY <1>1, <1>2, <1>3, <1>4 DEF Bonus, Malus
<1>6. (a = 0 => p = 0) /\ (o = 0 => q = 0)
  BY <1>3 DEF Below
<1> QED
  BY <1>1, <1>5, <1>6

\* What a score may be, by the reason of its result.
LEMMA ScoreBounds ==
    ASSUME NEW x, x.seen \in Seen, Grown(x)
    PROVE  /\ FieldScore(x) \in -1..100
           /\ x.result[1] = "CONFIRMED" => FieldScore(x) >= 56
           /\ x.result[1] # "CONFIRMED" /\ Follows(x.result, x.seen) => FieldScore(x) <= 47
<1>1. x.result \in Results \ {NoResult} /\ \E seen \in Seen : Follows(x.result, seen)
  BY GrownFollows
<1> DEFINE u == x.result[1]
           v == x.result[2]
           b == Bonus(x.seen)
           m == Malus(x.seen)
<1>2. /\ u \in Outcomes
      /\ v \in {"AUTHORITATIVE_CONFLICT", "AUTHORITATIVE_SUPPORT", "SOURCE_CONFLICT",
                "NO_EVIDENCE", "ONLY_SECONDARY_EVIDENCE", "INSUFFICIENT_SUPPORT",
                "MANUALLY_MARKED_NOT_APPLICABLE"}
      /\ u = "CONFIRMED" => v = "AUTHORITATIVE_SUPPORT"
      /\ v = "AUTHORITATIVE_SUPPORT" => u = "CONFIRMED"
      /\ v = "MANUALLY_MARKED_NOT_APPLICABLE" <=> u = "NOT_APPLICABLE"
  BY <1>1 DEF Results, Follows
<1>3. b \in 0..12 /\ m \in 0..34
  BY BonusMalus
<1>4. Follows(x.result, x.seen) /\ v \in {"SOURCE_CONFLICT", "INSUFFICIENT_SUPPORT"} => b <= 6
  <2>1. SUFFICES ASSUME Follows(x.result, x.seen), v \in {"SOURCE_CONFLICT", "INSUFFICIENT_SUPPORT"}
                 PROVE  b <= 6
    OBVIOUS
  <2>2. \A e \in Evidence : x.seen[e] \in Stances => SourceClass[e] \in Other
    BY <2>1 DEF Follows
  <2>3. Count(x.seen, "AUTHORITATIVE_OFFICIAL", "SUPPORTS") = 0
    BY <2>2, CountOf DEF Stances, Other, Official
  <2> QED
    BY <2>3, BonusMalus
<1>5. Follows(x.result, x.seen) /\ v = "ONLY_SECONDARY_EVIDENCE" => b <= 2
  <2>1. SUFFICES ASSUME Follows(x.result, x.seen), v = "ONLY_SECONDARY_EVIDENCE"
                 PROVE  b <= 2
    OBVIOUS
  <2>2. \A e \in Evidence : x.seen[e] \in Stances =>
           SourceClass[e] = "SECONDARY_DISCOVERY_ONLY"
    BY <2>1 DEF Follows
  <2>3. /\ Count(x.seen, "AUTHORITATIVE_OFFICIAL", "SUPPORTS") = 0
        /\ Count(x.seen, "OFFICIAL_SUPPORTING", "SUPPORTS") = 0
    BY <2>2, CountOf DEF Stances
  <2> QED
    BY <2>3, BonusMalus
<1> DEFINE F == Follows(x.result, x.seen)
<1> HIDE DEF b, m, F
<1>6. CASE u = "NOT_APPLICABLE"
  <2>1. FieldScore(x) = -1
    BY <1>2, <1>6 DEF FieldScore
  <2> QED
    BY <1>6, <2>1
<1>7. CASE u # "NOT_APPLICABLE"
  <2>1. PICK n \in {90, 15, 35, 20, 45, 40} : n = Anchor(v)
    BY <1>2, <1>7 DEF Anchor
  <2>2. /\ v = "AUTHORITATIVE_SUPPORT" <=> n = 90
        /\ v = "AUTHORITATIVE_CONFLICT" <=> n = 15
        /\ v = "SOURCE_CONFLICT" => n = 35
        /\ v = "NO_EVIDENCE" => n = 20
        /\ v = "ONLY_SECONDARY_EVIDENCE" => n = 45
        /\ v = "INSUFFICIENT_SUPPORT" => n = 40
    BY <1>2, <1>7, <2>1 DEF Anchor
  <2>3. PICK s : s = Clamped(n + b - m)
    OBVIOUS
  <2>4. /\ s \in 0..100
        /\ n = 90 => s >= 56
        /\ n # 90 => s <= n + b
    BY <1>3, <2>1, <2>3 DEF Clamped
  <2>5. FieldScore(x) = IF v = "AUTHORITATIVE_CONFLICT" THEN Below(s, 25) ELSE s
    BY <1>2, <1>7, <2>1, <2>3 DEF FieldScore, b, m
  <2>6. CASE v = "AUTHORITATIVE_CONFLICT"
    <3>1. FieldScore(x) \in 0..25
      BY <2>4, <2>5, <2>6 DEF Below
    <3> QED
      BY <1>2, <2>6, <3>1
  <2>7. CASE v # "AUTHORITATIVE_CONFLICT"
    <3>1. FieldScore(x) = s
      BY <2>5, <2>7
    <3>2. u = "CONFIRMED" => s >= 56
      BY <1>2, <2>2, <2>4
    <3>3. u # "CONFIRMED" /\ F => s <= 47
      <4>1. SUFFICES ASSUME u # "CONFIRMED", F PROVE s <= 47
        OBVIOUS
      <4>2. CASE v \in {"SOURCE_CONFLICT", "INSUFFICIENT_SUPPORT"}
        BY <1>3, <1>4, <2>2, <2>4, <4>1, <4>2 DEF F
      <4>3. CASE v = "ONLY_SECONDARY_EVIDENCE"
        BY <1>3, <1>5, <2>2, <2>4, <4>1, <4>3 DEF F
      <4>4. CASE v = "NO_EVIDENCE"
        BY <1>3, <2>2, <2>4, <4>4
      <4> QED
        BY <1>2, <1>7, <2>7, <4>1, <4>2, <4>3, <4>4
    <3> QED
      BY <2>4, <3>1, <3>2, <3>3 DEF F
  <2> QED
    BY <2>6, <2>7
<1> QED
  BY <1>6, <1>7

----------------------------------------------------------------------------
(* Reviews. *)

LEMMA HighestOf ==
    ASSUME NEW S, S # {}, \A p \in S : p \in {"NONE", "NORMAL", "HIGH", "CRITICAL"}
    PROVE  /\ Highest(S) \in S
           /\ Highest(S) = "NONE" <=> \A p \in S : p = "NONE"
           /\ Highest(S) = "CRITICAL" <=> "CRITICAL" \in S
<1>1. Rank("NONE") = 1 /\ Rank("NORMAL") = 2 /\ Rank("HIGH") = 3 /\ Rank("CRITICAL") = 4
  BY DEF Rank, Priorities
<1>2. \E p \in S : \A q \in S : Rank(q) <= Rank(p)
  BY <1>1
<1>3. Highest(S) \in S /\ \A q \in S : Rank(q) <= Rank(Highest(S))
  BY <1>2 DEF Highest
<1> QED
  BY <1>1, <1>3

\* A field that V1 does not ask to review.
LEMMA SureField ==
    ASSUME NEW f, NEW x, x.result \in Results \ {NoResult}, Justified(x), NEW E,
           FieldRow(f, x, E).reasons = {}
    PROVE  Sure(x) /\ x.result[2] # "AUTHORITATIVE_CONFLICT"
<1>1. FieldReasons(f, x, FieldScore(x)) = {}
  BY DEF FieldRow
<1>2. x.result[2] \notin {"AUTHORITATIVE_CONFLICT", "SOURCE_CONFLICT", "ONLY_SECONDARY_EVIDENCE",
                          "NO_EVIDENCE", "INSUFFICIENT_SUPPORT"}
  BY <1>1 DEF FieldReasons
<1>3. x.result[2] \in {"AUTHORITATIVE_SUPPORT", "MANUALLY_MARKED_NOT_APPLICABLE"}
  BY <1>2 DEF Results
<1>4. \E seen : Follows(x.result, seen)
  BY DEF Justified
<1>5. x.result[1] \in {"NOT_APPLICABLE", "CONFIRMED"}
  BY <1>3, <1>4 DEF Follows
<1> QED
  BY <1>2, <1>5 DEF Sure

\* A run that V1 does not ask to review.
LEMMA RunRowV1Of ==
    ASSUME NEW rows
    PROVE  /\ RunRowV1(rows).fields = rows
           /\ RunRowV1(rows).reasons = {} =>
                 DOMAIN rows = Fields /\ \A f \in DOMAIN rows : rows[f].reasons = {}
<1>1. RunRowV1(rows).fields = rows
  BY DEF RunRowV1
<1>2. PICK score : RunRowV1(rows).reasons = RunReasons(rows, score)
  BY DEF RunRowV1
<1>3. /\ DOMAIN rows # Fields => "PARTIAL_VERIFICATION" \in RunReasons(rows, score)
      /\ \A f \in DOMAIN rows : rows[f].reasons \subseteq RunReasons(rows, score)
  BY DEF RunReasons
<1>4. ASSUME RunRowV1(rows).reasons = {}
      PROVE  DOMAIN rows = Fields /\ \A f \in DOMAIN rows : rows[f].reasons = {}
  BY <1>2, <1>3, <1>4
<1> QED
  BY <1>1, <1>4

\* What V1 lets pass was verified as a whole.
LEMMA DirectIsSure ==
    ASSUME ScoringInvariant, runScore["V1"] # NoRow, runScore["V1"].reasons = {}
    PROVE  /\ ~Partial /\ Finalized = Fields
           /\ \A f \in Fields : Sure(runScore["V1"].fields[f].finding)
           /\ \A f \in Fields : /\ finding[f].result[1] \in {"NOT_APPLICABLE", "CONFIRMED"}
                                /\ finding[f].result[2] # "AUTHORITATIVE_CONFLICT"
<1> DEFINE rows == [f \in Finalized |-> fieldScore[f]]
<1>1. /\ runScore["V1"] = RunRowV1(rows)
      /\ \A f \in Finalized : fieldScore[f] # NoRow
  BY DEF ScoringInvariant, RunRowsKept
<1>2. DOMAIN rows = Finalized /\ \A f \in Finalized : rows[f] = fieldScore[f]
  OBVIOUS
<1> HIDE DEF rows
<1>3. /\ runScore["V1"].fields = rows
      /\ \A f \in DOMAIN rows : rows[f].reasons = {}
      /\ DOMAIN rows = Fields
  <2>1. runScore["V1"] = RunRowV1(rows)
    BY <1>1 DEF rows
  <2> QED
    BY <2>1, RunRowV1Of
<1>4. Finalized = Fields /\ ~Partial
  BY <1>2, <1>3 DEF Partial
<1>5. ASSUME NEW f \in Fields
      PROVE  /\ Sure(runScore["V1"].fields[f].finding)
             /\ finding[f].result[1] \in {"NOT_APPLICABLE", "CONFIRMED"}
             /\ finding[f].result[2] # "AUTHORITATIVE_CONFLICT"
  <2>1. FieldRowKept(f) /\ fieldScore[f].reasons = {}
    BY <1>1, <1>2, <1>3, <1>4 DEF ScoringInvariant
  <2>2. PICK kept : kept = fieldScore[f]
    OBVIOUS
  <2>3. kept = FieldRow(f, kept.finding, kept.evidence) /\ Was(kept.finding, finding[f])
    BY <2>1, <2>2 DEF FieldRowKept
  <2>4. FieldRow(f, kept.finding, kept.evidence).reasons = {}
    BY <2>1, <2>2, <2>3
  <2>5. kept.finding.result \in Results \ {NoResult} /\ Justified(kept.finding)
        /\ kept.finding.result = finding[f].result
    BY <2>3, WasOf
  <2>6. Sure(kept.finding) /\ kept.finding.result[2] # "AUTHORITATIVE_CONFLICT"
    BY <2>4, <2>5, SureField
  <2> QED
    BY <1>2, <1>3, <1>4, <2>2, <2>5, <2>6 DEF Sure
<1> QED
  BY <1>4, <1>5

\* The priority of a field, with the reasons it has.
LEMMA PriorityOf ==
    ASSUME NEW f, NEW result, posts \in AnyReading
    PROVE  LET reasons == RouteReasons(f, result) p == RoutePriority(f, reasons) IN
           /\ p \in {"NONE", "NORMAL", "HIGH", "CRITICAL"}
           /\ p = "NONE" <=> reasons = {}
           /\ p = "CRITICAL" <=> f \in Critical /\ result[2] = "AUTHORITATIVE_CONFLICT"
<1> DEFINE reasons == RouteReasons(f, result)
<1>1. /\ "AUTHORITATIVE_CONFLICT" \notin posts.unclear
      /\ "AUTHORITATIVE_CONFLICT" \in reasons <=> result[2] = "AUTHORITATIVE_CONFLICT"
  BY DEF RouteReasons, AnyReading
<1> HIDE DEF reasons
<1>2. RoutePriority(f, reasons) =
         IF reasons = {} THEN "NONE"
         ELSE IF f \in Critical
              THEN IF "AUTHORITATIVE_CONFLICT" \in reasons THEN "CRITICAL" ELSE "HIGH"
         ELSE IF reasons \cap {"AUTHORITATIVE_CONFLICT", "UNCERTAIN_VACANCY_MAPPING",
                               "POSSIBLE_WRONG_POST_OWNERSHIP"} # {}
              THEN "HIGH" ELSE "NORMAL"
  BY DEF RoutePriority
<1> DEFINE p == RoutePriority(f, reasons)
<1>3. /\ p \in {"NONE", "NORMAL", "HIGH", "CRITICAL"}
      /\ p = "NONE" <=> reasons = {}
      /\ p = "CRITICAL" <=> f \in Critical /\ "AUTHORITATIVE_CONFLICT" \in reasons
  BY <1>2
<1> HIDE DEF p
<1> QED
  BY <1>1, <1>3 DEF reasons, p

----------------------------------------------------------------------------
(* Scoring: the theorems. *)

\* The reason a field was published, or sent to review, by V2.
LEMMA SureRoute ==
    ASSUME NEW f, NEW result, posts \in AnyReading,
           result[1] \in {"NOT_APPLICABLE", "CONFIRMED"}, result[2] # "AUTHORITATIVE_CONFLICT"
    PROVE  RouteReasons(f, result) \subseteq
               {"AMBIGUOUS_POST_DETAILS", "UNCERTAIN_VACANCY_MAPPING",
                "POSSIBLE_WRONG_POST_OWNERSHIP"}
BY DEF RouteReasons, AnyReading

LEMMA QuietRoute ==
    ASSUME NEW f, NEW result, result \in Results \ {NoResult}, RouteReasons(f, result) = {}
    PROVE  /\ result[1] # "CONFLICT" /\ f \notin posts.ambiguities
           /\ f \in Critical => result[1] \in {"NOT_APPLICABLE", "CONFIRMED"}
<1>1. f \notin posts.ambiguities
  <2>1. {r \in {"AMBIGUOUS_POST_DETAILS"} : f \in posts.ambiguities} = {}
    BY DEF RouteReasons
  <2> QED
    BY <2>1
<1>2. ~(result[1] = "CONFLICT" /\ result[2] # "AUTHORITATIVE_CONFLICT")
      /\ result[2] # "AUTHORITATIVE_CONFLICT"
  BY DEF RouteReasons
<1>3. ~(f \in Critical /\ result[1] = "INSUFFICIENT_EVIDENCE")
  BY DEF RouteReasons
<1>4. result[1] \in {"CONFLICT", "CONFIRMED", "INSUFFICIENT_EVIDENCE", "NOT_APPLICABLE"}
  BY DEF Results, Outcomes
<1> QED
  BY <1>1, <1>2, <1>3, <1>4

\* What the routing says of its fields.
LEMMA RoutingReads ==
    ASSUME ScoringInvariant, routing # NoRow
    PROVE  /\ routing.priority = "NONE" <=> routing.reasons = {}
           /\ routing.reasons = {} =>
                 /\ ~Partial /\ posts.split # "AMBIGUOUS" /\ ~posts.missing
                 /\ \A f \in Finalized : RouteReasons(f, finding[f].result) = {}
           /\ routing.priority = "CRITICAL" <=>
                 \E f \in Critical \cap Finalized :
                     finding[f].result[2] = "AUTHORITATIVE_CONFLICT"
<1> DEFINE of(f) == RouteReasons(f, finding[f].result)
           rest == IF posts.split = "AMBIGUOUS" THEN "HIGH"
                   ELSE IF Partial \/ posts.missing THEN "NORMAL" ELSE "NONE"
<1>1. /\ routing.reasons = RoutedReasons /\ routing.priority = Highest(RoutedPriorities)
      /\ posts \in AnyReading
  BY DEF ScoringInvariant, RoutingKept, ScoringTyped
<1>2. \A f : /\ RoutePriority(f, of(f)) \in {"NONE", "NORMAL", "HIGH", "CRITICAL"}
             /\ RoutePriority(f, of(f)) = "NONE" <=> of(f) = {}
             /\ RoutePriority(f, of(f)) = "CRITICAL" <=>
                   f \in Critical /\ finding[f].result[2] = "AUTHORITATIVE_CONFLICT"
  BY <1>1, PriorityOf
<1>3. RoutedPriorities = {RoutePriority(f, of(f)) : f \in Finalized} \cup {rest}
  BY DEF RoutedPriorities
<1>4. /\ rest \in {"NONE", "NORMAL", "HIGH"}
      /\ rest = "NONE" <=> posts.split # "AMBIGUOUS" /\ ~Partial /\ ~posts.missing
  OBVIOUS
<1>5. /\ \A p \in RoutedPriorities : p \in {"NONE", "NORMAL", "HIGH", "CRITICAL"}
      /\ RoutedPriorities # {}
  BY <1>2, <1>3, <1>4
<1>6. (\A p \in RoutedPriorities : p = "NONE") <=>
          rest = "NONE" /\ \A f \in Finalized : of(f) = {}
  <2> HIDE DEF of, rest
  <2> QED
    BY <1>2, <1>3
<1>7. "CRITICAL" \in RoutedPriorities <=>
          \E f \in Critical \cap Finalized : finding[f].result[2] = "AUTHORITATIVE_CONFLICT"
  <2> HIDE DEF of, rest
  <2> QED
    BY <1>2, <1>3, <1>4
<1>8. RoutedReasons = {} <=> rest = "NONE" /\ \A f \in Finalized : of(f) = {}
  BY <1>4 DEF RoutedReasons
<1>9. Highest(RoutedPriorities) = "NONE" <=> \A p \in RoutedPriorities : p = "NONE"
  BY <1>5, HighestOf
<1>10. Highest(RoutedPriorities) = "CRITICAL" <=> "CRITICAL" \in RoutedPriorities
  BY <1>5, HighestOf
<1>11. routing.priority = "NONE" <=> routing.reasons = {}
  <2> HIDE DEF of, rest
  <2> QED
    BY <1>1, <1>6, <1>8, <1>9
<1>12. routing.reasons = {} =>
          /\ ~Partial /\ posts.split # "AMBIGUOUS" /\ ~posts.missing
          /\ \A f \in Finalized : RouteReasons(f, finding[f].result) = {}
  BY <1>1, <1>4, <1>8
<1> QED
  BY <1>1, <1>7, <1>10, <1>11, <1>12

\* The scores of the fields, by what was found of them.
LEMMA ScoresApart ==
    ASSUME ScoringInvariant, NEW f \in Scored(fieldScore), NEW g \in Scored(fieldScore)
    PROVE  LET x == fieldScore[f] y == fieldScore[g] IN
           /\ x.score \in -1..100
           /\ x.finding.result[1] = "CONFIRMED" /\ y.finding.result[1] # "CONFIRMED"
              /\ Follows(y.finding.result, y.finding.seen)
                 => x.score > y.score
<1>1. ASSUME NEW h \in Scored(fieldScore)
      PROVE  /\ fieldScore[h].score = FieldScore(fieldScore[h].finding)
             /\ fieldScore[h].finding.seen \in Seen /\ Grown(fieldScore[h].finding)
  <2>1. PICK kept : kept = fieldScore[h]
    OBVIOUS
  <2>2. kept = FieldRow(h, kept.finding, kept.evidence) /\ Was(kept.finding, finding[h])
    BY <2>1 DEF Scored, ScoringInvariant, FieldRowKept
  <2>3. FieldRow(h, kept.finding, kept.evidence).score = FieldScore(kept.finding)
    BY DEF FieldRow
  <2> QED
    BY <2>1, <2>2, <2>3 DEF Was
<1>2. PICK x, y : x = fieldScore[f] /\ y = fieldScore[g]
  OBVIOUS
<1>3. /\ x.score = FieldScore(x.finding) /\ x.finding.seen \in Seen /\ Grown(x.finding)
      /\ y.score = FieldScore(y.finding) /\ y.finding.seen \in Seen /\ Grown(y.finding)
  BY <1>1, <1>2
<1>4. x.score \in -1..100 /\ y.score \in -1..100
      /\ (x.finding.result[1] = "CONFIRMED" => x.score >= 56)
      /\ (y.finding.result[1] # "CONFIRMED" /\ Follows(y.finding.result, y.finding.seen)
              => y.score <= 47)
  BY <1>3, ScoreBounds
<1>5. x.finding.result[1] = "CONFIRMED" /\ y.finding.result[1] # "CONFIRMED"
      /\ Follows(y.finding.result, y.finding.seen)
         => x.score > y.score
  BY <1>4
<1> QED
  BY <1>2, <1>4, <1>5

LEMMA ReviewsSound == ScoringInvariant => ReviewSound
<1> SUFFICES ASSUME ScoringInvariant PROVE ReviewSound
  OBVIOUS
<1> DEFINE direct == runScore["V1"] # NoRow /\ runScore["V1"].reasons = {}
<1>1. direct => /\ ~Partial /\ Finalized = Fields
                /\ \A f \in Fields : Sure(runScore["V1"].fields[f].finding)
                /\ \A f \in Fields : /\ finding[f].result[1] \in {"NOT_APPLICABLE", "CONFIRMED"}
                                     /\ finding[f].result[2] # "AUTHORITATIVE_CONFLICT"
  BY DirectIsSure
<1>2. \A f, g \in Scored(fieldScore) :
          LET x == fieldScore[f] y == fieldScore[g] IN
          /\ x.score \in -1..100
          /\ x.finding.result[1] = "CONFIRMED" /\ y.finding.result[1] # "CONFIRMED"
             /\ Follows(y.finding.result, y.finding.seen)
                => x.score > y.score
  BY ScoresApart
<1>3. ASSUME routing # NoRow
      PROVE  /\ routing.priority = "NONE" <=> routing.reasons = {}
             /\ routing.reasons = {} =>
                   /\ ~Partial /\ posts.split # "AMBIGUOUS" /\ ~posts.missing
                   /\ \A f \in Finalized : RouteReasons(f, finding[f].result) = {}
             /\ routing.priority = "CRITICAL" <=>
                   \E f \in Critical \cap Finalized :
                       finding[f].result[2] = "AUTHORITATIVE_CONFLICT"
  BY <1>3, RoutingReads
<1>4. ASSUME routing # NoRow, routing.reasons = {}
      PROVE  /\ posts.ambiguities = {}
             /\ \A f \in Fields : LET x == routing.confidence.fields[f].finding IN
                   /\ x.result[1] # "CONFLICT" /\ Justified(x)
                   /\ f \in Critical => Sure(x)
  <2>1. /\ Finalized = Fields /\ \A f \in Fields : RouteReasons(f, finding[f].result) = {}
    BY <1>3, <1>4 DEF Partial
  <2>2. \A f \in Fields :
           /\ finding[f].result \in Results \ {NoResult}
           /\ finding[f].result[1] # "CONFLICT" /\ f \notin posts.ambiguities
           /\ f \in Critical => finding[f].result[1] \in {"NOT_APPLICABLE", "CONFIRMED"}
    <3>1. \A f \in Fields : finding[f].result \in Results \ {NoResult}
      BY <2>1 DEF ScoringInvariant, ScoringTyped, Finalized
    <3> QED
      BY <2>1, <3>1, QuietRoute
  <2>3. posts.ambiguities \subseteq Fields
    BY DEF ScoringInvariant, ScoringTyped, AnyReading
  <2>4. /\ routing.confidence = runScore["V2"]
        /\ \A f \in Fields : Was(runScore["V2"].fields[f].finding, finding[f])
    BY <1>4, <2>1 DEF ScoringInvariant, RoutingKept, RunRowsKept
  <2>5. ASSUME NEW f \in Fields
        PROVE  LET x == routing.confidence.fields[f].finding IN
               /\ x.result[1] # "CONFLICT" /\ Justified(x)
               /\ f \in Critical => Sure(x)
    <3>1. PICK x : x = routing.confidence.fields[f].finding
      OBVIOUS
    <3>2. x.result = finding[f].result /\ Justified(x)
      BY <2>4, <3>1, WasOf
    <3>3. x.result[1] # "CONFLICT" /\ Justified(x) /\ (f \in Critical => Sure(x))
      BY <2>2, <3>2 DEF Sure
    <3> QED
      BY <3>1, <3>3
  <2> QED
    BY <2>2, <2>3, <2>5
<1>5. ASSUME routing # NoRow, direct
      PROVE  routing.reasons \subseteq
                {"AMBIGUOUS_POST_SPLIT", "AMBIGUOUS_POST_DETAILS", "UNCERTAIN_VACANCY_MAPPING",
                 "POSSIBLE_WRONG_POST_OWNERSHIP", "MISSING_PUBLIC_REQUIRED_FIELDS"}
  <2>1. routing.reasons = RoutedReasons /\ posts \in AnyReading
    BY <1>5 DEF ScoringInvariant, RoutingKept, ScoringTyped
  <2>2. /\ ~Partial
        /\ \A f \in Finalized : RouteReasons(f, finding[f].result) \subseteq
               {"AMBIGUOUS_POST_DETAILS", "UNCERTAIN_VACANCY_MAPPING",
                "POSSIBLE_WRONG_POST_OWNERSHIP"}
    BY <1>1, <1>5, <2>1, SureRoute
  <2> QED
    BY <2>1, <2>2 DEF RoutedReasons
<1> HIDE DEF direct
<1>6. routing # NoRow =>
          /\ routing.priority = "NONE" <=> routing.reasons = {}
          /\ routing.reasons = {} =>
                /\ ~Partial /\ posts.split # "AMBIGUOUS" /\ ~posts.missing /\ posts.ambiguities = {}
                /\ \A f \in Fields : LET x == routing.confidence.fields[f].finding IN
                      /\ x.result[1] # "CONFLICT" /\ Justified(x)
                      /\ f \in Critical => Sure(x)
          /\ direct => routing.reasons \subseteq
                {"AMBIGUOUS_POST_SPLIT", "AMBIGUOUS_POST_DETAILS", "UNCERTAIN_VACANCY_MAPPING",
                 "POSSIBLE_WRONG_POST_OWNERSHIP", "MISSING_PUBLIC_REQUIRED_FIELDS"}
          /\ routing.priority = "CRITICAL" <=>
                \E f \in Critical \cap Finalized :
                    finding[f].result[2] = "AUTHORITATIVE_CONFLICT"
  BY <1>3, <1>4, <1>5
<1> QED
  BY <1>1, <1>2, <1>6 DEF ReviewSound, direct

LEMMA ScoresAreTraceable == ScoringInvariant => ScoresTraceable
<1> SUFFICES ASSUME ScoringInvariant PROVE ScoresTraceable
  OBVIOUS
<1>1. ASSUME NEW f \in Scored(fieldScore)
      PROVE  /\ fieldScore[f] = FieldRow(f, fieldScore[f].finding, fieldScore[f].evidence)
             /\ fieldScore[f].evidence \subseteq linked[f]
             /\ Was(fieldScore[f].finding, finding[f])
  BY DEF Scored, ScoringInvariant, FieldRowKept
<1>2. /\ runScore["V1"] # NoRow => runScore["V1"] = RunRowV1([f \in Finalized |-> fieldScore[f]])
      /\ runScore["V2"] # NoRow =>
            /\ runScore["V2"] = RunRowV2([f \in Finalized |->
                                FieldRowV2(f, runScore["V2"].fields[f].finding, posts)], posts)
            /\ \A f \in Finalized : Was(runScore["V2"].fields[f].finding, finding[f])
      /\ routing # NoRow => routing.confidence = runScore["V2"]
  BY DEF ScoringInvariant, RunRowsKept, RoutingKept
<1>3. \A x, y : Was(x, y) => x.result = y.result
                             /\ \A e \in Evidence : x.seen[e] \in {"none", y.seen[e]}
  BY WasOf
<1> QED
  BY <1>1, <1>2, <1>3 DEF ScoresTraceable

\* Confidence (app/services/confidence.py) and Review routing
\* (app/services/review_routing.py): what V1 or V2 lets pass without a review
\* was verified as a whole and rests on authoritative support, the two
\* policies agree on it, a confirmed value scores above every other one, a
\* routing has the priority CRITICAL only for an authoritative conflict, and
\* every assessment kept was made of inputs that were there.
THEOREM ScoresAreSound == ScoringSpec => []ScoringSound
<1>1. ScoringInvariant => ScoringSound
  BY ReviewsSound, ScoresAreTraceable DEF ScoringSound
<1> QED
  BY <1>1, ScoringKeepsInvariant, PTL

----------------------------------------------------------------------------
(* Crawls: the inductive invariant. *)

Reachable == Min({Len(listed), Bound})
Busy == fetching \in {"detail", "document"}
Ends == {"notice", "warning", "repeated"}
Repeated == RowsWith("repeated")
DetailsFetched == Cardinality(DetailsRead)

CrawlTyped ==
    /\ adapter \in {"archive", "dated", "cms"}
    /\ listed \in Seq(Attachments \cup {"detail"})
    /\ fetching \in {"listing", "failed", "next", "detail", "document", "done"}
    /\ row \in Nat /\ attempt \in 0..Retries /\ requests \in Nat
    /\ asked \in Seq(SUBSET (Pages \cup Attachments))
    /\ outcome \in Seq(Ends)

\* Where the crawl is.
Progress ==
    /\ fetching \in {"listing", "failed"} =>
          asked = <<>> /\ outcome = <<>> /\ row = 0
    /\ fetching \in {"next", "done"} =>
          /\ row \in 1..(Reachable + 1) /\ Len(outcome) = row - 1 /\ Len(asked) = row - 1
    /\ Busy =>
          /\ row \in 1..Reachable /\ Len(outcome) = row - 1 /\ Len(asked) = row
          /\ Cardinality(RowsWith("notice")) < MaxNotices
    /\ fetching = "detail" => listed[row] = "detail" /\ asked[row] = {}
    /\ fetching = "next" \/ Busy => limits = Exceeded
    /\ fetching = "done" => (limits = {} <=> Len(outcome) = Len(listed))
    /\ Cardinality(RowsWith("notice")) <= MaxNotices

\* What the rows asked for, and which are repeated: who asked first for a
\* document is not, and a row that is shares its page with another one.
Chained(S, R) ==
    /\ \A i \in DOMAIN S : \A p, q \in S[i] \cap Pages : p = q
    /\ \A i, j \in DOMAIN S : i < j /\ S[i] \cap S[j] \cap Attachments # {} => j \in R
    /\ \A i \in DOMAIN S : \A d \in S[i] \cap Attachments :
          \E j \in 1..i : d \in S[j] /\ j \notin R
    /\ \A i \in R : \E k \in 1..(i - 1) : \E j \in 1..k :
          j \notin R /\ S[i] \cap S[k] # {} /\ S[k] \cap S[j] # {}
RowsChained == Chained(asked, Repeated)

\* How often was asked.
RequestsCounted ==
    LET all == Retries + 1 IN
    /\ fetching = "listing" => requests = attempt
    /\ fetching = "failed" => requests <= all
    /\ fetching = "next" => attempt = 0
    /\ fetching \in {"next", "done"} =>
          requests <= all * (1 + DetailsFetched + Len(asked))
    /\ fetching = "detail" =>
          DetailsFetched >= 1 /\ requests <= all * (DetailsFetched + Len(asked) - 1) + attempt
    /\ fetching = "document" => requests <= all * (DetailsFetched + Len(asked)) + attempt

CrawlInvariant == CrawlTyped /\ Progress /\ RowsChained /\ RequestsCounted

LEMMA ListedTyped ==
    ASSUME NEW a, NEW s \in Listings(a)
    PROVE  s \in Seq(Attachments \cup {"detail"})
<1>1. PICK n \in 0..MaxListed : s \in [1..n -> Attachments \cup {"detail"}]
  BY DEF Listings
<1> QED
  BY <1>1, CrawlAssumption

\* Row n asks for what S says of it, and may be repeated.
LEMMA ChainStep ==
    ASSUME NEW n \in Nat \ {0}, NEW A, NEW B, NEW R, NEW Q, Chained(A, R),
           R \subseteq 1..(n - 1), Q \in {R, R \cup {n}},
           DOMAIN A \in {1..(n - 1), 1..n}, DOMAIN B = 1..n,
           \A i \in 1..(n - 1) : B[i] = A[i] /\ A[i] \subseteq Pages \cup Attachments,
           B[n] \subseteq Pages \cup Attachments,
           \A p, q \in B[n] \cap Pages : p = q,
           (\E i \in 1..(n - 1) : A[i] \cap B[n] \cap Attachments # {}) => n \in Q,
           n \in Q => /\ \E i \in 1..(n - 1) : A[i] \cap B[n] # {}
                      /\ \A d \in B[n] \cap Attachments : \E i \in 1..(n - 1) : d \in A[i]
    PROVE  Chained(B, Q)
<1>1. n \notin R /\ 1..(n - 1) \subseteq 1..n /\ n \in 1..n /\ n \notin 1..(n - 1)
      /\ \A i \in 1..n : i = n \/ i \in 1..(n - 1)
  OBVIOUS
<1>2. \A i \in 1..(n - 1) : i \in DOMAIN A /\ (i \in Q <=> i \in R)
  BY <1>1
<1>3. \A i \in DOMAIN B : \A p, q \in B[i] \cap Pages : p = q
  BY <1>1, <1>2 DEF Chained
<1>4. ASSUME NEW i \in DOMAIN B, NEW j \in DOMAIN B, i < j, B[i] \cap B[j] \cap Attachments # {}
      PROVE  j \in Q
  <2>1. i \in 1..(n - 1)
    BY <1>4
  <2>2. CASE j = n
    BY <1>4, <2>1, <2>2
  <2>3. CASE j # n
    <3>1. j \in 1..(n - 1)
      BY <2>3
    <3> QED
      BY <1>2, <1>4, <2>1, <3>1 DEF Chained
  <2> QED
    BY <2>2, <2>3
\* The first row that asked for a document is not repeated.
<1>5. ASSUME NEW i \in 1..(n - 1), NEW d \in A[i] \cap Attachments
      PROVE  \E j \in 1..i : d \in B[j] /\ j \notin Q
  <2>1. PICK j \in 1..i : d \in A[j] /\ j \notin R
    BY <1>2 DEF Chained
  <2>2. j \in 1..(n - 1)
    OBVIOUS
  <2> QED
    BY <1>2, <2>1, <2>2
<1>6. ASSUME NEW i \in DOMAIN B, NEW d \in B[i] \cap Attachments
      PROVE  \E j \in 1..i : d \in B[j] /\ j \notin Q
  <2>1. CASE i # n
    BY <1>1, <1>5, <2>1
  <2>2. CASE i = n /\ n \notin Q
    BY <1>1, <2>2
  <2>3. CASE i = n /\ n \in Q
    <3>1. PICK k \in 1..(n - 1) : d \in A[k]
      BY <1>6, <2>3
    <3>2. PICK j \in 1..k : d \in B[j] /\ j \notin Q
      BY <1>5, <1>6, <3>1
    <3>3. j \in 1..i
      BY <2>3
    <3> QED
      BY <3>2, <3>3
  <2> QED
    BY <2>1, <2>2, <2>3
\* A row that is repeated hangs together with one that is not.
<1>7. ASSUME NEW i \in R
      PROVE  \E k \in 1..(i - 1) : \E j \in 1..k :
                 j \notin Q /\ B[i] \cap B[k] # {} /\ B[k] \cap B[j] # {}
  <2>0. PICK k \in 1..(i - 1) : \E j \in 1..k :
            j \notin R /\ A[i] \cap A[k] # {} /\ A[k] \cap A[j] # {}
    BY DEF Chained
  <2>1. PICK j \in 1..k : j \notin R /\ A[i] \cap A[k] # {} /\ A[k] \cap A[j] # {}
    BY <2>0
  <2>2. i \in 1..(n - 1) /\ k \in 1..(n - 1) /\ j \in 1..(n - 1)
    BY <1>7
  <2>3. B[i] = A[i] /\ B[k] = A[k] /\ B[j] = A[j] /\ j \notin Q
    BY <1>2, <2>1, <2>2
  <2> QED
    BY <2>1, <2>3
<1>8. ASSUME n \in Q
      PROVE  \E k \in 1..(n - 1) : \E j \in 1..k :
                 j \notin Q /\ B[n] \cap B[k] # {} /\ B[k] \cap B[j] # {}
  <2>0. PICK m \in 1..(n - 1) : \E x : x \in A[m] /\ x \in B[n]
    BY <1>8
  <2>1. PICK x : x \in A[m] /\ x \in B[n]
    BY <2>0
  <2>2. B[m] = A[m] /\ A[m] \subseteq Pages \cup Attachments /\ m \in 1..m /\ m \in DOMAIN A
    BY <1>2
  <2>3. CASE m \notin R
    <3>1. m \notin Q /\ B[n] \cap B[m] # {} /\ B[m] \cap B[m] # {}
      BY <1>2, <2>1, <2>2, <2>3
    <3> QED
      BY <2>2, <3>1
  <2>4. CASE \E d \in A[m] : d \in Attachments
    <3>1. PICK d \in A[m] : d \in Attachments
      BY <2>4
    <3>2. PICK j \in 1..m : d \in B[j] /\ j \notin Q
      BY <1>5, <3>1
    <3>3. B[n] \cap B[m] # {} /\ B[m] \cap B[j] # {}
      BY <2>1, <2>2, <3>1, <3>2
    <3> QED
      BY <3>2, <3>3
  <2>5. CASE m \in R /\ ~\E d \in A[m] : d \in Attachments
    <3>1. PICK k \in 1..(m - 1) : \E j \in 1..k :
              j \notin Q /\ B[m] \cap B[k] # {} /\ B[k] \cap B[j] # {}
      BY <1>7, <2>5
    <3>2. PICK j \in 1..k : j \notin Q /\ B[m] \cap B[k] # {} /\ B[k] \cap B[j] # {}
      BY <3>1
    <3>3. \A p \in A[m] : p = x
      BY <2>1, <2>2, <2>5 DEF Chained
    <3>4. x \in B[k]
      BY <2>2, <3>2, <3>3
    <3>5. B[n] \cap B[k] # {} /\ k \in 1..(n - 1)
      BY <2>1, <3>4
    <3> QED
      BY <3>2, <3>5
  <2> QED
    BY <2>3, <2>4, <2>5
<1>9. \A i \in Q : i = n \/ i \in R
  OBVIOUS
<1> QED
  BY <1>3, <1>4, <1>6, <1>7, <1>8, <1>9 DEF Chained

LEMMA ReachableOf ==
    ASSUME CrawlTyped
    PROVE  /\ Bound \in Nat /\ Reachable \in Nat /\ Reachable <= Len(listed)
           /\ adapter = "archive" => Reachable <= MaxNotices
           /\ Exceeded = {} <=> Reachable = Len(listed)
<1>1. MaxNotices \in Nat /\ MaxVisits \in Nat /\ MaxDetails \in Nat /\ Len(listed) \in Nat
  BY CrawlAssumption DEF CrawlTyped
<1> DEFINE n == Len(listed)
           least(a, b) == IF a <= b THEN a ELSE b
<1>2. \A a, b \in Nat : Min({a, b}) = least(a, b) /\ least(a, b) \in Nat
  BY MinOfTwo
<1>3. CASE adapter = "archive"
  <2>1. Bound = MaxNotices
    BY <1>3 DEF Bound
  <2>2. Reachable = least(n, MaxNotices)
    BY <1>1, <1>2, <2>1 DEF Reachable
  <2>3. Exceeded = {} <=> ~(n > MaxNotices)
    BY <1>3 DEF Exceeded
  <2> QED
    BY <1>1, <2>1, <2>2, <2>3
<1>4. CASE adapter = "dated"
  <2>1. Bound = MaxVisits
    BY <1>4 DEF Bound
  <2>2. Reachable = least(n, MaxVisits)
    BY <1>1, <1>2, <2>1 DEF Reachable
  <2>3. Exceeded = {} <=> ~(n > MaxVisits)
    BY <1>4 DEF Exceeded
  <2> QED
    BY <1>1, <1>4, <2>1, <2>2, <2>3
<1>5. CASE adapter = "cms"
  <2>1. Bound = least(MaxVisits, MaxDetails)
    BY <1>1, <1>2, <1>5 DEF Bound
  <2>2. Reachable = least(n, least(MaxVisits, MaxDetails))
    BY <1>1, <1>2, <2>1 DEF Reachable
  <2>3. Exceeded = {} <=> ~(n > MaxVisits) /\ ~(least(n, MaxVisits) > MaxDetails)
    <3>1. Exceeded = {b \in {"rows"} : n > MaxVisits}
                     \cup {b \in {"details"} : Min({n, MaxVisits}) > MaxDetails}
      BY <1>5 DEF Exceeded
    <3>2. Min({n, MaxVisits}) = least(n, MaxVisits)
      BY <1>1, <1>2
    <3> QED
      BY <3>1, <3>2
  <2> QED
    BY <1>1, <1>5, <2>1, <2>2, <2>3
<1> QED
  BY <1>3, <1>4, <1>5 DEF CrawlTyped

LEMMA ReachableStays ==
    ASSUME adapter' = adapter, listed' = listed
    PROVE  Reachable' = Reachable /\ Exceeded' = Exceeded
BY DEF Reachable, Bound, Exceeded

\* The rows that came to an end, so far.
LEMMA RowsOf ==
    ASSUME outcome \in Seq(Ends), NEW o
    PROVE  /\ RowsWith(o) \subseteq 1..Len(outcome) /\ IsFiniteSet(RowsWith(o))
           /\ Cardinality(RowsWith(o)) \in 0..Len(outcome)
<1>1. Len(outcome) \in Nat /\ DOMAIN outcome = 1..Len(outcome)
  OBVIOUS
<1>2. RowsWith(o) \subseteq 1..Len(outcome)
  BY <1>1 DEF RowsWith
<1>3. IsFiniteSet(1..Len(outcome)) /\ Cardinality(1..Len(outcome)) = Len(outcome)
  <2>1. Cardinality(1..Len(outcome)) =
           IF 1 > Len(outcome) THEN 0 ELSE Len(outcome) - 1 + 1
    BY <1>1, FS_Interval
  <2> QED
    BY <1>1, <2>1, FS_Interval
<1>4. IsFiniteSet(RowsWith(o)) /\ Cardinality(RowsWith(o)) <= Len(outcome)
  BY <1>2, <1>3, FS_Subset
<1>5. Cardinality(RowsWith(o)) \in Nat
  BY <1>4, FS_CardinalityType
<1> QED
  BY <1>1, <1>2, <1>4, <1>5

\* One more row ends.
LEMMA RowEnds ==
    ASSUME outcome \in Seq(Ends), NEW o \in Ends, NEW n \in Nat, Len(outcome) = n - 1,
           outcome' = Append(outcome, o)
    PROVE  /\ outcome' \in Seq(Ends) /\ Len(outcome') = n
           /\ \A e : RowsWith(e)' = RowsWith(e) \cup (IF e = o THEN {n} ELSE {})
           /\ \A e : Cardinality(RowsWith(e)')
                        <= Cardinality(RowsWith(e)) + (IF e = o THEN 1 ELSE 0)
<1>1. /\ outcome' \in Seq(Ends) /\ Len(outcome') = n /\ DOMAIN outcome' = 1..n
      /\ outcome'[n] = o /\ \A i \in 1..(n - 1) : outcome'[i] = outcome[i]
      /\ DOMAIN outcome = 1..(n - 1)
  OBVIOUS
<1>2. ASSUME NEW e
      PROVE  RowsWith(e)' = RowsWith(e) \cup (IF e = o THEN {n} ELSE {})
  <2>1. RowsWith(e)' = {i \in 1..n : outcome'[i] = e}
    BY <1>1 DEF RowsWith
  <2>2. RowsWith(e) = {i \in 1..(n - 1) : outcome[i] = e}
    BY <1>1 DEF RowsWith
  <2>3. n >= 1 /\ \A i : i \in 1..n <=> i \in 1..(n - 1) \/ i = n
    BY <1>1
  <2> QED
    BY <1>1, <2>1, <2>2, <2>3
<1>3. ASSUME NEW e
      PROVE  Cardinality(RowsWith(e)') <= Cardinality(RowsWith(e)) + (IF e = o THEN 1 ELSE 0)
  <2>1. IsFiniteSet(RowsWith(e)) /\ Cardinality(RowsWith(e)) \in Nat
    BY RowsOf, FS_CardinalityType
  <2>2. CASE e = o
    <3>1. RowsWith(e)' = RowsWith(e) \cup {n}
      BY <1>2, <2>2
    <3>2. n \in RowsWith(e) => Cardinality(RowsWith(e) \cup {n}) = Cardinality(RowsWith(e))
      <4>1. n \in RowsWith(e) => RowsWith(e) \cup {n} = RowsWith(e)
        OBVIOUS
      <4> QED
        BY <4>1
    <3>3. n \notin RowsWith(e) => Cardinality(RowsWith(e) \cup {n}) = Cardinality(RowsWith(e)) + 1
      BY <2>1, FS_AddElement
    <3> QED
      BY <2>1, <2>2, <3>1, <3>2, <3>3
  <2>3. CASE e # o
    <3>1. RowsWith(e)' = RowsWith(e)
      BY <1>2, <2>3
    <3> QED
      BY <2>1, <2>3, <3>1
  <2> QED
    BY <2>2, <2>3
<1> QED
  BY <1>1, <1>2, <1>3

\* The detail pages that were asked for.
LEMMA DetailsOf ==
    ASSUME CrawlTyped
    PROVE  /\ DetailsRead \subseteq 1..Len(asked) /\ IsFiniteSet(DetailsRead)
           /\ DetailsFetched \in Nat
<1>1. DetailsRead \subseteq 1..Len(asked)
  BY DEF DetailsRead, CrawlTyped
<1>2. Len(asked) \in Nat
  BY DEF CrawlTyped
<1>3. IsFiniteSet(1..Len(asked))
  BY <1>2, FS_Interval
<1> QED
  BY <1>1, <1>3, FS_Subset, FS_CardinalityType DEF DetailsFetched

LEMMA DetailsGrow ==
    ASSUME CrawlTyped, NEW n \in Nat, Len(asked) = n - 1, NEW X, asked' = Append(asked, X),
           listed' = listed
    PROVE  DetailsFetched' = DetailsFetched + (IF listed[n] = "detail" THEN 1 ELSE 0)
<1>1. DOMAIN asked' = 1..n /\ DOMAIN asked = 1..(n - 1) /\ n >= 1
  BY DEF CrawlTyped
<1>2. DetailsRead' = DetailsRead \cup (IF listed[n] = "detail" THEN {n} ELSE {})
  <2>1. DetailsRead' = {i \in 1..n : listed[i] = "detail"}
    BY <1>1 DEF DetailsRead
  <2>2. DetailsRead = {i \in 1..(n - 1) : listed[i] = "detail"}
    BY <1>1 DEF DetailsRead
  <2>3. \A i : i \in 1..n <=> i \in 1..(n - 1) \/ i = n
    BY <1>1
  <2> QED
    BY <2>1, <2>2, <2>3
<1>3. n \notin DetailsRead
  BY <1>1 DEF DetailsRead
<1>4. Cardinality(DetailsRead \cup {n}) = Cardinality(DetailsRead) + 1
  BY <1>3, DetailsOf, FS_AddElement
<1>5. CASE listed[n] = "detail"
  BY <1>2, <1>4, <1>5 DEF DetailsFetched
<1>6. CASE listed[n] # "detail"
  <2>1. DetailsRead' = DetailsRead
    BY <1>2, <1>6
  <2> QED
    BY <1>6, <2>1, DetailsOf DEF DetailsFetched
<1> QED
  BY <1>5, <1>6

----------------------------------------------------------------------------
(* Crawls: each step. *)

\* A step that closes a row ends it, and goes on to the next.
LEMMA CloseStep ==
    ASSUME CrawlTyped, Progress, NEW o \in Ends, Close(o), row \in 1..Reachable,
           Len(outcome) = row - 1, limits = Exceeded, Len(asked') = row,
           o = "notice" => Cardinality(RowsWith("notice")) < MaxNotices
    PROVE  /\ Progress' /\ row' \in Nat /\ outcome' \in Seq(Ends) /\ fetching' = "next"
           /\ Repeated' = Repeated \cup (IF o = "repeated" THEN {row} ELSE {})
<1>1. /\ outcome' = Append(outcome, o) /\ row' = row + 1 /\ fetching' = "next"
      /\ adapter' = adapter /\ listed' = listed /\ limits' = limits
  BY DEF Close
<1>2. Reachable' = Reachable /\ Exceeded' = Exceeded
  BY <1>1, ReachableStays
<1>3. Reachable \in Nat /\ row \in Nat /\ outcome \in Seq(Ends)
  BY ReachableOf DEF CrawlTyped
<1>4. /\ outcome' \in Seq(Ends) /\ Len(outcome') = row
      /\ \A e : RowsWith(e)' = RowsWith(e) \cup (IF e = o THEN {row} ELSE {})
      /\ \A e : Cardinality(RowsWith(e)') <= Cardinality(RowsWith(e)) + (IF e = o THEN 1 ELSE 0)
  BY <1>1, <1>3, RowEnds
<1>5. Cardinality(RowsWith("notice")) \in Nat /\ Cardinality(RowsWith("notice")) <= MaxNotices
      /\ Cardinality(RowsWith("notice")') \in Nat /\ MaxNotices \in Nat
  <2>1. /\ IsFiniteSet(RowsWith("notice")) /\ Cardinality(RowsWith("notice")) \in Nat
    BY <1>3, RowsOf, FS_CardinalityType
  <2>2. RowsWith("notice")' = RowsWith("notice") \cup (IF "notice" = o THEN {row} ELSE {})
    BY <1>4
  <2>3. /\ IsFiniteSet(RowsWith("notice") \cup {row})
        /\ RowsWith("notice") \cup {} = RowsWith("notice")
    BY <2>1, FS_AddElement
  <2>4. IsFiniteSet(RowsWith("notice")')
    BY <2>1, <2>2, <2>3
  <2> QED
    BY <2>1, <2>4, FS_CardinalityType, CrawlAssumption DEF Progress
<1>6. Cardinality(RowsWith("notice")') <= MaxNotices
  BY <1>4, <1>5
<1>7. row' \in 1..(Reachable + 1) /\ row' - 1 = row
  BY <1>1, <1>3
<1>8. Progress'
  BY <1>1, <1>2, <1>4, <1>6, <1>7 DEF Progress, Busy
<1> QED
  BY <1>1, <1>3, <1>4, <1>8 DEF Repeated

\* The fields of the crawl that a row begins with.
LEMMA NextRowOf ==
    ASSUME CrawlTyped, Progress, fetching = "next"
    PROVE  /\ row \in 1..(Reachable + 1) /\ Len(outcome) = row - 1 /\ Len(asked) = row - 1
           /\ limits = Exceeded /\ Reachable \in Nat /\ Reachable <= Len(listed)
           /\ DOMAIN asked = 1..(row - 1) /\ row \in Nat \ {0}
           /\ Repeated \subseteq 1..(row - 1)
<1>1. /\ row \in 1..(Reachable + 1) /\ Len(outcome) = row - 1 /\ Len(asked) = row - 1
      /\ limits = Exceeded
  BY DEF Progress
<1> QED
  BY <1>1, ReachableOf, RowsOf DEF CrawlTyped, Repeated

LEMMA BusyOf ==
    ASSUME CrawlTyped, Progress, Busy
    PROVE  /\ row \in 1..Reachable /\ Len(outcome) = row - 1 /\ Len(asked) = row
           /\ limits = Exceeded /\ Reachable \in Nat /\ Reachable <= Len(listed)
           /\ DOMAIN asked = 1..row /\ row \in Nat \ {0}
           /\ Repeated \subseteq 1..(row - 1) /\ row \notin Repeated
           /\ Cardinality(RowsWith("notice")) < MaxNotices
<1>1. /\ row \in 1..Reachable /\ Len(outcome) = row - 1 /\ Len(asked) = row
      /\ limits = Exceeded /\ Cardinality(RowsWith("notice")) < MaxNotices
  BY DEF Progress
<1>2. Repeated \subseteq 1..Len(outcome)
  BY RowsOf DEF CrawlTyped, Repeated
<1> QED
  BY <1>1, <1>2, ReachableOf DEF CrawlTyped

LEMMA InitCrawl == CrawlInit => CrawlInvariant
<1> SUFFICES ASSUME CrawlInit PROVE CrawlInvariant
  OBVIOUS
<1>1. listed \in Seq(Attachments \cup {"detail"})
  BY ListedTyped DEF CrawlInit
<1>2. CrawlTyped
  BY <1>1, CrawlAssumption DEF CrawlInit, CrawlTyped
<1>3. \A o : RowsWith(o) = {}
  BY DEF CrawlInit, RowsWith
<1>4. Cardinality(RowsWith("notice")) <= MaxNotices
  BY <1>3, FS_EmptySet, CrawlAssumption
<1>5. Progress
  BY <1>4 DEF CrawlInit, Progress, Busy
<1>6. RowsChained
  BY <1>3 DEF CrawlInit, RowsChained, Chained, Repeated
<1>7. RequestsCounted
  BY DEF CrawlInit, RequestsCounted
<1> QED
  BY <1>2, <1>5, <1>6, <1>7 DEF CrawlInvariant

LEMMA RetryStep ==
    ASSUME CrawlInvariant, RetryRequest
    PROVE  CrawlInvariant'
<1>1. /\ fetching \in {"listing", "detail", "document"} /\ attempt < Retries
      /\ attempt' = attempt + 1 /\ requests' = requests + 1
      /\ UNCHANGED <<adapter, listed, fetching, row, asked, outcome, limits>>
  BY DEF RetryRequest, CountRequest
<1>2. CrawlTyped'
  BY <1>1, CrawlAssumption DEF CrawlInvariant, CrawlTyped
<1>3. Progress'
  BY <1>1 DEF CrawlInvariant, Progress, Busy, Reachable, Bound, Exceeded, RowsWith
<1>4. RowsChained'
  BY <1>1 DEF CrawlInvariant, RowsChained, Repeated, RowsWith, Chained
<1>5. RequestsCounted'
  <2>1. DetailsFetched' = DetailsFetched /\ DetailsFetched \in Nat /\ Len(asked) \in Nat
    BY <1>1, DetailsOf DEF DetailsFetched, DetailsRead, CrawlInvariant, CrawlTyped
  <2> DEFINE most == (Retries + 1) * (DetailsFetched + Len(asked) - 1)
             more == (Retries + 1) * (DetailsFetched + Len(asked))
  <2>2. most \in Int /\ more \in Int /\ requests \in Nat /\ attempt \in Nat
    BY <2>1, CrawlAssumption DEF CrawlInvariant, CrawlTyped
  <2>3. /\ fetching = "listing" => requests = attempt
        /\ fetching = "detail" => DetailsFetched >= 1 /\ requests <= most + attempt
        /\ fetching = "document" => requests <= more + attempt
    BY DEF CrawlInvariant, RequestsCounted
  <2> HIDE DEF most, more
  <2>4. /\ fetching = "listing" => requests' = attempt'
        /\ fetching = "detail" => DetailsFetched >= 1 /\ requests' <= most + attempt'
        /\ fetching = "document" => requests' <= more + attempt'
    BY <1>1, <2>2, <2>3
  <2> QED
    BY <1>1, <2>1, <2>4 DEF RequestsCounted, most, more
<1> QED
  BY <1>2, <1>3, <1>4, <1>5 DEF CrawlInvariant

LEMMA ListingReadStep ==
    ASSUME CrawlInvariant, ReadListing \/ LoseListing
    PROVE  CrawlInvariant'
<1>1. /\ fetching = "listing" /\ requests' = requests + 1 /\ attempt' = 0
      /\ asked' = asked /\ outcome' = outcome /\ adapter' = adapter /\ listed' = listed
      /\ \/ fetching' = "next" /\ row' = 1 /\ limits' = Exceeded
         \/ fetching' = "failed" /\ row' = row
  BY DEF ReadListing, LoseListing, Answered
<1>2. asked = <<>> /\ outcome = <<>> /\ row = 0 /\ CrawlTyped /\ requests = attempt
  BY <1>1 DEF CrawlInvariant, Progress, RequestsCounted
<1>3. Reachable \in Nat /\ Reachable' = Reachable /\ Exceeded' = Exceeded
  BY <1>1, <1>2, ReachableOf, ReachableStays
<1>4. CrawlTyped'
  BY <1>1, <1>2, CrawlAssumption DEF CrawlTyped
<1>5. \A o : RowsWith(o)' = RowsWith(o)
  BY <1>1 DEF RowsWith
<1>6. Progress'
  <2>1. Cardinality(RowsWith("notice")') <= MaxNotices
    BY <1>5 DEF CrawlInvariant, Progress
  <2>2. 1 \in 1..(Reachable + 1) /\ Len(<<>>) = 1 - 1
    BY <1>3
  <2> QED
    BY <1>1, <1>2, <1>3, <2>1, <2>2 DEF Progress, Busy
<1>7. RowsChained'
  BY <1>1, <1>5 DEF CrawlInvariant, RowsChained, Repeated, Chained
<1>8. RequestsCounted'
  <2>1. DetailsFetched' = 0 /\ Len(asked') = 0
    <3>1. DetailsRead' = {}
      BY <1>1, <1>2 DEF DetailsRead
    <3> QED
      BY <1>1, <1>2, <3>1, FS_EmptySet DEF DetailsFetched
  <2>2. requests' <= Retries + 1 /\ (Retries + 1) * (1 + 0 + 0) = Retries + 1
    BY <1>1, <1>2, CrawlAssumption DEF CrawlTyped
  <2> QED
    BY <1>1, <2>1, <2>2 DEF RequestsCounted
<1> QED
  BY <1>4, <1>6, <1>7, <1>8 DEF CrawlInvariant

\* A crawl that stops at a bound, or at the end of the listing.
LEMMA StopStep ==
    ASSUME CrawlInvariant, fetching = "next", NEW bound, StopAt(bound),
           bound = "end" <=> row > Reachable
    PROVE  CrawlInvariant'
<1>1. /\ fetching' = "done"
      /\ limits' = limits \cup {b \in {bound} : bound # "end"}
      /\ UNCHANGED <<adapter, listed, attempt, requests, row, asked, outcome>>
  BY DEF StopAt
<1>2. /\ row \in 1..(Reachable + 1) /\ Len(outcome) = row - 1 /\ Len(asked) = row - 1
      /\ limits = Exceeded /\ Reachable \in Nat /\ Reachable <= Len(listed)
      /\ CrawlTyped /\ Progress /\ Len(listed) \in Nat
  BY NextRowOf DEF CrawlInvariant, CrawlTyped
<1>3. limits' = {} <=> Len(outcome) = Len(listed)
  <2>1. CASE bound = "end"
    <3>1. limits' = Exceeded /\ Len(outcome) = Reachable
      BY <1>1, <1>2, <2>1
    <3> QED
      BY <1>2, <3>1, ReachableOf
  <2>2. CASE bound # "end"
    <3>1. bound \in limits' /\ Len(outcome) < Len(listed)
      BY <1>1, <1>2, <2>2
    <3> QED
      BY <1>2, <3>1
  <2> QED
    BY <2>1, <2>2
<1>4. CrawlTyped'
  BY <1>1, <1>2 DEF CrawlTyped
<1>5. Reachable' = Reachable /\ \A o : RowsWith(o)' = RowsWith(o)
  BY <1>1, ReachableStays DEF RowsWith
<1>6. Progress'
  BY <1>1, <1>2, <1>3, <1>5 DEF Progress, Busy
<1>7. RowsChained'
  BY <1>1, <1>5 DEF CrawlInvariant, RowsChained, Repeated, Chained
<1>8. RequestsCounted'
  <2>1. DetailsFetched' = DetailsFetched
    BY <1>1 DEF DetailsFetched, DetailsRead
  <2> QED
    BY <1>1, <2>1 DEF CrawlInvariant, RequestsCounted
<1> QED
  BY <1>4, <1>6, <1>7, <1>8 DEF CrawlInvariant

\* The requests of a row: (Retries + 1) for its page, if it has one, and
\* (Retries + 1) for its document.
LEMMA Product ==
    ASSUME NEW a \in Nat, NEW n \in Int
    PROVE  a * (n + 1) = a * n + a /\ a * n \in Int
OBVIOUS

\* A row that begins.
LEMMA BeginRow ==
    ASSUME CrawlInvariant, fetching = "next", row <= Reachable,
           NEW X \in SUBSET (Pages \cup Attachments), asked' = Append(asked, X),
           \A p, q \in X \cap Pages : p = q,
           UNCHANGED <<adapter, listed, attempt, requests>>
    PROVE  /\ asked' \in Seq(SUBSET (Pages \cup Attachments)) /\ Len(asked') = row
           /\ asked'[row] = X
           /\ \A Q \in {Repeated, Repeated \cup {row}} :
                 /\ (\E i \in DOMAIN asked : asked[i] \cap X \cap Attachments # {}) => row \in Q
                 /\ row \in Q => /\ \E i \in DOMAIN asked : asked[i] \cap X # {}
                                 /\ \A d \in X \cap Attachments :
                                       \E i \in DOMAIN asked : d \in asked[i]
                 => Chained(asked', Q)
           /\ requests' <= (Retries + 1) * (DetailsFetched' + Len(asked')) + attempt'
           /\ listed[row] = "detail" =>
                 /\ DetailsFetched' >= 1
                 /\ requests' <= (Retries + 1) * (DetailsFetched' + Len(asked') - 1) + attempt'
           /\ attempt' = 0
<1>1. /\ row \in 1..(Reachable + 1) /\ Len(asked) = row - 1 /\ DOMAIN asked = 1..(row - 1)
      /\ row \in Nat \ {0} /\ Repeated \subseteq 1..(row - 1) /\ CrawlTyped
  BY NextRowOf DEF CrawlInvariant
<1>2. /\ asked' \in Seq(SUBSET (Pages \cup Attachments)) /\ Len(asked') = row
      /\ asked'[row] = X /\ DOMAIN asked' = 1..row
      /\ \A i \in 1..(row - 1) : asked'[i] = asked[i] /\ asked[i] \subseteq Pages \cup Attachments
  BY <1>1 DEF CrawlTyped
<1>3. ASSUME NEW Q \in {Repeated, Repeated \cup {row}},
             (\E i \in DOMAIN asked : asked[i] \cap X \cap Attachments # {}) => row \in Q,
             row \in Q => /\ \E i \in DOMAIN asked : asked[i] \cap X # {}
                          /\ \A d \in X \cap Attachments :
                                \E i \in DOMAIN asked : d \in asked[i]
      PROVE  Chained(asked', Q)
  <2>1. Chained(asked, Repeated)
    BY DEF CrawlInvariant, RowsChained
  <2>2. PICK S : S = asked'
    OBVIOUS
  <2>3. /\ DOMAIN S = 1..row /\ S[row] = X
        /\ \A i \in 1..(row - 1) : S[i] = asked[i] /\ asked[i] \subseteq Pages \cup Attachments
    BY <1>2, <2>2
  <2>4. /\ DOMAIN asked \in {1..(row - 1), 1..row}
        /\ S[row] \subseteq Pages \cup Attachments
        /\ \A p, q \in S[row] \cap Pages : p = q
        /\ (\E i \in 1..(row - 1) : asked[i] \cap S[row] \cap Attachments # {}) => row \in Q
        /\ row \in Q => /\ \E i \in 1..(row - 1) : asked[i] \cap S[row] # {}
                        /\ \A d \in S[row] \cap Attachments : \E i \in 1..(row - 1) : d \in asked[i]
    BY <1>1, <1>3, <2>3
  <2>5. Chained(S, Q)
    BY <1>1, <1>3, <2>1, <2>3, <2>4, ChainStep
  <2> QED
    BY <2>2, <2>5
<1>4. /\ DetailsFetched \in Nat
      /\ DetailsFetched' = DetailsFetched + (IF listed[row] = "detail" THEN 1 ELSE 0)
  BY <1>1, DetailsOf, DetailsGrow
<1>5. /\ requests <= (Retries + 1) * (1 + DetailsFetched + (row - 1)) /\ attempt = 0
      /\ requests \in Nat /\ Retries + 1 \in Nat
  BY <1>1, CrawlAssumption DEF CrawlInvariant, RequestsCounted, CrawlTyped
<1> DEFINE count == DetailsFetched
           later == DetailsFetched'
<1>6. PICK n \in Nat, a \in Nat, m \in Nat : n = count + row /\ a = Retries + 1 /\ m = later
  <2>1. count \in Nat /\ later \in Nat
    BY <1>4
  <2> HIDE DEF count, later
  <2>2. count + row \in Nat
    BY <1>1, <2>1
  <2> QED
    BY <1>5, <2>1, <2>2
<1>7. a * n \in Int /\ a * (n + 1) = a * n + a
  BY Product
<1>8. /\ requests <= a * n
      /\ m + row = n \/ (m + row = n + 1 /\ m + row - 1 = n /\ listed[row] = "detail" /\ m >= 1)
      /\ listed[row] = "detail" => m + row = n + 1
  BY <1>1, <1>4, <1>5, <1>6
<1>9. requests <= a * (m + row)
  <2>1. PICK k, z, w : k = m + row /\ z = a * n /\ w = a * k
    OBVIOUS
  <2>2. k = n \/ k = n + 1
    BY <1>8, <2>1
  <2>3. k = n => w = z
    BY <2>1
  <2>4. k = n + 1 => w = z + a
    BY <1>7, <2>1
  <2>5. requests <= z /\ z \in Int
    BY <1>7, <1>8, <2>1
  <2>6. requests <= w
    BY <1>5, <1>6, <2>2, <2>3, <2>4, <2>5
  <2> QED
    BY <2>1, <2>6
<1>10. listed[row] = "detail" => m >= 1 /\ requests <= a * (m + row - 1)
  BY <1>1, <1>8
<1>11. requests' = requests /\ attempt' = 0
  BY <1>5
<1>12. a * (m + row) \in Int /\ a * (m + row - 1) \in Int
  BY <1>1, <1>6, Product
<1>13. /\ requests' <= (Retries + 1) * (DetailsFetched' + Len(asked')) + attempt'
       /\ listed[row] = "detail" =>
                 /\ DetailsFetched' >= 1
                 /\ requests' <= (Retries + 1) * (DetailsFetched' + Len(asked') - 1) + attempt'
  BY <1>2, <1>6, <1>9, <1>10, <1>11, <1>12
<1> QED
  BY <1>2, <1>3, <1>5, <1>13

LEMMA RoomForNotice ==
    ASSUME CrawlTyped, Progress, fetching = "next", row <= Reachable, ~NoticesFull
    PROVE  Cardinality(RowsWith("notice")) < MaxNotices
<1>1. /\ row \in Nat \ {0} /\ Len(outcome) = row - 1 /\ Reachable \in Nat
  BY NextRowOf
<1>2. Cardinality(RowsWith("notice")) \in 0..Len(outcome) /\ MaxNotices \in Nat
  BY RowsOf, CrawlAssumption DEF CrawlTyped
<1>3. CASE adapter = "archive"
  BY <1>1, <1>2, <1>3, ReachableOf
<1>4. CASE adapter # "archive"
  BY <1>2, <1>4 DEF NoticesFull
<1> QED
  BY <1>3, <1>4

\* A row that asks for a page, or for a document that was not asked for.
LEMMA OpenStep ==
    ASSUME CrawlInvariant, fetching = "next", row <= Reachable, ~NoticesFull,
           NEW X \in SUBSET (Pages \cup Attachments), asked' = Append(asked, X),
           \A p, q \in X \cap Pages : p = q,
           \A d \in X : ~AskedFor(d),
           fetching' \in {"detail", "document"},
           fetching' = "detail" => listed[row] = "detail" /\ X = {},
           UNCHANGED <<adapter, listed, attempt, requests, row, outcome, limits>>
    PROVE  CrawlInvariant'
<1>1. CrawlTyped /\ Progress
  BY DEF CrawlInvariant
<1>2. /\ row \in 1..(Reachable + 1) /\ Len(outcome) = row - 1 /\ limits = Exceeded
      /\ Reachable \in Nat /\ Repeated \subseteq 1..(row - 1) /\ row \in Nat \ {0}
  BY <1>1, NextRowOf
<1>3. /\ asked' \in Seq(SUBSET (Pages \cup Attachments)) /\ Len(asked') = row
      /\ asked'[row] = X
      /\ requests' <= (Retries + 1) * (DetailsFetched' + Len(asked')) + attempt'
      /\ listed[row] = "detail" =>
            /\ DetailsFetched' >= 1
            /\ requests' <= (Retries + 1) * (DetailsFetched' + Len(asked') - 1) + attempt'
  BY BeginRow
<1>4. \A i \in DOMAIN asked : asked[i] \cap X = {}
  BY DEF AskedFor
<1>5. Chained(asked', Repeated)
  <2>1. /\ (\E i \in DOMAIN asked : asked[i] \cap X \cap Attachments # {}) => row \in Repeated
        /\ row \notin Repeated
    BY <1>2, <1>4
  <2> QED
    BY <2>1, BeginRow
<1>6. Reachable' = Reachable /\ Exceeded' = Exceeded /\ \A o : RowsWith(o)' = RowsWith(o)
  BY ReachableStays DEF RowsWith
<1>7. CrawlTyped'
  BY <1>1, <1>3 DEF CrawlTyped
<1>8. Progress'
  <2>1. Cardinality(RowsWith("notice")') < MaxNotices
        /\ Cardinality(RowsWith("notice")') <= MaxNotices
    BY <1>1, <1>6, RoomForNotice DEF Progress
  <2>2. row' \in 1..Reachable
    BY <1>2
  <2> QED
    BY <1>2, <1>3, <1>6, <2>1, <2>2 DEF Progress, Busy
<1>9. RowsChained'
  BY <1>5, <1>6 DEF RowsChained, Repeated
<1>10. RequestsCounted'
  BY <1>3 DEF RequestsCounted
<1> QED
  BY <1>7, <1>8, <1>9, <1>10 DEF CrawlInvariant

\* More was asked than has to be shown.
LEMMA OneMore ==
    ASSUME NEW a \in Nat, NEW n \in Int, NEW r \in Nat, r <= a * n
    PROVE  r <= a * (1 + n)
<1>1. a * (n + 1) = a * n + a /\ a * n \in Int
  BY Product
<1>2. r <= a * n + a
  BY <1>1
<1>3. 1 + n = n + 1
  OBVIOUS
<1> QED
  BY <1>1, <1>2, <1>3

\* A row whose document an earlier row asked for.
LEMMA AgainStep ==
    ASSUME CrawlInvariant, fetching = "next", row <= Reachable,
           NEW d \in Attachments, asked' = Append(asked, {d}), AskedFor(d), Close("repeated"),
           UNCHANGED <<attempt, requests>>
    PROVE  CrawlInvariant'
<1>1. CrawlTyped /\ Progress
  BY DEF CrawlInvariant
<1>2. /\ row \in 1..(Reachable + 1) /\ Len(outcome) = row - 1 /\ limits = Exceeded
      /\ Reachable \in Nat /\ Repeated \subseteq 1..(row - 1) /\ row \in Nat \ {0}
  BY <1>1, NextRowOf
<1>3. row' = row + 1 /\ fetching' = "next" /\ UNCHANGED <<adapter, listed>>
  BY DEF Close
<1> DEFINE X == {d}
<1>4. X \in SUBSET (Pages \cup Attachments) /\ \A p, q \in X \cap Pages : p = q
  OBVIOUS
<1>5. \E i \in DOMAIN asked : d \in asked[i]
  BY DEF AskedFor
<1>6. /\ (\E i \in DOMAIN asked : asked[i] \cap X # {})
      /\ \A e \in X \cap Attachments : \E i \in DOMAIN asked : e \in asked[i]
  BY <1>5
<1>7. asked' = Append(asked, X)
  OBVIOUS
<1> HIDE DEF X
<1>8. /\ asked' \in Seq(SUBSET (Pages \cup Attachments)) /\ Len(asked') = row
      /\ requests' <= (Retries + 1) * (DetailsFetched' + Len(asked')) + attempt'
      /\ attempt' = 0
  BY <1>3, <1>4, <1>7, BeginRow
<1>9. Chained(asked', Repeated \cup {row})
  BY <1>3, <1>4, <1>6, <1>7, BeginRow
<1>10. Progress' /\ row' \in Nat /\ outcome' \in Seq(Ends) /\ Repeated' = Repeated \cup {row}
  <2>1. row \in 1..Reachable /\ "repeated" \in Ends
    BY <1>2 DEF Ends
  <2> QED
    BY <1>1, <1>2, <1>8, <2>1, CloseStep
<1>11. CrawlTyped'
  BY <1>1, <1>3, <1>8, <1>10, CrawlAssumption DEF CrawlTyped
<1>12. RowsChained'
  BY <1>9, <1>10 DEF RowsChained
<1>13. RequestsCounted'
  <2>1. PICK m, a, r : m = DetailsFetched' /\ a = Retries + 1 /\ r = requests'
    OBVIOUS
  <2>2. m \in Nat /\ a \in Nat /\ r \in Nat
    <3>1. m = DetailsFetched + (IF listed[row] = "detail" THEN 1 ELSE 0)
      BY <1>1, <1>2, <1>3, <1>7, <2>1, DetailsGrow, NextRowOf
    <3>2. DetailsFetched \in Nat
      BY <1>1, DetailsOf
    <3>3. m \in Nat
      BY <3>1, <3>2
    <3> QED
      BY <1>11, <2>1, <3>3, CrawlAssumption DEF CrawlTyped
  <2>3. r <= a * (m + row)
    <3>1. PICK z : z = a * (m + row)
      OBVIOUS
    <3>2. r <= a * (m + row) + 0
      BY <1>8, <2>1, Zenon
    <3>3. m + row \in Int
      BY <1>2, <2>2
    <3>4. a * (m + row) \in Int
      BY <2>2, <3>3, Product
    <3>5. r <= z + 0 /\ z \in Int
      BY <3>1, <3>2, <3>4, Zenon
    <3>6. r <= z
      BY <2>2, <3>5
    <3> QED
      BY <3>1, <3>6, Zenon
  <2>4. r <= a * (1 + (m + row))
    BY <1>2, <2>2, <2>3, OneMore
  <2>5. 1 + (m + row) = 1 + m + row
    BY <1>2, <2>2
  <2>6. requests' <= (Retries + 1) * (1 + DetailsFetched' + Len(asked'))
    BY <1>8, <2>1, <2>4, <2>5
  <2> QED
    BY <1>3, <1>8, <2>6 DEF RequestsCounted
<1> QED
  BY <1>10, <1>11, <1>12, <1>13 DEF CrawlInvariant

LEMMA NextRowStep ==
    ASSUME CrawlInvariant, NextRow
    PROVE  CrawlInvariant'
<1>1. fetching = "next" /\ CrawlTyped /\ Progress
  BY DEF NextRow, CrawlInvariant
<1>2. row \in Nat \ {0} /\ Reachable \in Nat /\ Reachable <= Len(listed)
  BY <1>1, NextRowOf
<1>3. CASE row > Reachable
  <2>1. StopAt("end")
    BY <1>3 DEF NextRow, Reachable
  <2> QED
    BY <1>1, <1>3, <2>1, StopStep
<1>4. ASSUME row <= Reachable, NoticesFull \/ DetailsFull
      PROVE  CrawlInvariant'
  <2>1. ~(row > Reachable)
    BY <1>2, <1>4
  <2>2. StopAt("notices") \/ StopAt("details")
    BY <1>4, <2>1 DEF NextRow, Reachable
  <2> QED
    BY <1>1, <2>1, <2>2, StopStep
<1>5. ASSUME row <= Reachable, ~NoticesFull, ~DetailsFull
      PROVE  CrawlInvariant'
  <2>1. ~(row > Reachable)
    BY <1>2, <1>5
  <2>2. /\ UNCHANGED <<attempt, requests>>
        /\ IF listed[row] = "detail"
           THEN /\ fetching' = "detail" /\ asked' = Append(asked, {})
                /\ UNCHANGED <<adapter, listed, row, outcome, limits>>
           ELSE Want(listed[row])
    BY <1>5, <2>1 DEF NextRow, Reachable
  <2>3. CASE listed[row] = "detail"
    <3>1. {} \in SUBSET (Pages \cup Attachments)
      OBVIOUS
    <3> QED
      BY <1>1, <1>5, <2>2, <2>3, <3>1, OpenStep
  <2>4. CASE listed[row] # "detail"
    <3>1. PICK d : d = listed[row]
      OBVIOUS
    <3>2. d \in Attachments
      BY <1>1, <1>2, <1>5, <2>4, <3>1 DEF CrawlTyped
    <3>3. /\ asked' = Append(asked, {d})
          /\ \/ AskedFor(d) /\ Close("repeated")
             \/ /\ ~AskedFor(d) /\ fetching' = "document"
                /\ UNCHANGED <<adapter, listed, row, outcome, limits>>
      BY <2>2, <2>4, <3>1 DEF Want
    <3>4. CASE AskedFor(d)
      BY <1>1, <1>5, <2>2, <3>2, <3>3, <3>4, AgainStep
    <3>5. CASE ~AskedFor(d)
      <4>1. {d} \in SUBSET (Pages \cup Attachments) /\ \A p, q \in {d} \cap Pages : p = q
        BY <3>2
      <4>2. \A e \in {d} : ~AskedFor(e)
        BY <3>5
      <4>3. fetching' = "document" /\ UNCHANGED <<adapter, listed, row, outcome, limits>>
        BY <3>3, <3>5
      <4> QED
        BY <1>1, <1>5, <2>2, <3>3, <4>1, <4>2, <4>3, OpenStep
    <3> QED
      BY <3>4, <3>5
  <2> QED
    BY <2>3, <2>4
<1> QED
  BY <1>2, <1>3, <1>4, <1>5

\* The requests of an answer.
LEMMA AnswerCounts ==
    ASSUME CrawlInvariant, Busy, Answered, UNCHANGED listed, DOMAIN asked' = DOMAIN asked,
           Len(asked') = Len(asked)
    PROVE  /\ attempt' = 0 /\ requests' \in Nat
           /\ requests' <= (Retries + 1) * (1 + DetailsFetched' + Len(asked'))
           /\ fetching = "detail" =>
                 requests' <= (Retries + 1) * (DetailsFetched' + Len(asked')) + attempt'
<1>1. /\ CrawlTyped /\ Progress /\ attempt' = 0 /\ requests' = requests + 1
      /\ requests \in Nat /\ attempt \in 0..Retries /\ Retries \in Nat /\ Len(asked) \in Nat
  BY CrawlAssumption DEF CrawlInvariant, CrawlTyped, Answered
<1>2. DetailsFetched' = DetailsFetched /\ DetailsFetched \in Nat
  BY <1>1, DetailsOf DEF DetailsFetched, DetailsRead
<1>3. PICK m \in Nat, l \in Nat, a \in Nat : m = DetailsFetched /\ l = Len(asked) /\ a = Retries + 1
  <2>1. Retries + 1 \in Nat
    BY <1>1
  <2> QED
    BY <1>1, <1>2, <2>1, Zenon
<1>4. /\ a * (m + l - 1 + 1) = a * (m + l - 1) + a /\ a * (m + l - 1) \in Int
      /\ a * (m + l + 1) = a * (m + l) + a /\ a * (m + l) \in Int
  BY Product
<1>5. m + l - 1 + 1 = m + l /\ m + l + 1 = 1 + m + l
  OBVIOUS
<1>6. PICK less, same, more : less = a * (m + l - 1) /\ same = a * (m + l) /\ more = a * (1 + m + l)
  OBVIOUS
<1>7. /\ same = less + a /\ more = same + a /\ less \in Int /\ same \in Int /\ more \in Int
  <2>1. same = less + a
    BY <1>4, <1>5, <1>6
  <2>2. more = same + a
    BY <1>4, <1>5, <1>6
  <2> QED
    BY <1>3, <1>4, <1>6, <2>1, <2>2
<1>8. /\ fetching = "detail" => requests <= less + attempt
      /\ fetching = "document" => requests <= same + attempt
  BY <1>3, <1>6 DEF CrawlInvariant, RequestsCounted
<1>9. /\ requests + 1 <= more
      /\ fetching = "detail" => requests + 1 <= same
  BY <1>1, <1>3, <1>7, <1>8 DEF Busy
<1>10. requests' <= more /\ (fetching = "detail" => requests' <= same + 0)
  BY <1>1, <1>7, <1>9
<1>11. /\ more = (Retries + 1) * (1 + DetailsFetched' + Len(asked'))
       /\ same = (Retries + 1) * (DetailsFetched' + Len(asked'))
  BY <1>2, <1>3, <1>6, Zenon
<1>12. /\ requests' <= (Retries + 1) * (1 + DetailsFetched' + Len(asked'))
       /\ fetching = "detail" =>
                 requests' <= (Retries + 1) * (DetailsFetched' + Len(asked')) + attempt'
  BY <1>1, <1>10, <1>11, Zenon
<1> QED
  BY <1>1, <1>12

\* What a row that is busy asks for: X.
LEMMA TurnRow ==
    ASSUME CrawlInvariant, Busy, NEW X \in SUBSET (Pages \cup Attachments),
           asked' = [asked EXCEPT ![row] = X], \A p, q \in X \cap Pages : p = q
    PROVE  /\ asked' \in Seq(SUBSET (Pages \cup Attachments)) /\ Len(asked') = row
           /\ Len(asked) = row /\ DOMAIN asked' = DOMAIN asked
           /\ \A Q \in {Repeated, Repeated \cup {row}} :
                 /\ (\E i \in 1..(row - 1) : asked[i] \cap X \cap Attachments # {}) => row \in Q
                 /\ row \in Q => /\ \E i \in 1..(row - 1) : asked[i] \cap X # {}
                                 /\ \A d \in X \cap Attachments :
                                       \E i \in 1..(row - 1) : d \in asked[i]
                 => Chained(asked', Q)
<1>1. /\ Len(asked) = row /\ DOMAIN asked = 1..row
      /\ row \in Nat \ {0} /\ Repeated \subseteq 1..(row - 1) /\ CrawlTyped
  BY BusyOf DEF CrawlInvariant
<1>2. /\ asked' \in Seq(SUBSET (Pages \cup Attachments)) /\ Len(asked') = row
      /\ asked'[row] = X /\ DOMAIN asked' = 1..row
      /\ \A i \in 1..(row - 1) : asked'[i] = asked[i] /\ asked[i] \subseteq Pages \cup Attachments
  BY <1>1 DEF CrawlTyped
<1>3. ASSUME NEW Q \in {Repeated, Repeated \cup {row}},
             (\E i \in 1..(row - 1) : asked[i] \cap X \cap Attachments # {}) => row \in Q,
             row \in Q => /\ \E i \in 1..(row - 1) : asked[i] \cap X # {}
                          /\ \A d \in X \cap Attachments :
                                \E i \in 1..(row - 1) : d \in asked[i]
      PROVE  Chained(asked', Q)
  <2>1. Chained(asked, Repeated)
    BY DEF CrawlInvariant, RowsChained
  <2>2. PICK S : S = asked'
    OBVIOUS
  <2>3. /\ DOMAIN S = 1..row /\ S[row] = X
        /\ \A i \in 1..(row - 1) : S[i] = asked[i] /\ asked[i] \subseteq Pages \cup Attachments
    BY <1>2, <2>2
  <2>4. /\ DOMAIN asked \in {1..(row - 1), 1..row}
        /\ S[row] \subseteq Pages \cup Attachments
        /\ \A p, q \in S[row] \cap Pages : p = q
        /\ (\E i \in 1..(row - 1) : asked[i] \cap S[row] \cap Attachments # {}) => row \in Q
        /\ row \in Q => /\ \E i \in 1..(row - 1) : asked[i] \cap S[row] # {}
                        /\ \A d \in S[row] \cap Attachments : \E i \in 1..(row - 1) : d \in asked[i]
    BY <1>1, <1>3, <2>3
  <2>5. Chained(S, Q)
    BY <1>1, <1>3, <2>1, <2>3, <2>4, ChainStep
  <2> QED
    BY <2>2, <2>5
<1> QED
  BY <1>1, <1>2, <1>3

\* A row that ends with an answer.
LEMMA EndStep ==
    ASSUME CrawlInvariant, Busy, Answered, NEW o \in Ends, Close(o),
           asked' \in Seq(SUBSET (Pages \cup Attachments)), Len(asked') = row,
           DOMAIN asked' = DOMAIN asked,
           Chained(asked', Repeated \cup (IF o = "repeated" THEN {row} ELSE {}))
    PROVE  CrawlInvariant'
<1>1. CrawlTyped /\ Progress
  BY DEF CrawlInvariant
<1>2. /\ row \in 1..Reachable /\ Len(outcome) = row - 1 /\ limits = Exceeded /\ Len(asked) = row
      /\ Cardinality(RowsWith("notice")) < MaxNotices
  BY <1>1, BusyOf
<1>3. row' = row + 1 /\ fetching' = "next" /\ UNCHANGED <<adapter, listed>>
  BY DEF Close
<1>4. /\ Progress' /\ row' \in Nat /\ outcome' \in Seq(Ends)
      /\ Repeated' = Repeated \cup (IF o = "repeated" THEN {row} ELSE {})
  BY <1>1, <1>2, CloseStep
<1>5. /\ attempt' = 0 /\ requests' \in Nat
      /\ requests' <= (Retries + 1) * (1 + DetailsFetched' + Len(asked'))
  BY <1>2, <1>3, AnswerCounts
<1>6. CrawlTyped'
  BY <1>1, <1>3, <1>4, <1>5, CrawlAssumption DEF CrawlTyped
<1>7. RowsChained'
  BY <1>4 DEF RowsChained
<1>8. RequestsCounted'
  BY <1>3, <1>5 DEF RequestsCounted
<1> QED
  BY <1>4, <1>6, <1>7, <1>8 DEF CrawlInvariant

\* A document that is read, or a page or document that cannot be used.
LEMMA ReadStep ==
    ASSUME CrawlInvariant, ReadDocument \/ Warn
    PROVE  CrawlInvariant'
<1>1. PICK o \in {"notice", "warning"} : Busy /\ Answered /\ Close(o) /\ asked' = asked
  BY DEF ReadDocument, Warn, Busy
<1>2. /\ asked' \in Seq(SUBSET (Pages \cup Attachments)) /\ Len(asked') = row
      /\ DOMAIN asked' = DOMAIN asked
  BY <1>1, BusyOf DEF CrawlInvariant, CrawlTyped
<1>3. Chained(asked', Repeated \cup (IF o = "repeated" THEN {row} ELSE {}))
  <2>1. Repeated \cup {} = Repeated /\ Chained(asked, Repeated)
    BY DEF CrawlInvariant, RowsChained
  <2> QED
    BY <1>1, <2>1
<1>4. o \in Ends
  BY DEF Ends
<1> QED
  BY <1>1, <1>2, <1>3, <1>4, EndStep

\* What an earlier row asked for, as long as this one has asked for nothing.
LEMMA AskedBefore ==
    ASSUME CrawlInvariant, fetching = "detail", NEW x
    PROVE  AskedFor(x) <=> \E i \in 1..(row - 1) : x \in asked[i]
<1>1. asked[row] = {} /\ DOMAIN asked = 1..row /\ row \in Nat \ {0}
  BY BusyOf DEF CrawlInvariant, Progress, Busy
<1>2. \A i : i \in 1..row <=> i \in 1..(row - 1) \/ i = row
  BY <1>1
<1> QED
  BY <1>1, <1>2 DEF AskedFor

\* A detail page that is read, or that leads to no document.
LEMMA DetailStep ==
    ASSUME CrawlInvariant, ReadDetail
    PROVE  CrawlInvariant'
<1>1. PICK p \in Pages, d \in Attachments :
          LET pageAgain == adapter = "cms" /\ AskedFor(p) IN
          /\ asked' = [asked EXCEPT ![row] = {p} \cup {x \in {d} : ~pageAgain}]
          /\ \/ (pageAgain \/ AskedFor(d)) /\ Close("repeated")
             \/ /\ ~pageAgain /\ ~AskedFor(d) /\ fetching' = "document"
                /\ UNCHANGED <<adapter, listed, row, outcome, limits>>
  BY DEF ReadDetail
<1> DEFINE again == adapter = "cms" /\ AskedFor(p)
           X == {p} \cup {x \in {d} : ~again}
<1>2. /\ asked' = [asked EXCEPT ![row] = X]
      /\ \/ (again \/ AskedFor(d)) /\ Close("repeated")
         \/ /\ ~again /\ ~AskedFor(d) /\ fetching' = "document"
            /\ UNCHANGED <<adapter, listed, row, outcome, limits>>
  BY <1>1
<1>3. fetching = "detail" /\ Busy /\ Answered
  BY DEF ReadDetail, Busy
<1>4. /\ X \in SUBSET (Pages \cup Attachments) /\ p \in X
      /\ \A q, r \in X \cap Pages : q = r
      /\ \A e \in X \cap Attachments : e = d /\ ~again
      /\ ~again => d \in X
  BY CrawlAssumption
<1>5. \A x : AskedFor(x) <=> \E i \in 1..(row - 1) : x \in asked[i]
  BY <1>3, AskedBefore
<1>6. again => \E i \in 1..(row - 1) : p \in asked[i]
  BY <1>5
<1> HIDE DEF X, again
<1>7. /\ asked' \in Seq(SUBSET (Pages \cup Attachments)) /\ Len(asked') = row
      /\ Len(asked) = row /\ DOMAIN asked' = DOMAIN asked
  BY <1>2, <1>3, <1>4, TurnRow
<1>8. ASSUME again \/ AskedFor(d), Close("repeated")
      PROVE  CrawlInvariant'
  <2>1. \E i \in 1..(row - 1) : asked[i] \cap X # {}
    <3>1. CASE again
      BY <1>4, <1>6, <3>1
    <3>2. CASE ~again
      BY <1>4, <1>5, <1>8, <3>2
    <3> QED
      BY <3>1, <3>2
  <2>2. \A e \in X \cap Attachments : \E i \in 1..(row - 1) : e \in asked[i]
    BY <1>4, <1>5, <1>8
  <2>3. Chained(asked', Repeated \cup {row})
    BY <1>2, <1>3, <1>4, <2>1, <2>2, TurnRow
  <2>4. "repeated" \in Ends
    BY DEF Ends
  <2> QED
    BY <1>3, <1>7, <1>8, <2>3, <2>4, EndStep
<1>9. ASSUME ~again, ~AskedFor(d), fetching' = "document",
             UNCHANGED <<adapter, listed, row, outcome, limits>>
      PROVE  CrawlInvariant'
  <2>1. CrawlTyped /\ Progress
    BY DEF CrawlInvariant
  <2>2. /\ row \in 1..Reachable /\ Len(outcome) = row - 1 /\ limits = Exceeded
        /\ row \notin Repeated /\ Cardinality(RowsWith("notice")) < MaxNotices
    BY <1>3, <2>1, BusyOf
  <2>3. ~\E i \in 1..(row - 1) : asked[i] \cap X \cap Attachments # {}
    BY <1>4, <1>5, <1>9
  <2>4. Chained(asked', Repeated)
    BY <1>2, <1>3, <1>4, <2>2, <2>3, TurnRow
  <2>5. Reachable' = Reachable /\ Exceeded' = Exceeded /\ \A o : RowsWith(o)' = RowsWith(o)
    BY <1>9, ReachableStays DEF RowsWith
  <2>6. /\ attempt' = 0 /\ requests' \in Nat
        /\ requests' <= (Retries + 1) * (DetailsFetched' + Len(asked')) + attempt'
    BY <1>3, <1>7, <1>9, AnswerCounts
  <2>7. CrawlTyped'
    BY <1>7, <1>9, <2>1, <2>6, CrawlAssumption DEF CrawlTyped
  <2>8. Progress'
    <3>1. Cardinality(RowsWith("notice")') < MaxNotices
          /\ Cardinality(RowsWith("notice")') <= MaxNotices
      BY <2>1, <2>2, <2>5 DEF Progress
    <3> QED
      BY <1>7, <1>9, <2>2, <2>5, <3>1 DEF Progress, Busy
  <2>9. RowsChained'
    BY <2>4, <2>5 DEF RowsChained, Repeated
  <2>10. RequestsCounted'
    BY <1>9, <2>6 DEF RequestsCounted
  <2> QED
    BY <2>7, <2>8, <2>9, <2>10 DEF CrawlInvariant
<1> QED
  BY <1>2, <1>8, <1>9

LEMMA PageWarningStep ==
    ASSUME CrawlInvariant, WarnOfPage
    PROVE  CrawlInvariant'
<1>1. PICK p \in Pages : asked' = [asked EXCEPT ![row] = {p}]
  BY DEF WarnOfPage
<1>2. Busy /\ Answered /\ Close("warning") /\ "warning" \in Ends
  BY DEF WarnOfPage, Busy, Ends
<1> DEFINE X == {p}
<1>3. /\ X \in SUBSET (Pages \cup Attachments) /\ X \cap Attachments = {}
      /\ \A q, r \in X \cap Pages : q = r
  BY CrawlAssumption
<1>4. asked' = [asked EXCEPT ![row] = X]
  BY <1>1
<1> HIDE DEF X
<1>5. row \notin Repeated
  BY <1>2, BusyOf DEF CrawlInvariant
<1>6. ~\E i \in 1..(row - 1) : asked[i] \cap X \cap Attachments # {}
  BY <1>3
<1>7. Chained(asked', Repeated)
  BY <1>2, <1>3, <1>4, <1>5, <1>6, TurnRow
<1>8. /\ asked' \in Seq(SUBSET (Pages \cup Attachments)) /\ Len(asked') = row
      /\ DOMAIN asked' = DOMAIN asked
  BY <1>2, <1>3, <1>4, TurnRow
<1>9. Repeated \cup (IF "warning" = "repeated" THEN {row} ELSE {}) = Repeated
  OBVIOUS
<1>10. Chained(asked', Repeated \cup (IF "warning" = "repeated" THEN {row} ELSE {}))
  BY <1>7, <1>9
<1> QED
  BY <1>2, <1>8, <1>10, EndStep

\* Every step of a crawl keeps the invariant.
LEMMA CrawlKeeps ==
    ASSUME CrawlInvariant, [CrawlNext]_crawlVars
    PROVE  CrawlInvariant'
<1>1. CASE crawlVars' = crawlVars
  <2>1. /\ UNCHANGED <<adapter, listed, fetching, attempt, requests, row, asked, outcome, limits>>
    BY <1>1 DEF crawlVars
  <2>2. /\ Reachable' = Reachable /\ Exceeded' = Exceeded /\ DetailsFetched' = DetailsFetched
        /\ \A o : RowsWith(o)' = RowsWith(o)
    BY <2>1, ReachableStays DEF RowsWith, DetailsFetched, DetailsRead
  <2>3. CrawlTyped' /\ Progress'
    BY <2>1, <2>2 DEF CrawlInvariant, CrawlTyped, Progress, Busy
  <2>4. RowsChained' /\ RequestsCounted'
    BY <2>1, <2>2 DEF CrawlInvariant, RowsChained, Repeated, RequestsCounted
  <2> QED
    BY <2>3, <2>4 DEF CrawlInvariant
<1>2. CASE CrawlNext
  BY <1>2, RetryStep, ListingReadStep, NextRowStep, DetailStep, ReadStep, PageWarningStep
     DEF CrawlNext
<1> QED
  BY <1>1, <1>2

\* The facts of a crawl CrawlSound rests on: how many requests, warnings and
\* notices each row that was listed has cost (official_recruitment_archive.py,
\* cms_detail_recruitment.py, sources/http.py).
THEOREM CrawlsInvariant == CrawlSpec => []CrawlInvariant
BY InitCrawl, CrawlKeeps, PTL DEF CrawlSpec

LEMMA CrawlHolds == CrawlInvariant => CrawlSound
<1> SUFFICES ASSUME CrawlInvariant PROVE CrawlSound
  OBVIOUS
<1>1. CrawlTyped /\ Progress /\ Chained(asked, Repeated)
  BY DEF CrawlInvariant, RowsChained
<1>2. ASSUME NEW i \in RowsWith("repeated")
      PROVE  \E k \in 1..(i - 1) : \E j \in 1..k :
                /\ outcome[j] # "repeated"
                /\ asked[i] \cap asked[k] # {} /\ asked[k] \cap asked[j] # {}
  <2>1. PICK k \in 1..(i - 1) : \E j \in 1..k :
            j \notin Repeated /\ asked[i] \cap asked[k] # {} /\ asked[k] \cap asked[j] # {}
    BY <1>1 DEF Chained, Repeated
  <2>2. PICK j \in 1..k :
            j \notin Repeated /\ asked[i] \cap asked[k] # {} /\ asked[k] \cap asked[j] # {}
    BY <2>1
  <2>3. i \in 1..Len(outcome) /\ DOMAIN outcome = 1..Len(outcome) /\ Len(outcome) \in Nat
    BY <1>1, RowsOf DEF CrawlTyped
  <2>4. j \in DOMAIN outcome
    BY <2>3
  <2>5. outcome[j] # "repeated"
    BY <2>2, <2>4 DEF Repeated, RowsWith
  <2> QED
    BY <2>2, <2>5
<1>3. ASSUME NEW i \in DOMAIN asked, NEW j \in DOMAIN asked, i # j,
             asked[i] \cap asked[j] \cap Attachments # {}
      PROVE  "repeated" \in {outcome[k] : k \in {i, j} \cap DOMAIN outcome}
  <2>1. i < j \/ j < i
    BY <1>1, <1>3 DEF CrawlTyped
  <2>2. i \in Repeated \/ j \in Repeated
    BY <1>1, <1>3, <2>1 DEF Chained
  <2> QED
    BY <2>2 DEF Repeated, RowsWith
<1>4. /\ fetching = "done" => (limits = {} <=> Len(outcome) = Len(listed))
      /\ Cardinality(RowsWith("notice")) <= MaxNotices
  BY <1>1 DEF Progress
<1>5. requests <= (Retries + 1) * (1 + Cardinality(DetailsRead) + Len(asked))
  <2>1. /\ DetailsFetched \in Nat /\ Len(asked) \in Nat /\ requests \in Nat
        /\ attempt \in 0..Retries /\ Retries \in Nat
    BY <1>1, DetailsOf, CrawlAssumption DEF CrawlTyped
  <2>2. PICK m \in Nat, l \in Nat, a \in Nat, n \in Nat :
            m = DetailsFetched /\ l = Len(asked) /\ a = Retries + 1 /\ n = 1 + m + l
    <3>1. Retries + 1 \in Nat /\ 1 + DetailsFetched + Len(asked) \in Nat
      BY <2>1
    <3> QED
      BY <2>1, <3>1, Zenon
  <2>3. /\ a * (m + l - 1 + 1) = a * (m + l - 1) + a /\ a * (m + l - 1) \in Int
        /\ a * (m + l + 1) = a * (m + l) + a /\ a * (m + l) \in Int
    BY Product
  <2>4. m + l - 1 + 1 = m + l /\ m + l + 1 = 1 + m + l
    OBVIOUS
  <2>5. PICK less, same, more :
            less = a * (m + l - 1) /\ same = a * (m + l) /\ more = a * (1 + m + l)
    OBVIOUS
  <2>6. same = less + a /\ more = same + a /\ less \in Int /\ same \in Int
    <3>1. same = less + a
      BY <2>3, <2>4, <2>5
    <3>2. more = same + a
      BY <2>3, <2>4, <2>5
    <3> QED
      BY <2>3, <2>5, <3>1, <3>2
  <2>7. /\ fetching = "detail" => requests <= less + attempt
        /\ fetching = "document" => requests <= same + attempt
        /\ fetching \in {"next", "done"} => requests <= more
    BY <2>2, <2>5 DEF CrawlInvariant, RequestsCounted
  <2>8. CASE fetching \in {"listing", "failed"}
    <3>1. requests <= a
      BY <2>1, <2>2, <2>8 DEF CrawlInvariant, RequestsCounted
    <3>2. m + l = 0
      <4>1. DetailsRead = {} /\ Len(asked) = 0
        BY <1>1, <2>8 DEF Progress, DetailsRead
      <4> QED
        BY <2>2, <4>1, FS_EmptySet DEF DetailsFetched
    <3>3. same = 0
      BY <2>5, <3>2
    <3>4. requests <= more
      BY <2>1, <2>6, <3>1, <3>3
    <3> QED
      BY <2>2, <2>5, <3>4, Zenon DEF DetailsFetched
  <2>9. CASE fetching \in {"next", "detail", "document", "done"}
    <3>1. requests <= more
      BY <2>1, <2>2, <2>6, <2>7, <2>9
    <3> QED
      BY <2>2, <2>5, <3>1, Zenon DEF DetailsFetched
  <2> QED
    BY <1>1, <2>8, <2>9 DEF CrawlTyped
<1> QED
  BY <1>2, <1>3, <1>4, <1>5 DEF CrawlSound

\* Source adapters (sources/adapters/official_recruitment_archive.py,
\* dated_document_resolver.py, cms_detail_recruitment.py, sources/http.py): no
\* row of a listing is lost without a warning or a bound that is warned about,
\* no document is asked for twice, and notices and requests are bounded.
THEOREM CrawlsAreSound == CrawlSpec => []CrawlSound
BY CrawlsInvariant, CrawlHolds, PTL

----------------------------------------------------------------------------
(* Induction over numbers, and what follows for sequences.                 *)

\* A set that holds 0 and with each number the next one holds them all.
LEMMA SetInduction ==
    ASSUME NEW T, 0 \in T, \A n \in Nat : n \in T => n + 1 \in T
    PROVE  Nat \subseteq T
<1> DEFINE R == {p \in Nat \X Nat : p[1] < p[2]}
           U == Nat \ T
<1>1. IsWellFoundedOn(R, Nat)
  <2>1. OpToRel(<, Nat) = R
    BY DEF OpToRel
  <2> QED
    BY <2>1, NatLessThanWellFounded
<1> SUFFICES ASSUME U # {} PROVE FALSE
  OBVIOUS
<1>2. PICK n \in U : \A m \in U : ~ (<<m, n>> \in R)
  <2> HIDE DEF R
  <2> QED
    BY <1>1, WFMin
<1>3. n - 1 \in Nat /\ <<n - 1, n>> \in R
  BY <1>2
<1>4. n - 1 \in T
  BY <1>2, <1>3
<1> QED
  BY <1>2, <1>3, <1>4

\* A sequence of sequences is joined one after the other.
JoinedBy(seqs, g) ==
    /\ g = [i \in 1..Len(seqs) |-> g[i]]
    /\ \A i \in 1..Len(seqs) : g[i] = IF i = 1 THEN seqs[i] ELSE g[i - 1] \o seqs[i]

LEMMA JoinedIsFlat ==
    ASSUME NEW seqs, NEW n \in Nat, n # 0, Len(seqs) = n, NEW g, JoinedBy(seqs, g)
    PROVE  FlattenSeq(seqs) = g[n]
<1> DEFINE Next(f) == [i \in 1..Len(seqs) |-> IF i = 1 THEN seqs[i] ELSE f[i - 1] \o seqs[i]]
           h == CHOOSE f : f = Next(f)
<1>1. FlattenSeq(seqs) = h[n]
  BY DEF FlattenSeq
<1>2. h = Next(h)
  <2>1. g = Next(g)
    BY DEF JoinedBy
  <2> HIDE DEF Next
  <2> QED
    BY <2>1
<1> HIDE DEF h
<1>3. \A i \in 1..n : h[i] = IF i = 1 THEN seqs[i] ELSE h[i - 1] \o seqs[i]
  BY <1>2
<1>g. \A i \in 1..n : g[i] = IF i = 1 THEN seqs[i] ELSE g[i - 1] \o seqs[i]
  BY DEF JoinedBy
<1> HIDE DEF Next
<1> DEFINE T == {k \in Nat : k \in 1..n => h[k] = g[k]}
<1>4. 0 \in T
  OBVIOUS
<1>5. ASSUME NEW k \in Nat, k \in T
      PROVE  k + 1 \in T
  <2> SUFFICES ASSUME k + 1 \in 1..n PROVE h[k + 1] = g[k + 1]
    OBVIOUS
  <2>1. /\ g[k + 1] = IF k + 1 = 1 THEN seqs[k + 1] ELSE g[k + 1 - 1] \o seqs[k + 1]
        /\ h[k + 1] = IF k + 1 = 1 THEN seqs[k + 1] ELSE h[k + 1 - 1] \o seqs[k + 1]
    BY <1>3, <1>g
  <2>2. CASE k = 0
    <3>1. k + 1 = 1
      BY <2>2
    <3> QED
      BY <2>1, <3>1
  <2>3. CASE k # 0
    <3>1. h[k] = g[k] /\ k + 1 - 1 = k /\ k + 1 # 1
      BY <1>5, <2>3
    <3> QED
      BY <2>1, <3>1
  <2> QED
    BY <2>2, <2>3
<1>6. n \in T
  <2> HIDE DEF T
  <2> QED
    BY <1>4, <1>5, SetInduction
<1> QED
  BY <1>1, <1>6

\* There always is such a chain of joined sequences.
LEMMA JoinExists ==
    ASSUME NEW X, NEW n \in Nat, NEW seqs \in [1..n -> Seq(X)], Len(seqs) = n
    PROVE  \E g \in [1..n -> Seq(X)] : JoinedBy(seqs, g)
<1> DEFINE Joined(k, g) ==
               \A i \in 1..k : g[i] = IF i = 1 THEN seqs[i] ELSE g[i - 1] \o seqs[i]
           T == {k \in Nat : k \in 0..n => \E g \in [1..k -> Seq(X)] : Joined(k, g)}
<1>1. 0 \in T
  <2>1. PICK g \in [1..0 -> Seq(X)] : TRUE
    <3>1. <<>> \in Seq(X)
      OBVIOUS
    <3>2. [i \in 1..0 |-> <<>>] \in [1..0 -> Seq(X)]
      BY <3>1
    <3> QED
      BY <3>2
  <2>2. Joined(0, g)
    OBVIOUS
  <2> HIDE DEF Joined
  <2> QED
    BY <2>1, <2>2
<1>2. ASSUME NEW k \in Nat, k \in T
      PROVE  k + 1 \in T
  <2>k. k + 1 \in Nat
    OBVIOUS
  <2> SUFFICES ASSUME k + 1 \in 0..n
               PROVE  \E g \in [1..(k + 1) -> Seq(X)] : Joined(k + 1, g)
    <3> HIDE DEF Joined
    <3> QED
      BY <2>k
  <2>1. PICK f \in [1..k -> Seq(X)] : Joined(k, f)
    <3>1. k \in 0..n
      OBVIOUS
    <3> HIDE DEF Joined
    <3> QED
      BY <1>2, <3>1
  <2>2. PICK last \in Seq(X) : last = IF k = 0 THEN seqs[1] ELSE f[k] \o seqs[k + 1]
    <3>1. CASE k = 0
      <4>1. seqs[1] \in Seq(X)
        BY <3>1
      <4> QED
        BY <3>1, <4>1
    <3>2. CASE k # 0
      <4>1. k \in 1..k /\ k + 1 \in 1..n
        BY <3>2
      <4>2. f[k] \in Seq(X) /\ seqs[k + 1] \in Seq(X)
        BY <4>1
      <4>3. f[k] \o seqs[k + 1] \in Seq(X)
        BY <4>2
      <4> QED
        BY <3>2, <4>3
    <3> QED
      BY <3>1, <3>2
  <2> DEFINE g == [i \in 1..(k + 1) |-> IF i = k + 1 THEN last ELSE f[i]]
  <2>3. g \in [1..(k + 1) -> Seq(X)]
    OBVIOUS
  <2>4. \A i \in 1..k : g[i] = f[i]
    OBVIOUS
  <2>5. g[k + 1] = last
    OBVIOUS
  <2> HIDE DEF g
  <2>6. ASSUME NEW i \in 1..(k + 1)
        PROVE  g[i] = IF i = 1 THEN seqs[i] ELSE g[i - 1] \o seqs[i]
    <3>1. CASE i = k + 1
      BY <2>2, <2>4, <2>5, <3>1
    <3>2. CASE i # k + 1
      <4>1. i \in 1..k /\ (i # 1 => i - 1 \in 1..k)
        BY <3>2
      <4> QED
        BY <2>1, <2>4, <4>1
    <3> QED
      BY <3>1, <3>2
  <2> QED
    BY <2>3, <2>6
<1>3. n \in T
  <2> HIDE DEF T
  <2> QED
    BY <1>1, <1>2, SetInduction
<1>4. PICK g \in [1..n -> Seq(X)] : Joined(n, g)
  BY <1>3
<1>5. g = [i \in 1..n |-> g[i]]
  OBVIOUS
<1> QED
  BY <1>4, <1>5 DEF JoinedBy

----------------------------------------------------------------------------
(* Listings. *)

\* What a Master may have: a revision, or none.
RevisionsOf(m) == MasterRevisions[m] \cup {NoRevision}
\* A row that was current at some time.
RowOf(m, entry) == \E r \in MasterRevisions[m] : \E j \in r.jobs :
                     entry = [master |-> m, path |-> r.path, job |-> j]

PostRowsOf(m) == {entry \in Rows(m) : entry.job.post}

ListingInvariant ==
    /\ DOMAIN current = Masters /\ \A m \in Masters : current[m] \in RevisionsOf(m)
    /\ reading \in {"none", "posts"}
    /\ \A entry \in listing : entry.master \in Masters /\ RowOf(entry.master, entry)
    /\ reading = "posts" => /\ \A entry \in listing : entry.job.post
                            /\ \A m \in Masters \ moved : Listed(m) = PostRowsOf(m)
    /\ reading = "none" => \A m \in Masters \ moved : Listed(m) = Rows(m)
    /\ stable => reading = "none" /\ moved = {}
    /\ \A x, y \in listing : x.job.id = y.job.id => x = y

\* The rows of a revision.
LEMMA RowsAre ==
    ASSUME ListingInvariant, NEW m \in Masters, NEW entry \in Rows(m)
    PROVE  /\ current[m] \in MasterRevisions[m] /\ entry.job \in current[m].jobs
           /\ entry = [master |-> m, path |-> current[m].path, job |-> entry.job]
           /\ entry.master = m /\ RowOf(m, entry)
<1>1. PICK j \in current[m].jobs : entry = [master |-> m, path |-> current[m].path, job |-> j]
  BY DEF Rows
<1>2. current[m] # NoRevision
  BY <1>1 DEF NoRevision
<1>3. current[m] \in MasterRevisions[m]
  BY <1>2 DEF ListingInvariant, RevisionsOf
<1> QED
  BY <1>1, <1>3 DEF RowOf

LEMMA CurrentRowsAre ==
    ASSUME ListingInvariant, NEW entry
    PROVE  entry \in CurrentRows <=> entry.master \in Masters /\ entry \in Rows(entry.master)
BY RowsAre DEF CurrentRows

\* The ids of the jobs of a revision differ.
LEMMA IdsDiffer ==
    ASSUME NEW m \in Masters, NEW r \in MasterRevisions[m],
           NEW j \in r.jobs, NEW k \in r.jobs, j.id = k.id
    PROVE  j = k
<1> DEFINE S == r.jobs
           T == {x.id : x \in S}
           F == [x \in S |-> x.id]
<1>1. IsFiniteSet(S) /\ Cardinality(T) = Cardinality(S)
  BY ListingAssumption
<1>2. F \in Surjection(S, T)
  <2>1. F \in [S -> T] /\ \A t \in T : \E x \in S : F[x] = t
    OBVIOUS
  <2> QED
    BY <2>1 DEF Surjection
<1>3. F \in Injection(S, T)
  BY <1>1, <1>2, FS_SurjSameCardinalityImpliesInj
<1>4. F[j] = F[k]
  OBVIOUS
<1> HIDE DEF F, T
<1> QED
  BY <1>3, <1>4 DEF Injection, IsInjective

\* Jobs of Posts and of whole Masters.
LEMMA JobOf ==
    ASSUME NEW m \in Masters, NEW r \in MasterRevisions[m], NEW j \in r.jobs
    PROVE  /\ j \in Job
           /\ ~j.post => r.jobs = {j} /\ j.id = m
           /\ j.post => j.id \notin Masters
           /\ \A n \in Masters : \A q \in MasterRevisions[n] : \A k \in q.jobs :
                 j.id = k.id => m = n
<1>1. j \in Job
  BY ListingAssumption
<1>0. \A x \in r.jobs : IF x.post THEN x.id \notin Masters ELSE r.jobs = {x} /\ x.id = m
  BY ListingAssumption, ZenonT(60)
<1>4. \A x \in r.jobs : \A n \in Masters : \A q \in MasterRevisions[n] : \A k \in q.jobs :
         x.id = k.id => m = n
  BY ListingAssumption, ZenonT(60)
<1>2. IF j.post THEN j.id \notin Masters ELSE r.jobs = {j} /\ j.id = m
  BY <1>0, Zenon
<1>3. \A n \in Masters : \A q \in MasterRevisions[n] : \A k \in q.jobs : j.id = k.id => m = n
  BY <1>4, Zenon
<1> QED
  BY <1>1, <1>2, <1>3

\* Two current rows of the same job.
LEMMA CurrentOnce ==
    ASSUME ListingInvariant, NEW x \in CurrentRows, NEW y \in CurrentRows, x.job.id = y.job.id
    PROVE  x = y
<1>1. /\ x.master \in Masters /\ x \in Rows(x.master)
      /\ y.master \in Masters /\ y \in Rows(y.master)
  BY CurrentRowsAre
<1>2. /\ current[x.master] \in MasterRevisions[x.master] /\ x.job \in current[x.master].jobs
      /\ x = [master |-> x.master, path |-> current[x.master].path, job |-> x.job]
  BY <1>1, RowsAre
<1>3. /\ current[y.master] \in MasterRevisions[y.master] /\ y.job \in current[y.master].jobs
      /\ y = [master |-> y.master, path |-> current[y.master].path, job |-> y.job]
  BY <1>1, RowsAre
<1>4. x.master = y.master
  BY <1>1, <1>2, <1>3, JobOf
<1>5. x.job = y.job
  BY <1>1, <1>2, <1>3, <1>4, IdsDiffer
<1> QED
  BY <1>2, <1>3, <1>4, <1>5

LEMMA InitListing == ListingInit => ListingInvariant
<1> SUFFICES ASSUME ListingInit PROVE ListingInvariant
  OBVIOUS
<1>1. \A m \in Masters : Rows(m) = {} /\ Listed(m) = {}
  BY DEF ListingInit, Rows, Listed, NoRevision
<1> QED
  BY <1>1 DEF ListingInit, ListingInvariant, RevisionsOf

LEMMA ChangeStep ==
    ASSUME ListingInvariant, NEW m \in Masters, NEW r \in RevisionsOf(m),
           current' = [current EXCEPT ![m] = r], moved' = moved \cup {m}, stable' = FALSE,
           UNCHANGED <<reading, listing>>
    PROVE  ListingInvariant'
<1>1. /\ DOMAIN current' = Masters
      /\ \A n \in Masters : current'[n] = IF n = m THEN r ELSE current[n]
  BY DEF ListingInvariant
<1>2. \A n \in Masters : current'[n] \in RevisionsOf(n)
  BY <1>1 DEF ListingInvariant
<1>3. \A n \in Masters \ moved' : /\ n \in Masters \ moved /\ Rows(n)' = Rows(n)
                                  /\ PostRowsOf(n)' = PostRowsOf(n)
  BY <1>1 DEF Rows, PostRowsOf
<1>4. \A n : Listed(n)' = Listed(n)
  BY DEF Listed
<1> QED
  BY <1>1, <1>2, <1>3, <1>4 DEF ListingInvariant

LEMMA BeginStep ==
    ASSUME ListingInvariant, BeginListing
    PROVE  ListingInvariant'
<1>1. /\ reading' = "posts" /\ moved' = {} /\ listing' = PostRows /\ stable' = FALSE
      /\ current' = current
  BY DEF BeginListing
<1>2. PostRows \subseteq CurrentRows /\ \A entry \in PostRows : entry.job.post
  BY DEF PostRows
<1>3. \A entry \in PostRows : entry.master \in Masters /\ RowOf(entry.master, entry)
  BY <1>2, CurrentRowsAre, RowsAre
<1>4. ASSUME NEW m \in Masters
      PROVE  Listed(m)' = PostRowsOf(m)'
  <2>1. Listed(m)' = {entry \in PostRows : entry.master = m}
    BY <1>1 DEF Listed
  <2>2. PostRowsOf(m)' = {entry \in Rows(m) : entry.job.post}
    BY <1>1 DEF PostRowsOf, Rows
  <2>3. \A entry : entry \in PostRows /\ entry.master = m <=> entry \in Rows(m) /\ entry.job.post
    <3>1. \A entry : entry \in Rows(m) => entry.master = m
      BY RowsAre
    <3> QED
      BY <3>1, CurrentRowsAre DEF PostRows
  <2> QED
    BY <2>1, <2>2, <2>3
<1>5. \A x, y \in PostRows : x.job.id = y.job.id => x = y
  BY <1>2, CurrentOnce
<1>6. \A m, entry : RowOf(m, entry)' = RowOf(m, entry)
  BY DEF RowOf
<1> QED
  BY <1>1, <1>2, <1>3, <1>4, <1>5, <1>6 DEF ListingInvariant, RevisionsOf

LEMMA EndListingStep ==
    ASSUME ListingInvariant, EndListing
    PROVE  ListingInvariant'
<1>1. /\ reading = "posts" /\ reading' = "none" /\ listing' = listing \cup LegacyRows
      /\ stable' = (moved = {}) /\ current' = current /\ moved' = moved
  BY DEF EndListing, ListingInvariant
<1>2. LegacyRows \subseteq CurrentRows /\ \A entry \in LegacyRows : ~entry.job.post
  BY DEF LegacyRows, PostRows
<1>3. \A entry \in listing' : entry.master \in Masters /\ RowOf(entry.master, entry)
  BY <1>1, <1>2, CurrentRowsAre, RowsAre DEF ListingInvariant
<1>4. ASSUME NEW m \in Masters \ moved'
      PROVE  Listed(m)' = Rows(m)'
  <2>1. Listed(m)' = Listed(m) \cup {entry \in LegacyRows : entry.master = m}
    BY <1>1 DEF Listed
  <2>2. Listed(m) = {entry \in Rows(m) : entry.job.post}
    BY <1>1 DEF ListingInvariant, PostRowsOf
  <2>3. \A entry : entry \in LegacyRows /\ entry.master = m <=> entry \in Rows(m) /\ ~entry.job.post
    <3>1. \A entry : entry \in Rows(m) => entry.master = m
      BY RowsAre
    <3> QED
      BY <3>1, CurrentRowsAre DEF LegacyRows, PostRows
  <2>4. Rows(m)' = Rows(m)
    BY <1>1 DEF Rows
  <2>5. Listed(m)' = Rows(m)
    BY <2>1, <2>2, <2>3
  <2> QED
    BY <2>4, <2>5
<1>5. ASSUME NEW x \in listing', NEW y \in listing', x.job.id = y.job.id
      PROVE  x = y
  <2>1. CASE x \in listing /\ y \in listing
    BY <1>5, <2>1 DEF ListingInvariant
  <2>2. CASE x \in LegacyRows /\ y \in LegacyRows
    BY <1>2, <1>5, <2>2, CurrentOnce
  <2>3. ASSUME NEW v \in listing, NEW w \in LegacyRows PROVE v.job.id # w.job.id
    <3>1. v.job.post /\ v.master \in Masters /\ RowOf(v.master, v)
      BY <1>1 DEF ListingInvariant
    <3>2. PICK r \in MasterRevisions[v.master] : \E j \in r.jobs :
              v = [master |-> v.master, path |-> r.path, job |-> j]
      BY <3>1 DEF RowOf
    <3>3. v.job \in r.jobs
      BY <3>2
    <3>4. v.job.id \notin Masters
      BY <3>1, <3>3, JobOf
    <3>5. ~w.job.post /\ w.master \in Masters /\ w \in Rows(w.master)
      BY <1>2, CurrentRowsAre
    <3>6. current[w.master] \in MasterRevisions[w.master] /\ w.job \in current[w.master].jobs
      BY <3>5, RowsAre
    <3>7. w.job.id = w.master
      BY <3>5, <3>6, JobOf
    <3> QED
      BY <3>4, <3>5, <3>7
  <2> QED
    BY <1>1, <1>5, <2>1, <2>2, <2>3
<1>6. \A m, entry : RowOf(m, entry)' = RowOf(m, entry)
  BY DEF RowOf
<1>7. /\ DOMAIN current' = Masters /\ (\A m \in Masters : current[m] \in RevisionsOf(m))'
  BY <1>1 DEF ListingInvariant, RevisionsOf
<1> QED
  BY <1>1, <1>3, <1>4, <1>5, <1>6, <1>7 DEF ListingInvariant

LEMMA ListingKeeps ==
    ASSUME ListingInvariant, [ListingNext]_listingVars
    PROVE  ListingInvariant'
<1>1. CASE listingVars' = listingVars
  BY <1>1 DEF listingVars, ListingInvariant, Listed, Rows, PostRowsOf, RevisionsOf, RowOf
<1>2. ASSUME NEW m \in Masters, Withdraw(m) PROVE ListingInvariant'
  <2>1. NoRevision \in RevisionsOf(m)
    BY DEF RevisionsOf
  <2> QED
    BY <1>2, <2>1, ChangeStep DEF Withdraw
<1>3. ASSUME NEW m \in Masters, NEW r \in MasterRevisions[m], PublishRevision(m, r)
      PROVE  ListingInvariant'
  <2>1. r \in RevisionsOf(m)
    BY DEF RevisionsOf
  <2> QED
    BY <1>3, <2>1, ChangeStep DEF PublishRevision
<1> QED
  BY <1>1, <1>2, <1>3, BeginStep, EndListingStep DEF ListingNext

\* app/repositories/public_recruitments.py, list_current_active: between the two
\* reads of a listing, what was read of a Master nobody published is what is
\* current of its Posts, and after them all that is current of it.
THEOREM ListingsInvariant == ListingSpec => []ListingInvariant
BY InitListing, ListingKeeps, PTL DEF ListingSpec

LEMMA RowsHold == ListingInvariant => RowsSound
<1> SUFFICES ASSUME ListingInvariant PROVE RowsSound
  OBVIOUS
<1>1. ASSUME NEW m \in Masters, m \notin moved
      PROVE  Cardinality({entry.path : entry \in Listed(m)}) <= 1
  <2>1. Listed(m) \subseteq Rows(m)
    BY <1>1 DEF ListingInvariant, PostRowsOf
  <2>2. \A entry \in Rows(m) : entry.path = current[m].path
    BY RowsAre
  <2> DEFINE paths == {entry.path : entry \in Listed(m)}
  <2>3. paths = {} \/ paths = {current[m].path}
    BY <2>1, <2>2
  <2> HIDE DEF paths
  <2>4. Cardinality(paths) \in {0, 1}
    BY <2>3, FS_EmptySet, FS_Singleton
  <2> QED
    BY <2>4 DEF paths
<1>2. ASSUME NEW m \in Masters
      PROVE  /\ Cardinality({entry.path : entry \in Listed(m)}) > 1 => m \in moved
             /\ reading = "none" /\ m \notin moved => Listed(m) = Rows(m)
  <2>1. ASSUME m \notin moved PROVE ~(Cardinality({entry.path : entry \in Listed(m)}) > 1)
    <3>1. Cardinality({entry.path : entry \in Listed(m)}) <= 1
      BY <1>1, <2>1
    <3>2. IsFiniteSet({entry.path : entry \in Listed(m)})
      <4>1. \A entry \in Rows(m) : entry.path = current[m].path
        BY RowsAre
      <4>2. Listed(m) \subseteq Rows(m)
        BY <2>1 DEF ListingInvariant, PostRowsOf
      <4>3. {entry.path : entry \in Listed(m)} \subseteq {current[m].path}
        BY <4>1, <4>2
      <4> QED
        BY <4>3, FS_Singleton, FS_Subset
    <3>3. Cardinality({entry.path : entry \in Listed(m)}) \in Nat
      BY <3>2, FS_CardinalityType
    <3>4. PICK c \in Nat : c = Cardinality({entry.path : entry \in Listed(m)})
      BY <3>3
    <3>5. ~(c > 1)
      BY <3>1, <3>4
    <3> QED
      BY <3>4, <3>5
  <2> QED
    BY <2>1 DEF ListingInvariant
<1>3. ASSUME reading = "none", stable
      PROVE  listing = CurrentRows
  <2>1. \A m \in Masters : Listed(m) = Rows(m)
    BY <1>3 DEF ListingInvariant
  <2>2. \A entry : entry \in listing <=> entry.master \in Masters /\ entry \in Rows(entry.master)
    <3>1. ASSUME NEW entry \in listing 
          PROVE  entry.master \in Masters /\ entry \in Rows(entry.master)
      <4>1. entry.master \in Masters
        BY DEF ListingInvariant
      <4>2. entry \in Listed(entry.master)
        BY DEF Listed
      <4> QED
        BY <2>1, <4>1, <4>2
    <3>2. ASSUME NEW entry, entry.master \in Masters, entry \in Rows(entry.master)
          PROVE  entry \in listing
      BY <2>1, <3>2 DEF Listed
    <3> QED
      BY <3>1, <3>2
  <2> QED
    BY <2>2, CurrentRowsAre
<1>4. \A x, y \in listing : x.job.id = y.job.id => x = y
  BY DEF ListingInvariant
<1> QED
  BY <1>2, <1>3, <1>4 DEF RowsSound

\* Public recruitments (app/services/public_recruitments.py): a listing shows
\* what was current, each job once, whatever is published between its two
\* reads; only a Master that moved meanwhile can be shown of two revisions or
\* not at all.
THEOREM ListingsAreSound == ListingSpec => []RowsSound
BY ListingsInvariant, RowsHold, PTL

----------------------------------------------------------------------------
(* Sorting.                                                                *)

\* How many come before x, by the pairs of R.
Place(S, R, x) == Cardinality({y \in S : <<y, x>> \in R})

\* In a finite set with a strict total order, each place is taken.
LEMMA PlacesTaken ==
    ASSUME NEW S, IsFiniteSet(S), NEW R,
           \A x \in S : <<x, x>> \notin R,
           \A x, y, z \in S : <<x, y>> \in R /\ <<y, z>> \in R => <<x, z>> \in R,
           \A x, y \in S : x # y => <<x, y>> \in R \/ <<y, x>> \in R
    PROVE  /\ Cardinality(S) \in Nat
           /\ \A x \in S : Place(S, R, x) \in 0..(Cardinality(S) - 1)
           /\ \A x, y \in S : <<x, y>> \in R => Place(S, R, x) < Place(S, R, y)
           /\ \A i \in 0..(Cardinality(S) - 1) : \E x \in S : Place(S, R, x) = i
<1> DEFINE Lower(x) == {y \in S : <<y, x>> \in R}
<1>n. PICK n \in Nat : n = Cardinality(S)
  BY FS_CardinalityType
<1>1. ASSUME NEW x \in S
      PROVE  IsFiniteSet(Lower(x)) /\ Cardinality(Lower(x)) \in 0..(n - 1)
  <2>1. Lower(x) \in SUBSET (S \ {x})
    OBVIOUS
  <2>2. IsFiniteSet(S \ {x}) /\ Cardinality(S \ {x}) = n - 1
    BY FS_RemoveElement, <1>n
  <2> HIDE DEF Lower
  <2>3. IsFiniteSet(Lower(x)) /\ Cardinality(Lower(x)) <= n - 1
    BY <2>1, <2>2, FS_Subset
  <2>4. Cardinality(Lower(x)) \in Nat
    BY <2>3, FS_CardinalityType
  <2> QED
    BY <2>3, <2>4
<1>2. ASSUME NEW x \in S, NEW y \in S, <<x, y>> \in R
      PROVE  Cardinality(Lower(x)) < Cardinality(Lower(y))
  <2>1. Lower(x) \in SUBSET Lower(y)
    BY <1>2
  <2>2. x \in Lower(y) /\ x \notin Lower(x)
    BY <1>2
  <2> HIDE DEF Lower
  <2>3. Lower(x) # Lower(y)
    BY <2>2
  <2>4. /\ Cardinality(Lower(x)) <= Cardinality(Lower(y))
        /\ Cardinality(Lower(y)) = Cardinality(Lower(x)) => Lower(y) = Lower(x)
    BY <1>1, <2>1, FS_Subset
  <2>5. Cardinality(Lower(x)) \in Nat /\ Cardinality(Lower(y)) \in Nat
    BY <1>1, FS_CardinalityType
  <2> QED
    BY <2>3, <2>4, <2>5
<1> DEFINE place == [x \in S |-> Cardinality(Lower(x))]
<1> HIDE DEF Lower
<1>3. place \in [S -> 0..(n - 1)]
  BY <1>1
<1>4. \A x, y \in S : place[x] = place[y] => x = y
  <2> SUFFICES ASSUME NEW x \in S, NEW y \in S, x # y PROVE place[x] # place[y]
    OBVIOUS
  <2>1. Cardinality(Lower(x)) \in Int /\ Cardinality(Lower(y)) \in Int
    BY <1>1
  <2>2. CASE <<x, y>> \in R
    BY <1>2, <2>1, <2>2
  <2>3. CASE <<y, x>> \in R
    BY <1>2, <2>1, <2>3
  <2> QED
    BY <2>2, <2>3
<1>5. place \in Injection(S, 0..(n - 1))
  <2> HIDE DEF place
  <2> QED
    BY <1>3, <1>4 DEF Injection, IsInjective
<1>6. IsFiniteSet(0..(n - 1)) /\ Cardinality(0..(n - 1)) = n
  BY FS_Interval
<1>7. place \in Surjection(S, 0..(n - 1))
  <2> HIDE DEF place
  <2> QED
    BY <1>5, <1>6, <1>n, FS_Injection
<1>8. \A i \in 0..(n - 1) : \E x \in S : Cardinality(Lower(x)) = i
  <2>1. \A i \in 0..(n - 1) : \E x \in S : place[x] = i
    <3> HIDE DEF place
    <3> QED
      BY <1>7 DEF Surjection
  <2> QED
    BY <2>1
<1>9. \A x : Place(S, R, x) = Cardinality(Lower(x))
  BY DEF Place, Lower
<1> QED
  BY <1>n, <1>1, <1>2, <1>8, <1>9

\* The keys of jobs are numbers.
LEMMA KeyOf ==
    ASSUME NEW j \in Job
    PROVE  /\ SortKey(j)[1] \in 1..5 /\ SortKey(j)[2] \in Int /\ SortKey(j)[3] = j.id
           /\ j.id \in Nat /\ j.end \in Int
           /\ Lifecycle(j) = "OPEN" <=> SortKey(j)[1] = 1
           /\ Lifecycle(j) = "OPEN" => SortKey(j)[2] = j.end
<1>1. PICK start \in Nat \cup {-1}, end \in Nat \cup {-1} : start = j.start /\ end = j.end
  BY DEF Job, NoDate
<1>2. j.id \in Nat
  BY DEF Job
<1>3. PICK phase : phase = Lifecycle(j)
  OBVIOUS
<1>4. phase \in {"OPEN", "RECENTLY_CLOSED", "UPCOMING", "CLOSED", "UNKNOWN"}
  BY <1>3 DEF Lifecycle, ClassifyJob
<1>5. PICK rank : rank = CHOOSE n \in DOMAIN Lifecycles : Lifecycles[n] = phase
  OBVIOUS
<1>6. rank \in 1..5 /\ (rank = 1 <=> phase = "OPEN")
  <2>1. DOMAIN Lifecycles = 1..5
    BY DEF Lifecycles
  <2>2. \E n \in 1..5 : Lifecycles[n] = phase
    <3>1. /\ Lifecycles[1] = "OPEN" /\ Lifecycles[2] = "RECENTLY_CLOSED" /\ Lifecycles[3] = "UPCOMING"
          /\ Lifecycles[4] = "CLOSED" /\ Lifecycles[5] = "UNKNOWN"
      BY DEF Lifecycles
    <3> QED
      BY <1>4, <3>1
  <2>3. rank \in 1..5 /\ Lifecycles[rank] = phase
    BY <1>5, <2>1, <2>2
  <2>4. \A n \in 1..5 : Lifecycles[n] = "OPEN" <=> n = 1
    BY DEF Lifecycles
  <2> QED
    BY <2>3, <2>4
<1>7. PICK second : second = CASE phase = "OPEN" -> end
                               [] phase \in {"RECENTLY_CLOSED", "CLOSED"} -> 0 - end
                               [] OTHER -> IF phase = "UPCOMING" THEN start ELSE 0
  OBVIOUS
<1>8. second \in Int /\ (phase = "OPEN" => second = end)
  BY <1>1, <1>4, <1>7
<1>9. SortKey(j) = <<rank, second, j.id>>
  BY <1>1, <1>3, <1>5, <1>7 DEF SortKey, ClosedJob
<1> QED
  BY <1>1, <1>2, <1>3, <1>6, <1>8, <1>9

\* The rows that are listed are those of some revision.
LEMMA ListedJob ==
    ASSUME ListingInvariant, NEW entry \in listing
    PROVE  entry.job \in Job /\ entry.path \in {"VERIFIED_NO_REVIEW", "HUMAN_REVIEW"}
<1>1. entry.master \in Masters /\ RowOf(entry.master, entry)
  BY DEF ListingInvariant
<1>2. PICK r \in MasterRevisions[entry.master] : \E j \in r.jobs :
          entry = [master |-> entry.master, path |-> r.path, job |-> j]
  BY <1>1 DEF RowOf
<1>3. entry.job \in r.jobs /\ entry.path = r.path
  BY <1>2
<1>4. entry.job \in Job
  BY <1>1, <1>3, JobOf
<1>5. r.path \in {"VERIFIED_NO_REVIEW", "HUMAN_REVIEW"}
  BY <1>1, ListingAssumption
<1> QED
  BY <1>3, <1>4, <1>5

\* Rows in order: each once, and each after those it does not precede.
LEMMA OrderOf ==
    ASSUME ListingInvariant, NEW S \in SUBSET listing, IsFiniteSet(S)
    PROVE  /\ Cardinality(S) \in Nat
           /\ InOrder(S) \in [1..Cardinality(S) -> S]
           /\ \A x \in S : \E i \in 1..Cardinality(S) : InOrder(S)[i] = x
           /\ \A i, j \in 1..Cardinality(S) : i < j =>
                 Precedes(SortKey(InOrder(S)[i].job), SortKey(InOrder(S)[j].job))
<1> DEFINE R == {p \in S \X S : Precedes(SortKey(p[1].job), SortKey(p[2].job))}
<1>n. PICK n : n = Cardinality(S)
  OBVIOUS
<1>0. \A x, y \in S : <<x, y>> \in R <=> Precedes(SortKey(x.job), SortKey(y.job))
  OBVIOUS
<1>1. \A x \in S : /\ SortKey(x.job)[1] \in Int /\ SortKey(x.job)[2] \in Int
                   /\ SortKey(x.job)[3] = x.job.id /\ x.job.id \in Int
  <2>1. ASSUME NEW x \in S
        PROVE  /\ SortKey(x.job)[1] \in 1..5 /\ SortKey(x.job)[2] \in Int
               /\ SortKey(x.job)[3] = x.job.id /\ x.job.id \in Nat
    BY ListedJob, KeyOf
  <2> QED
    BY <2>1
<1>2. \A x \in S : ~Precedes(SortKey(x.job), SortKey(x.job))
  BY <1>1 DEF Precedes
<1>3. \A x, y, z \in S : /\ Precedes(SortKey(x.job), SortKey(y.job))
                         /\ Precedes(SortKey(y.job), SortKey(z.job))
                         => Precedes(SortKey(x.job), SortKey(z.job))
  BY <1>1 DEF Precedes
<1>4. \A x, y \in S : x # y => \/ Precedes(SortKey(x.job), SortKey(y.job))
                               \/ Precedes(SortKey(y.job), SortKey(x.job))
  <2> SUFFICES ASSUME NEW x \in S, NEW y \in S, x # y
               PROVE  \/ Precedes(SortKey(x.job), SortKey(y.job))
                      \/ Precedes(SortKey(y.job), SortKey(x.job))
    OBVIOUS
  <2>1. x.job.id # y.job.id
    BY DEF ListingInvariant
  <2> QED
    BY <1>1, <2>1 DEF Precedes
<1>5. \A x \in S : Cardinality(Before(S, x)) = Place(S, R, x)
  <2>1. \A x \in S : Before(S, x) = {y \in S : <<y, x>> \in R}
    BY <1>0 DEF Before
  <2> QED
    BY <2>1 DEF Place
<1> HIDE DEF R
<1>6. /\ n \in Nat
      /\ \A x \in S : Place(S, R, x) \in 0..(n - 1)
      /\ \A x, y \in S : <<x, y>> \in R => Place(S, R, x) < Place(S, R, y)
      /\ \A i \in 0..(n - 1) : \E x \in S : Place(S, R, x) = i
  <2>1. \A x \in S : <<x, x>> \notin R
    BY <1>0, <1>2
  <2>2. \A x, y, z \in S : <<x, y>> \in R /\ <<y, z>> \in R => <<x, z>> \in R
    BY <1>0, <1>3
  <2>3. \A x, y \in S : x # y => <<x, y>> \in R \/ <<y, x>> \in R
    BY <1>0, <1>4
  <2> QED
    BY <1>n, <2>1, <2>2, <2>3, PlacesTaken
<1> DEFINE s == InOrder(S)
<1>7. s = [i \in 1..n |-> CHOOSE x \in S : Cardinality(Before(S, x)) = i - 1]
  BY <1>n DEF InOrder
<1> HIDE DEF s
<1>8. ASSUME NEW i \in 1..n
      PROVE  s[i] \in S /\ Cardinality(Before(S, s[i])) = i - 1
  <2>1. i - 1 \in 0..(n - 1)
    BY <1>6
  <2>2. \E x \in S : Cardinality(Before(S, x)) = i - 1
    BY <1>5, <1>6, <2>1
  <2>3. s[i] = CHOOSE x \in S : Cardinality(Before(S, x)) = i - 1
    BY <1>7
  <2> QED
    BY <2>2, <2>3
<1>9. ASSUME NEW x \in S, NEW y \in S, Cardinality(Before(S, x)) < Cardinality(Before(S, y))
      PROVE  Precedes(SortKey(x.job), SortKey(y.job))
  <2>0. Cardinality(Before(S, x)) \in Int /\ Cardinality(Before(S, y)) \in Int
    BY <1>5, <1>6
  <2>1. x # y
    BY <1>9, <2>0
  <2>2. ~ <<y, x>> \in R
    <3>1. <<y, x>> \in R => Cardinality(Before(S, y)) < Cardinality(Before(S, x))
      BY <1>5, <1>6
    <3> QED
      BY <1>9, <2>0, <3>1
  <2> QED
    BY <1>0, <1>4, <2>1, <2>2
<1>10. s \in [1..n -> S]
  BY <1>7, <1>8
<1>11. ASSUME NEW x \in S
       PROVE  \E i \in 1..n : s[i] = x
  <2>1. PICK c \in 0..(n - 1) : c = Cardinality(Before(S, x))
    BY <1>5, <1>6
  <2>2. c + 1 \in 1..n /\ (c + 1) - 1 = c
    BY <1>6
  <2>3. s[c + 1] \in S /\ Cardinality(Before(S, s[c + 1])) = c
    BY <1>8, <2>2
  <2>4. PICK y \in S : y = s[c + 1]
    BY <2>3
  <2>5. y = x
    <3>1. ~ <<x, y>> \in R /\ ~ <<y, x>> \in R
      <4>1. Cardinality(Before(S, x)) = c /\ Cardinality(Before(S, y)) = c
        BY <2>1, <2>3, <2>4
      <4>2. ~(c < c)
        OBVIOUS
      <4> QED
        BY <1>5, <1>6, <4>1, <4>2
    <3> QED
      BY <1>0, <1>4, <3>1
  <2> QED
    BY <2>2, <2>4, <2>5
<1>12. ASSUME NEW i \in 1..n, NEW j \in 1..n, i < j
       PROVE  Precedes(SortKey(s[i].job), SortKey(s[j].job))
  <2>1. Cardinality(Before(S, s[i])) < Cardinality(Before(S, s[j]))
    BY <1>8, <1>12
  <2> QED
    BY <1>8, <1>9, <2>1
<1> QED
  BY <1>n, <1>6, <1>10, <1>11, <1>12 DEF s

----------------------------------------------------------------------------
(* The pages of a listing.                                                 *)

\* A sequence is its first part followed by the rest.
LEMMA PartsJoin ==
    ASSUME NEW X, NEW s \in Seq(X), NEW a \in 0..Len(s), NEW b \in 0..Len(s), a <= b
    PROVE  SubSeq(s, 1, b) = SubSeq(s, 1, a) \o SubSeq(s, a + 1, b)
<1> DEFINE p == SubSeq(s, 1, a)
           q == SubSeq(s, a + 1, b)
<1>1. p \in Seq(X) /\ Len(p) = a /\ \A i \in 1..a : p[i] = s[i]
  OBVIOUS
<1>2. q \in Seq(X) /\ Len(q) = b - a /\ \A i \in 1..(b - a) : q[i] = s[a + i]
  OBVIOUS
<1>3. SubSeq(s, 1, b) \in Seq(X) /\ Len(SubSeq(s, 1, b)) = b
      /\ \A i \in 1..b : SubSeq(s, 1, b)[i] = s[i]
  OBVIOUS
<1> HIDE DEF p, q
<1>4. p \o q \in Seq(X) /\ Len(p \o q) = b
  <2>1. Len(p \o q) = Len(p) + Len(q) /\ p \o q \in Seq(X)
    BY <1>1, <1>2
  <2>2. a + (b - a) = b
    OBVIOUS
  <2> QED
    BY <1>1, <1>2, <2>1, <2>2
<1>5. ASSUME NEW i \in 1..b PROVE (p \o q)[i] = s[i]
  <2>1. CASE i <= a
    BY <1>1, <1>2, <2>1
  <2>2. CASE ~(i <= a)
    <3>1. i - a \in 1..(b - a) /\ a + (i - a) = i
      BY <2>2
    <3>2. (p \o q)[i] = q[i - a]
      BY <1>1, <1>2, <2>2
    <3> QED
      BY <1>2, <3>1, <3>2
  <2> QED
    BY <2>1, <2>2
<1>6. SubSeq(s, 1, b) = [i \in 1..b |-> s[i]]
  BY <1>3
<1>7. p \o q = [i \in 1..b |-> s[i]]
  <2>1. PICK r \in Seq(X) : r = p \o q
    BY <1>4
  <2>2. Len(r) = b /\ \A i \in 1..b : r[i] = s[i]
    BY <1>4, <1>5, <2>1
  <2>3. r = [i \in 1..b |-> s[i]]
    BY <2>2
  <2> QED
    BY <2>1, <2>3
<1> QED
  BY <1>6, <1>7 DEF p, q

\* Where each page ends.
PageEnd(n, size, i) == IF i * size < n THEN i * size ELSE n

\* The page i is from after the end of the one before it to its own.
PageEnds(n, size, pages, i) ==
    /\ PageEnd(n, size, i) \in 0..n /\ PageEnd(n, size, i - 1) \in 0..n
    /\ PageEnd(n, size, i - 1) <= PageEnd(n, size, i)
    /\ PageEnd(n, size, i - 1) = (i - 1) * size
    /\ PageEnd(n, size, i) - PageEnd(n, size, i - 1) =
          IF i < pages THEN size ELSE n - (i - 1) * size

LEMMA PageNumbers ==
    ASSUME NEW n \in Nat, NEW size \in 1..3, NEW pages \in Nat,
           pages = (n + size - 1) \div size
    PROVE  /\ PageEnd(n, size, 0) = 0 /\ PageEnd(n, size, pages) = n
           /\ pages = 0 => n = 0
           /\ \A i \in 1..pages : PageEnds(n, size, pages, i)
<1>1. CASE size = 1
  BY <1>1 DEF PageEnd, PageEnds
<1>2. CASE size = 2
  BY <1>2 DEF PageEnd, PageEnds
<1>3. CASE size = 3
  BY <1>3 DEF PageEnd, PageEnds
<1> QED
  BY <1>1, <1>2, <1>3

\* The pages have the size they should have, and joined they are the whole.
LEMMA PagesJoin ==
    ASSUME NEW X, NEW s \in Seq(X), NEW size \in 1..3
    PROVE  /\ \A n \in 1..Paged(s, size) :
                 Len(Page(s, n, size)) =
                    IF n < Paged(s, size) THEN size ELSE Len(s) - (n - 1) * size
           /\ FlattenSeq([n \in 1..Paged(s, size) |-> Page(s, n, size)]) = s
<1>n. PICK n \in Nat : n = Len(s)
  OBVIOUS
<1>k. PICK pages \in Nat : pages = (n + size - 1) \div size /\ pages = Paged(s, size)
  <2>1. (n + size - 1) \div size \in Nat
    OBVIOUS
  <2> QED
    BY <2>1, <1>n DEF Paged
<1> DEFINE E(i) == PageEnd(n, size, i)
           P == [i \in 1..pages |-> Page(s, i, size)]
<1>1. /\ E(0) = 0 /\ E(pages) = n
      /\ pages = 0 => n = 0
      /\ \A i \in 1..pages : /\ E(i) \in 0..n /\ E(i - 1) \in 0..n /\ E(i - 1) <= E(i)
                             /\ E(i - 1) = (i - 1) * size
                             /\ E(i) - E(i - 1) = IF i < pages THEN size ELSE n - (i - 1) * size
  <2>1. /\ E(0) = 0 /\ E(pages) = n
        /\ pages = 0 => n = 0
        /\ \A i \in 1..pages : PageEnds(n, size, pages, i)
    BY <1>k, PageNumbers
  <2>2. \A i \in 1..pages : /\ E(i) \in 0..n /\ E(i - 1) \in 0..n /\ E(i - 1) <= E(i)
                             /\ E(i - 1) = (i - 1) * size
                             /\ E(i) - E(i - 1) = IF i < pages THEN size ELSE n - (i - 1) * size
    BY Zenon, <2>1 DEF PageEnds
  <2> QED
    BY Zenon, <2>1, <2>2
<1>2. ASSUME NEW i \in 1..pages
      PROVE  P[i] = SubSeq(s, E(i - 1) + 1, E(i))
  <2>1. P[i] = SubSeq(s, (i - 1) * size + 1, E(i))
    BY <1>n DEF Page, PageEnd
  <2>2. (i - 1) * size = E(i - 1)
    BY <1>1
  <2> QED
    BY <2>1, <2>2
<1> HIDE DEF E
<1>3. ASSUME NEW i \in 1..pages
      PROVE  Len(P[i]) = (IF i < pages THEN size ELSE n - (i - 1) * size) /\ P[i] \in Seq(X)
  <2>1. PICK a \in 0..n, b \in 0..n : a = E(i - 1) /\ b = E(i) /\ a <= b
    BY <1>1
  <2>2. P[i] = SubSeq(s, a + 1, b)
    BY <1>2, <2>1
  <2>3. SubSeq(s, a + 1, b) \in Seq(X) /\ Len(SubSeq(s, a + 1, b)) = b - a
    BY <1>n, <2>1
  <2>4. b - a = IF i < pages THEN size ELSE n - (i - 1) * size
    BY <1>1, <2>1
  <2> QED
    BY <2>2, <2>3, <2>4
<1>4. P \in [1..pages -> Seq(X)] /\ Len(P) = pages
  <2>1. P \in [1..pages -> Seq(X)]
    BY <1>3
  <2>2. Len(P) = pages
    OBVIOUS
  <2> QED
    BY <2>1, <2>2
<1>5. FlattenSeq(P) = s
  <2>1. CASE pages = 0
    <3>1. P = <<>> /\ s = <<>>
      BY <1>1, <1>n, <2>1
    <3>2. FlattenSeq(<<>>) = <<>>
      BY DEF FlattenSeq
    <3> QED
      BY <3>1, <3>2
  <2>2. CASE pages # 0
    <3> DEFINE g == [i \in 1..pages |-> SubSeq(s, 1, E(i))]
    <3>1. ASSUME NEW i \in 1..pages
          PROVE  g[i] = IF i = 1 THEN P[i] ELSE g[i - 1] \o P[i]
      <4>1. PICK a \in 0..n, b \in 0..n : a = E(i - 1) /\ b = E(i) /\ a <= b
        BY <1>1
      <4>2. P[i] = SubSeq(s, a + 1, b) /\ g[i] = SubSeq(s, 1, b)
        BY <1>2, <4>1
      <4>3. CASE i = 1
        <5>1. a = 0
          BY <1>1, <4>1, <4>3
        <5>2. a + 1 = 1
          BY <5>1
        <5> QED
          BY <4>2, <4>3, <5>2
      <4>4. CASE i # 1
        <5>1. g[i - 1] = SubSeq(s, 1, a)
          BY <4>1, <4>4
        <5>2. SubSeq(s, 1, b) = SubSeq(s, 1, a) \o SubSeq(s, a + 1, b)
          BY <1>n, <4>1, PartsJoin
        <5> QED
          BY <4>2, <4>4, <5>1, <5>2
      <4> QED
        BY <4>3, <4>4
    <3>2. g = [i \in 1..pages |-> g[i]]
      OBVIOUS
    <3>3. g[pages] = s
      <4>1. SubSeq(s, 1, n) = s
        BY <1>n
      <4> QED
        BY <1>1, <2>2, <4>1
    <3> HIDE DEF g, P
    <3>4. JoinedBy(P, g)
      BY <1>4, <3>1, <3>2 DEF JoinedBy
    <3>5. FlattenSeq(P) = g[pages]
      BY <1>4, <2>2, <3>4, JoinedIsFlat
    <3> QED
      BY <3>3, <3>5
  <2> QED
    BY <2>1, <2>2
<1>6. ASSUME NEW i \in 1..pages
      PROVE  Page(s, i, size) = P[i]
  OBVIOUS
<1>7. P = [i \in 1..Paged(s, size) |-> Page(s, i, size)]
  BY <1>k
<1> HIDE DEF P
<1> QED
  BY <1>n, <1>k, <1>3, <1>5, <1>6, <1>7

----------------------------------------------------------------------------
(* What a listing shows.                                                   *)

\* Finitely many rows are current, and listed.
FiniteRows == IsFiniteSet(CurrentRows) /\ IsFiniteSet(listing)

LEMMA RowsOfFew ==
    ASSUME NEW m \in Masters, NEW r \in MasterRevisions[m]
    PROVE  IsFiniteSet({[master |-> m, path |-> r.path, job |-> j] : j \in r.jobs})
<1> DEFINE T == {[master |-> m, path |-> r.path, job |-> j] : j \in r.jobs}
           f == [j \in r.jobs |-> [master |-> m, path |-> r.path, job |-> j]]
<1>1. IsFiniteSet(r.jobs)
  BY ListingAssumption
<1>2. f \in Surjection(r.jobs, T)
  <2>1. f \in [r.jobs -> T] /\ \A t \in T : \E j \in r.jobs : f[j] = t
    OBVIOUS
  <2> QED
    BY <2>1 DEF Surjection
<1> HIDE DEF T, f
<1> QED
  BY <1>1, <1>2, FS_Surjection DEF T

LEMMA RowsStayFew ==
    ASSUME ListingInvariant, FiniteRows, [ListingNext]_listingVars
    PROVE  FiniteRows'
<1>1. CASE UNCHANGED <<current, listing>>
  BY <1>1 DEF FiniteRows, CurrentRows, Rows
<1>2. ASSUME NEW m \in Masters, Withdraw(m)
      PROVE  FiniteRows'
  <2>1. /\ current' = [current EXCEPT ![m] = NoRevision] /\ listing' = listing
        /\ DOMAIN current = Masters
    BY <1>2 DEF Withdraw, ListingInvariant
  <2>2. \A n \in Masters : Rows(n)' \subseteq Rows(n)
    BY <2>1 DEF Rows, NoRevision
  <2>3. CurrentRows' \in SUBSET CurrentRows
    BY <2>2 DEF CurrentRows
  <2>4. IsFiniteSet(CurrentRows')
    BY <2>3, FS_Subset DEF FiniteRows
  <2> QED
    BY <2>1, <2>4 DEF FiniteRows
<1>3. ASSUME NEW m \in Masters, NEW r \in MasterRevisions[m], PublishRevision(m, r)
      PROVE  FiniteRows'
  <2> DEFINE new == {[master |-> m, path |-> r.path, job |-> j] : j \in r.jobs}
  <2>1. /\ current' = [current EXCEPT ![m] = r] /\ listing' = listing
        /\ DOMAIN current = Masters
    BY <1>3 DEF PublishRevision, ListingInvariant
  <2>2. \A n \in Masters : Rows(n)' \subseteq Rows(n) \cup new
    BY <2>1 DEF Rows
  <2>3. IsFiniteSet(new)
    BY RowsOfFew
  <2> HIDE DEF new
  <2>4. IsFiniteSet(CurrentRows \cup new)
    BY <2>3, FS_Union DEF FiniteRows
  <2>5. CurrentRows' \in SUBSET (CurrentRows \cup new)
    BY <2>2 DEF CurrentRows
  <2>6. IsFiniteSet(CurrentRows')
    BY <2>4, <2>5, FS_Subset
  <2> QED
    BY <2>1, <2>6 DEF FiniteRows
<1>4. ASSUME current' = current, listing' = PostRows \/ listing' = listing \cup LegacyRows
      PROVE  FiniteRows'
  <2>1. CurrentRows' = CurrentRows
    BY <1>4 DEF CurrentRows, Rows
  <2>2. PostRows \in SUBSET CurrentRows /\ LegacyRows \in SUBSET CurrentRows
    BY DEF PostRows, LegacyRows
  <2>3. IsFiniteSet(PostRows) /\ IsFiniteSet(LegacyRows)
    BY <2>2, FS_Subset DEF FiniteRows
  <2>4. IsFiniteSet(listing \cup LegacyRows)
    BY <2>3, FS_Union DEF FiniteRows
  <2>5. IsFiniteSet(listing')
    BY <1>4, <2>3, <2>4
  <2> QED
    BY <2>1, <2>5 DEF FiniteRows
<1> QED
  BY <1>1, <1>2, <1>3, <1>4 DEF ListingNext, BeginListing, EndListing, listingVars

LEMMA FewAtFirst == ListingInit => FiniteRows
<1> SUFFICES ASSUME ListingInit PROVE FiniteRows
  OBVIOUS
<1>1. CurrentRows = {}
  BY DEF ListingInit, CurrentRows, Rows, NoRevision
<1>2. listing = {}
  BY DEF ListingInit
<1> QED
  BY <1>1, <1>2, FS_EmptySet DEF FiniteRows

\* The sequence s is the listing: each row once, in the order of the keys.
LEMMA ListingIs ==
    ASSUME ListingInvariant, FiniteRows
    PROVE  \E s \in Seq(listing) :
              /\ s = Sorted(listing, NoDate)
              /\ \A i \in 1..Len(s) : s[i] \in Shown(listing, NoDate)
              /\ \A x \in Shown(listing, NoDate) : \E i \in 1..Len(s) : s[i] = x
              /\ \A i, j \in 1..Len(s) : i < j =>
                    Precedes(SortKey(s[i].job), SortKey(s[j].job))
<1> DEFINE S == Shown(listing, NoDate)
<1>1. S \in SUBSET listing
  BY DEF Shown
<1>2. IsFiniteSet(S)
  BY <1>1, FS_Subset DEF FiniteRows
<1> HIDE DEF S
<1>3. PICK n \in Nat : n = Cardinality(S)
  BY <1>2, FS_CardinalityType
<1>4. PICK s : s = InOrder(S)
  OBVIOUS
<1>5. /\ s \in [1..n -> S]
      /\ \A x \in S : \E i \in 1..n : s[i] = x
      /\ \A i, j \in 1..n : i < j => Precedes(SortKey(s[i].job), SortKey(s[j].job))
  BY <1>1, <1>2, <1>3, <1>4, OrderOf
<1>6. s \in Seq(listing) /\ Len(s) = n
  BY <1>1, <1>5
<1>7. s = Sorted(listing, NoDate)
  BY <1>4 DEF Sorted, S
<1> QED
  BY <1>5, <1>6, <1>7 DEF S

LEMMA PagesHold ==
    ASSUME ListingInvariant, FiniteRows
    PROVE  PagesSound
<1>1. PICK s \in Seq(listing) :
         /\ s = Sorted(listing, NoDate)
         /\ \A i \in 1..Len(s) : s[i] \in Shown(listing, NoDate)
         /\ \A x \in Shown(listing, NoDate) : \E i \in 1..Len(s) : s[i] = x
         /\ \A i, j \in 1..Len(s) : i < j => Precedes(SortKey(s[i].job), SortKey(s[j].job))
  BY ListingIs
<1>d. DOMAIN s = 1..Len(s) /\ Len(s) \in Nat
  OBVIOUS
<1>2. ASSUME NEW i \in 1..Len(s)
      PROVE  /\ s[i] \in listing /\ s[i].job \in Job
             /\ s[i].path \in {"VERIFIED_NO_REVIEW", "HUMAN_REVIEW"} /\ PubliclyReady(s[i])
             /\ SortKey(s[i].job)[1] \in 1..5 /\ SortKey(s[i].job)[2] \in Int
             /\ SortKey(s[i].job)[3] = s[i].job.id /\ s[i].job.id \in Nat
             /\ Lifecycle(s[i].job) = "OPEN" <=> SortKey(s[i].job)[1] = 1
             /\ Lifecycle(s[i].job) = "OPEN" => SortKey(s[i].job)[2] = s[i].job.end
  <2>1. s[i] \in Shown(listing, NoDate)
    BY <1>1
  <2>2. s[i] \in listing /\ PubliclyReady(s[i])
    BY <2>1 DEF Shown
  <2>3. s[i].job \in Job /\ s[i].path \in {"VERIFIED_NO_REVIEW", "HUMAN_REVIEW"}
    BY <2>2, ListedJob
  <2> QED
    BY <2>2, <2>3, KeyOf
<1>3. ASSUME NEW i \in 1..Len(s), NEW j \in 1..Len(s), s[i].job.id = s[j].job.id
      PROVE  i = j
  <2>1. s[i].job.id \in Nat /\ s[j].job.id \in Nat
    BY <1>2
  <2>2. s[i] = s[j]
    BY <1>2, <1>3 DEF ListingInvariant
  <2>3. ~Precedes(SortKey(s[i].job), SortKey(s[i].job))
    <3>1. /\ SortKey(s[i].job)[1] \in Int /\ SortKey(s[i].job)[2] \in Int
          /\ SortKey(s[i].job)[3] \in Int
      BY <1>2
    <3> QED
      BY <3>1 DEF Precedes
  <2>4. ~(i < j) /\ ~(j < i)
    BY <1>1, <2>2, <2>3
  <2> QED
    BY <2>4
<1>4. ASSUME NEW i \in 1..Len(s), NEW j \in 1..Len(s), i < j, Lifecycle(s[j].job) = "OPEN"
      PROVE  Lifecycle(s[i].job) = "OPEN" /\ s[i].job.end <= s[j].job.end
  <2>1. Precedes(SortKey(s[i].job), SortKey(s[j].job))
    BY <1>1, <1>4
  <2>2. SortKey(s[j].job)[1] = 1 /\ SortKey(s[j].job)[2] = s[j].job.end
    BY <1>2, <1>4
  <2>3. PICK a \in 1..5, b \in Int, c \in Int :
            a = SortKey(s[i].job)[1] /\ b = SortKey(s[i].job)[2] /\ c = SortKey(s[j].job)[2]
    BY <1>2
  <2>4. a = 1 /\ b <= c
    BY <2>1, <2>2, <2>3 DEF Precedes
  <2>5. Lifecycle(s[i].job) = "OPEN"
    BY <1>2, <2>3, <2>4
  <2>6. b = s[i].job.end
    BY <1>2, <2>3, <2>5
  <2> QED
    BY <2>2, <2>3, <2>4, <2>5, <2>6
<1>5. \A i \in 1..Len(s) : s[i].path = "HUMAN_REVIEW" \/ s[i].job.complete
  BY <1>2 DEF PubliclyReady
<1>6. ASSUME reading = "none", stable, NEW entry \in CurrentRows
      PROVE  (\E i \in 1..Len(s) : s[i] = entry) <=>
                (Detail(entry.job.id) = {entry} /\ WithinHistory(entry.job))
  <2>1. listing = CurrentRows
    BY <1>6, RowsHold DEF RowsSound
  <2>2. entry.job \in Job
    BY <2>1, ListedJob
  <2>3. entry.job.vacancies >= NoDate
    BY <2>2 DEF Job, NoDate
  <2>4. (\E i \in 1..Len(s) : s[i] = entry) <=> entry \in Shown(listing, NoDate)
    BY <1>1
  <2>5. entry \in Shown(listing, NoDate) <=> PubliclyReady(entry) /\ WithinHistory(entry.job)
    BY <2>1, <2>3 DEF Shown
  <2>6. \A x \in CurrentRows : x.job.id = entry.job.id => x = entry
    BY CurrentOnce
  <2>7. Detail(entry.job.id) = {x \in {entry} : PubliclyReady(entry)}
    BY <2>6 DEF Detail
  <2>8. Detail(entry.job.id) = {entry} <=> PubliclyReady(entry)
    BY <2>7
  <2> QED
    BY <2>4, <2>5, <2>8
<1>7. ASSUME NEW size \in 1..3
      PROVE  /\ \A n \in 1..Paged(s, size) :
                   Len(Page(s, n, size)) =
                      IF n < Paged(s, size) THEN size ELSE Len(s) - (n - 1) * size
             /\ FlattenSeq([n \in 1..Paged(s, size) |-> Page(s, n, size)]) = s
  BY PagesJoin
<1>8. \A i, j \in DOMAIN s :
         /\ s[i].job.id = s[j].job.id => i = j
         /\ i < j /\ Lifecycle(s[j].job) = "OPEN" =>
               Lifecycle(s[i].job) = "OPEN" /\ s[i].job.end <= s[j].job.end
  BY <1>d, <1>3, <1>4
<1>9. \A i \in DOMAIN s : s[i].path = "HUMAN_REVIEW" \/ s[i].job.complete
  BY <1>d, <1>5
<1>10. reading = "none" /\ stable =>
          \A entry \in CurrentRows :
             (\E i \in DOMAIN s : s[i] = entry) <=>
                (Detail(entry.job.id) = {entry} /\ WithinHistory(entry.job))
  BY <1>d, <1>6
<1> DEFINE Shows(t) ==
             /\ \A i, j \in DOMAIN t :
                   /\ t[i].job.id = t[j].job.id => i = j
                   /\ i < j /\ Lifecycle(t[j].job) = "OPEN" =>
                         Lifecycle(t[i].job) = "OPEN" /\ t[i].job.end <= t[j].job.end
             /\ \A i \in DOMAIN t : t[i].path = "HUMAN_REVIEW" \/ t[i].job.complete
             /\ \A size \in 1..3 :
                   /\ \A n \in 1..Paged(t, size) :
                         Len(Page(t, n, size)) =
                            IF n < Paged(t, size) THEN size ELSE Len(t) - (n - 1) * size
                   /\ FlattenSeq([n \in 1..Paged(t, size) |-> Page(t, n, size)]) = t
             /\ reading = "none" /\ stable =>
                   \A entry \in CurrentRows :
                      (\E i \in DOMAIN t : t[i] = entry) <=>
                         (Detail(entry.job.id) = {entry} /\ WithinHistory(entry.job))
<1>11. Shows(s)
  BY <1>7, <1>8, <1>9, <1>10, Zenon
<1>12. Shows(Sorted(listing, NoDate)) <=> PagesSound
  BY Zenon DEF PagesSound
<1> HIDE DEF Shows
<1> QED
  BY <1>1, <1>11, <1>12

LEMMA ListingHolds == ListingInvariant /\ FiniteRows => ListingSound
BY RowsHold, PagesHold DEF ListingSound

\* Public listings (app/services/public_recruitments.py): a listing shows each
\* job of what was current once, never a partial one nobody has approved, in
\* the order of what can still be applied for; its pages are full but for the
\* last and together the listing; and where nothing was published meanwhile it
\* shows the jobs that can be read one by one, but for those long closed.
THEOREM ListingIsSound == ListingSpec => []ListingSound
<1>1. ListingInit => ListingInvariant /\ FiniteRows
  BY InitListing, FewAtFirst
<1>2. ListingInvariant /\ FiniteRows /\ [ListingNext]_listingVars => (ListingInvariant /\ FiniteRows)'
  BY ListingKeeps, RowsStayFew
<1> QED
  BY <1>1, <1>2, ListingHolds, PTL DEF ListingSpec

LEMMA DatesHold == ListingInvariant => DatesSound
<1> SUFFICES ASSUME ListingInvariant, NEW entry \in CurrentRows
             PROVE  LET j == entry.job IN
                    /\ Lifecycle(j) = "OPEN" <=>
                          j.end # NoDate /\ Today <= j.end /\ j.start <= Today
                    /\ Lifecycle(j) = "UPCOMING" <=>
                          Today < j.start /\ (j.end # NoDate => j.start <= j.end)
                    /\ ~WithinHistory(j) => j.end \in 0..(Today - Year) /\ Lifecycle(j) = "CLOSED"
                    /\ Lifecycle(j) = "UNKNOWN" => WithinHistory(j)
  BY DEF DatesSound
<1>1. entry.master \in Masters /\ entry \in Rows(entry.master)
  BY CurrentRowsAre
<1>2. entry.job \in Job
  BY <1>1, RowsAre, JobOf
<1>3. PICK j : j = entry.job
  OBVIOUS
<1>4. PICK start \in Nat \cup {-1}, end \in Nat \cup {-1} : start = j.start /\ end = j.end
  BY <1>2, <1>3 DEF Job, NoDate
<1>5. Today \in Nat /\ RecentDays \in 1..180 /\ Year \in 365..366
  BY ListingAssumption
<1>6. ClassifyJob(start, end) =
         IF start # -1 /\ end # -1 /\ start > end THEN "UNKNOWN"
         ELSE IF start > Today THEN "UPCOMING"
         ELSE IF end = -1 THEN "UNKNOWN"
         ELSE IF end >= Today THEN "OPEN"
         ELSE IF Today - end <= RecentDays THEN "RECENTLY_CLOSED" ELSE "CLOSED"
  BY DEF ClassifyJob, NoDate
<1>7. PICK phase : phase = ClassifyJob(start, end)
  OBVIOUS
<1>8. /\ phase = "OPEN" <=> end # -1 /\ Today <= end /\ start <= Today
      /\ phase = "UPCOMING" <=> Today < start /\ (end # -1 => start <= end)
      /\ phase \in {"RECENTLY_CLOSED", "CLOSED"} /\ ~(end >= Today - Year)
            => end \in 0..(Today - Year) /\ phase = "CLOSED"
  BY <1>5, <1>6, <1>7
<1>9. Lifecycle(j) = phase
  BY <1>4, <1>7 DEF Lifecycle
<1>10. WithinHistory(j) <=> (phase \in {"RECENTLY_CLOSED", "CLOSED"} => end >= Today - Year)
  BY <1>4, <1>9 DEF WithinHistory, ClosedJob
<1>11. /\ Lifecycle(j) = "OPEN" <=> j.end # NoDate /\ Today <= j.end /\ j.start <= Today
       /\ Lifecycle(j) = "UPCOMING" <=> Today < j.start /\ (j.end # NoDate => j.start <= j.end)
  BY <1>4, <1>8, <1>9 DEF NoDate
<1>12. ~WithinHistory(j) => j.end \in 0..(Today - Year) /\ Lifecycle(j) = "CLOSED"
  BY <1>4, <1>8, <1>9, <1>10
<1>13. Lifecycle(j) = "UNKNOWN" => WithinHistory(j)
  BY <1>9, <1>10
<1> QED
  BY <1>3, <1>11, <1>12, <1>13

\* Job lifecycle (app/services/job_lifecycle.py): a job is open on its last
\* day, upcoming before its first, and neither a missing date nor a recent end
\* ever takes it out of the default history.
THEOREM DatesAreSound == ListingSpec => []DatesSound
BY ListingsInvariant, DatesHold, PTL

----------------------------------------------------------------------------
(* The vacancies of rows, added up.                                        *)

CountedRows(rows) ==
    /\ Len(rows) \in Nat /\ DOMAIN rows = 1..Len(rows)
    /\ \A i \in 1..Len(rows) : rows[i].total \in Nat

SumStep(rows, it) ==
    [s \in SUBSET DOMAIN rows |->
       IF s = {} THEN 0 ELSE it[s \ {Max(s)}] + rows[Max(s)].total]

\* p is what the first rows add up to.
SumsOf(p, rows) ==
    /\ p \in [0..Len(rows) -> Nat] /\ p[0] = 0
    /\ \A i \in 1..Len(rows) : p[i] = p[i - 1] + rows[i].total

\* The fold over the rows, as the library defines it.
LEMMA SumIsFold ==
    ASSUME NEW rows
    PROVE  Sum(rows) = (CHOOSE it : it = SumStep(rows, it))[DOMAIN rows]
BY DEF Sum, FoldLeft, MapThenFoldSet, SumStep

LEMMA GreatestInterval ==
    ASSUME NEW k \in Nat, NEW s \in SUBSET (1..k), k \in s
    PROVE  Max(s) = k
<1>1. \A y \in s : k >= y
  OBVIOUS
<1>2. \A x \in s : (\A y \in s : x >= y) => x = k
  <2> SUFFICES ASSUME NEW x \in s, \A y \in s : x >= y PROVE x = k
    OBVIOUS
  <2>1. x >= k /\ x \in 1..k
    OBVIOUS
  <2> QED
    BY <2>1
<1> QED
  BY <1>1, <1>2 DEF Max

LEMMA FoldExists ==
    ASSUME NEW rows, CountedRows(rows)
    PROVE  \E it : it = SumStep(rows, it)
<1> DEFINE n == Len(rows)
           Steps(m, f) ==
               \A s \in SUBSET (1..m) :
                  f[s] = IF s = {} THEN 0 ELSE f[s \ {Max(s)}] + rows[Max(s)].total
           T == {m \in Nat : m \in 0..n => \E f : f = [s \in SUBSET (1..m) |-> f[s]] /\ Steps(m, f)}
<1>n. n \in Nat
  BY DEF CountedRows
<1>1. 0 \in T
  <2> DEFINE f == [s \in SUBSET (1..0) |-> 0]
  <2>1. Steps(0, f)
    OBVIOUS
  <2>2. f = [s \in SUBSET (1..0) |-> f[s]]
    OBVIOUS
  <2> HIDE DEF f, Steps, n
  <2> QED
    BY <2>1, <2>2
<1>2. ASSUME NEW m \in Nat, m \in T
      PROVE  m + 1 \in T
  <2>1. m + 1 \in Nat
    OBVIOUS
  <2> SUFFICES ASSUME m + 1 \in 0..n
               PROVE  \E f : f = [s \in SUBSET (1..(m + 1)) |-> f[s]] /\ Steps(m + 1, f)
    <3> HIDE DEF Steps, n
    <3> QED
      BY <2>1
  <2>2. PICK f : f = [s \in SUBSET (1..m) |-> f[s]] /\ Steps(m, f)
    <3>1. m \in 0..n
      BY <1>n
    <3> HIDE DEF Steps, n
    <3> QED
      BY <1>2, <3>1
  <2> DEFINE g == [s \in SUBSET (1..(m + 1)) |->
                      IF m + 1 \in s THEN f[s \ {m + 1}] + rows[m + 1].total ELSE f[s]]
  <2>3. \A s \in SUBSET (1..m) : s \in SUBSET (1..(m + 1)) /\ m + 1 \notin s
    OBVIOUS
  <2>4. \A s \in SUBSET (1..m) : g[s] = f[s]
    BY <2>3
  <2>5. ASSUME NEW s \in SUBSET (1..(m + 1))
        PROVE  g[s] = IF s = {} THEN 0 ELSE g[s \ {Max(s)}] + rows[Max(s)].total
    <3>1. CASE m + 1 \in s
      <4>1. Max(s) = m + 1 /\ s # {}
        BY <3>1, <2>1, GreatestInterval
      <4>2. s \ {m + 1} \in SUBSET (1..m)
        OBVIOUS
      <4>3. g[s] = f[s \ {m + 1}] + rows[m + 1].total
        BY <3>1
      <4>4. g[s \ {m + 1}] = f[s \ {m + 1}]
        BY <4>2, <2>4
      <4> QED
        BY <4>1, <4>3, <4>4
    <3>2. CASE m + 1 \notin s
      <4>0. \A x \in 1..(m + 1) : x # m + 1 => x \in 1..m
        OBVIOUS
      <4>1. s \in SUBSET (1..m)
        BY <3>2, <4>0
      <4>2. (s \ {Max(s)}) \in SUBSET (1..m)
        BY <4>1
      <4> HIDE DEF g
      <4> QED
        BY <4>1, <4>2, <2>4, <2>2
    <3> QED
      BY <3>1, <3>2
  <2>6. g = [s \in SUBSET (1..(m + 1)) |-> g[s]]
    OBVIOUS
  <2> HIDE DEF g
  <2>7. Steps(m + 1, g)
    BY <2>5
  <2> HIDE DEF Steps
  <2> QED
    BY <2>6, <2>7
<1>3. n \in T
  <2> HIDE DEF T, n
  <2> QED
    BY <1>n, <1>1, <1>2, SetInduction
<1>4. PICK f : f = [s \in SUBSET (1..n) |-> f[s]] /\ Steps(n, f)
  <2>1. n \in 0..n
    BY <1>n
  <2> HIDE DEF Steps, n
  <2> QED
    BY <1>n, <1>3, <2>1
<1>5. DOMAIN rows = 1..n
  BY DEF CountedRows
<1>6. f = SumStep(rows, f)
  <2> HIDE DEF n
  <2> QED
    BY <1>4, <1>5 DEF SumStep
<1> QED
  BY <1>6

\* What the rows add up to is the last of the sums.
LEMMA SumOfRows ==
    ASSUME NEW rows, CountedRows(rows)
    PROVE  \E p : SumsOf(p, rows) /\ p[Len(rows)] = Sum(rows)
<1> DEFINE it == CHOOSE it : it = SumStep(rows, it)
<1>n. PICK n \in Nat : n = Len(rows) /\ DOMAIN rows = 1..n
  BY DEF CountedRows
<1>1. it = SumStep(rows, it)
  BY FoldExists
<1>2. Sum(rows) = it[1..n]
  BY <1>n, SumIsFold
<1> HIDE DEF it
<1>3. \A s \in SUBSET (1..n) :
         it[s] = IF s = {} THEN 0 ELSE it[s \ {Max(s)}] + rows[Max(s)].total
  BY <1>1, <1>n DEF SumStep
<1>4. it[1..0] = 0
  <2>1. 1..0 = {} /\ {} \in SUBSET (1..n)
    OBVIOUS
  <2> QED
    BY <1>3, <2>1
<1>5. ASSUME NEW i \in 1..n
      PROVE  it[1..i] = it[1..(i - 1)] + rows[i].total
  <2>1. i \in Nat /\ 1..i \in SUBSET (1..n) /\ i \in 1..i
    OBVIOUS
  <2>2. Max(1..i) = i
    BY <2>1, GreatestInterval
  <2>3. (1..i) \ {i} = 1..(i - 1)
    OBVIOUS
  <2>4. 1..i # {}
    BY <2>1
  <2> QED
    BY <1>3, <2>1, <2>2, <2>3, <2>4
<1> DEFINE T == {i \in Nat : i \in 0..n => it[1..i] \in Nat}
<1>6. 0 \in T
  BY <1>4
<1>7. ASSUME NEW i \in Nat, i \in T
      PROVE  i + 1 \in T
  <2> SUFFICES ASSUME i + 1 \in 0..n PROVE it[1..(i + 1)] \in Nat
    OBVIOUS
  <2>1. i \in 0..n /\ i + 1 \in 1..n /\ i + 1 - 1 = i
    OBVIOUS
  <2>2. it[1..i] \in Nat
    BY <1>7, <2>1
  <2>3. rows[i + 1].total \in Nat
    BY <2>1, <1>n DEF CountedRows
  <2>4. it[1..(i + 1)] = it[1..i] + rows[i + 1].total
    BY <1>5, <2>1
  <2> QED
    BY <2>2, <2>3, <2>4
<1>8. Nat \subseteq T
  <2> HIDE DEF T
  <2> QED
    BY <1>6, <1>7, SetInduction
<1> DEFINE p == [i \in 0..n |-> it[1..i]]
<1>9. p \in [0..n -> Nat]
  BY <1>8
<1>10. p[0] = 0 /\ p[n] = it[1..n]
  BY <1>4
<1>11. ASSUME NEW i \in 1..n PROVE p[i] = p[i - 1] + rows[i].total
  <2>1. i \in 0..n /\ i - 1 \in 0..n
    OBVIOUS
  <2> QED
    BY <1>5, <2>1
<1> HIDE DEF p
<1>12. SumsOf(p, rows)
  BY <1>9, <1>10, <1>11, <1>n DEF SumsOf
<1> QED
  BY <1>2, <1>10, <1>12, <1>n

\* There are no other sums.
LEMMA SumsAreOne ==
    ASSUME NEW rows, CountedRows(rows), NEW p, SumsOf(p, rows)
    PROVE  Sum(rows) = p[Len(rows)]
<1>n. PICK n \in Nat : n = Len(rows)
  BY DEF CountedRows
<1>1. PICK q : SumsOf(q, rows) /\ q[n] = Sum(rows)
  BY SumOfRows, <1>n
<1>2. /\ p[0] = 0 /\ \A i \in 1..n : p[i] = p[i - 1] + rows[i].total
      /\ q[0] = 0 /\ \A i \in 1..n : q[i] = q[i - 1] + rows[i].total
  BY <1>1, <1>n DEF SumsOf
<1> DEFINE T == {i \in Nat : i \in 0..n => p[i] = q[i]}
<1>3. 0 \in T
  BY <1>2
<1>4. ASSUME NEW i \in Nat, i \in T PROVE i + 1 \in T
  <2> SUFFICES ASSUME i + 1 \in 0..n PROVE p[i + 1] = q[i + 1]
    OBVIOUS
  <2>1. i \in 0..n /\ i + 1 \in 1..n /\ i + 1 - 1 = i
    OBVIOUS
  <2> QED
    BY <1>2, <1>4, <2>1
<1>5. n \in T
  <2> HIDE DEF T
  <2> QED
    BY <1>3, <1>4, SetInduction
<1> QED
  BY <1>1, <1>5, <1>n

LEMMA SumOfNone == Sum(<<>>) = 0
<1> DEFINE p == [i \in 0..0 |-> 0]
<1>1. CountedRows(<<>>)
  BY DEF CountedRows
<1>2. p \in [0..0 -> Nat] /\ p[0] = 0
  OBVIOUS
<1>3. Len(<<>>) = 0
  OBVIOUS
<1> HIDE DEF p
<1>4. SumsOf(p, <<>>)
  BY <1>2, <1>3 DEF SumsOf
<1> QED
  BY <1>1, <1>2, <1>3, <1>4, SumsAreOne

LEMMA SumOfOne ==
    ASSUME NEW r, r.total \in Nat
    PROVE  Sum(<<r>>) = r.total
<1> DEFINE p == [i \in 0..1 |-> IF i = 0 THEN 0 ELSE r.total]
<1>1. Len(<<r>>) = 1 /\ DOMAIN <<r>> = 1..1 /\ <<r>>[1] = r
  OBVIOUS
<1>2. p \in [0..1 -> Nat] /\ p[0] = 0 /\ p[1] = r.total
  OBVIOUS
<1>3. CountedRows(<<r>>)
  BY <1>1 DEF CountedRows
<1> HIDE DEF p
<1>4. SumsOf(p, <<r>>)
  <2>1. \A i \in 1..1 : i = 1 /\ i - 1 = 0
    OBVIOUS
  <2> QED
    BY <1>1, <1>2, <2>1 DEF SumsOf
<1> QED
  BY <1>1, <1>2, <1>3, <1>4, SumsAreOne

LEMMA AddedInTurn == \A x, y, z \in Nat : x + (y + z) = (x + y) + z
OBVIOUS

\* Rows that follow others add what they add up to.
LEMMA SumOfBoth ==
    ASSUME NEW R, NEW a \in Seq(R), NEW b \in Seq(R), \A r \in R : r.total \in Nat
    PROVE  Sum(a \o b) = Sum(a) + Sum(b)
<1>1. CountedRows(a) /\ CountedRows(b)
  <2>1. \A s \in Seq(R) : Len(s) \in Nat /\ DOMAIN s = 1..Len(s) /\ \A i \in 1..Len(s) : s[i] \in R
    OBVIOUS
  <2> QED
    BY <2>1 DEF CountedRows
<1>2. PICK m \in Nat : m = Len(a)
  OBVIOUS
<1>3. PICK n \in Nat : n = Len(b)
  OBVIOUS
<1>4. PICK c \in Seq(R) : c = a \o b
  <2>1. a \o b \in Seq(R)
    OBVIOUS
  <2> QED
    BY <2>1
<1>5. /\ Len(c) = m + n /\ DOMAIN c = 1..(m + n)
      /\ \A i \in 1..m : c[i] = a[i]
      /\ \A i \in (m + 1)..(m + n) : c[i] = b[i - m]
  BY <1>2, <1>3, <1>4
<1>6. CountedRows(c)
  <2>1. \A i \in 1..Len(c) : c[i] \in R
    OBVIOUS
  <2> QED
    BY <1>5, <2>1 DEF CountedRows
<1>7. PICK p \in [0..m -> Nat] : SumsOf(p, a) /\ p[m] = Sum(a)
  BY <1>1, <1>2, SumOfRows DEF SumsOf
<1>8. PICK q \in [0..n -> Nat] : SumsOf(q, b) /\ q[n] = Sum(b)
  BY <1>1, <1>3, SumOfRows DEF SumsOf
<1> DEFINE s == [i \in 0..(m + n) |-> IF i <= m THEN p[i] ELSE p[m] + q[i - m]]
<1>9. ASSUME NEW i \in 0..(m + n)
      PROVE  s[i] \in Nat /\ s[i] = IF i <= m THEN p[i] ELSE p[m] + q[i - m]
  <2>1. i <= m => i \in 0..m
    OBVIOUS
  <2>2. ~(i <= m) => i - m \in 0..n /\ m \in 0..m
    OBVIOUS
  <2> QED
    BY <2>1, <2>2
<1>10. s \in [0..(m + n) -> Nat]
  BY <1>9
<1> HIDE DEF s
<1>11. s[0] = 0
  <2>1. p[0] = 0
    BY <1>7 DEF SumsOf
  <2> QED
    BY <1>9, <2>1
<1>12. ASSUME NEW i \in 1..(m + n)
       PROVE  s[i] = s[i - 1] + c[i].total
  <2>0. i \in 0..(m + n) /\ i - 1 \in 0..(m + n)
    OBVIOUS
  <2>1. CASE i <= m
    <3>1. i \in 1..m /\ i - 1 <= m
      BY <2>1
    <3>2. p[i] = p[i - 1] + a[i].total
      BY <1>2, <1>7, <3>1 DEF SumsOf
    <3>3. c[i] = a[i]
      BY <1>5, <3>1
    <3> QED
      BY <1>9, <2>0, <2>1, <3>1, <3>2, <3>3
  <2>2. CASE ~(i <= m)
    <3>1. i - m \in 1..n /\ i \in (m + 1)..(m + n)
      BY <2>2
    <3>2. q[i - m] = q[(i - m) - 1] + b[i - m].total
      BY <1>3, <1>8, <3>1 DEF SumsOf
    <3>3. c[i] = b[i - m]
      BY <1>5, <3>1
    <3>4. s[i] = p[m] + q[i - m]
      BY <1>9, <2>0, <2>2
    <3>5. s[i - 1] = p[m] + q[(i - m) - 1]
      <4>1. CASE i - 1 <= m
        <5>1. i - 1 = m /\ (i - m) - 1 = 0
          BY <2>2, <4>1
        <5>2. q[0] = 0 /\ p[m] \in Nat
          BY <1>8 DEF SumsOf
        <5>3. s[i - 1] = p[m]
          BY <1>9, <2>0, <5>1
        <5> QED
          BY <5>1, <5>2, <5>3
      <4>2. CASE ~(i - 1 <= m)
        <5>1. (i - 1) - m = (i - m) - 1
          OBVIOUS
        <5> QED
          BY <1>9, <2>0, <4>2, <5>1
      <4> QED
        BY <4>1, <4>2
    <3>6. /\ p[m] \in Nat /\ q[(i - m) - 1] \in Nat /\ b[i - m].total \in Nat
      <4>1. m \in 0..m /\ (i - m) - 1 \in 0..n /\ b[i - m] \in R
        BY <3>1, <1>3
      <4> QED
        BY <4>1
    <3>7. PICK x \in Nat, y \in Nat, z \in Nat :
             x = p[m] /\ y = q[(i - m) - 1] /\ z = b[i - m].total
      BY <3>6
    <3>8. s[i] = x + (y + z) /\ s[i - 1] = x + y /\ c[i].total = z
      BY <3>2, <3>3, <3>4, <3>5, <3>7
    <3>9. x + (y + z) = (x + y) + z
      BY AddedInTurn
    <3> QED
      BY Zenon, <3>8, <3>9
  <2> QED
    BY <2>1, <2>2
<1>13. SumsOf(s, c)
  BY <1>5, <1>10, <1>11, <1>12 DEF SumsOf
<1>14. Sum(c) = s[m + n]
  BY <1>5, <1>6, <1>13, SumsAreOne
<1>15. s[m + n] = Sum(a) + Sum(b)
  <2>1. CASE n = 0
    <3>1. q[0] = 0 /\ s[m + n] = p[m] /\ p[m] \in Nat
      BY <1>8, <1>9, <2>1 DEF SumsOf
    <3> QED
      BY <1>7, <1>8, <2>1, <3>1
  <2>2. CASE n # 0
    <3>1. m + n \in 0..(m + n) /\ ~(m + n <= m) /\ (m + n) - m = n
      BY <2>2
    <3> QED
      BY <1>7, <1>8, <1>9, <3>1
  <2> QED
    BY <2>1, <2>2
<1> QED
  BY <1>4, <1>14, <1>15

\* Where each row is replaced by rows of the same vacancies, what they add up
\* to stays.
LEMMA SumOfRefined ==
    ASSUME NEW R, \A r \in R : r.total \in Nat,
           NEW rows \in Seq(R), NEW seqs, NEW n \in Nat, Len(rows) = n,
           Len(seqs) = n, seqs \in [1..n -> Seq(R)],
           \A i \in 1..n : Sum(seqs[i]) = rows[i].total
    PROVE  Sum(FlattenSeq(seqs)) = Sum(rows) /\ FlattenSeq(seqs) \in Seq(R)
<1>1. CASE n = 0
  <2>1. FlattenSeq(seqs) = <<>>
    <3>1. seqs = <<>>
      BY <1>1
    <3> QED
      BY <3>1 DEF FlattenSeq
  <2>2. rows = <<>>
    BY <1>1
  <2> QED
    BY <2>1, <2>2
<1>2. CASE n # 0
  <2>1. PICK g \in [1..n -> Seq(R)] : JoinedBy(seqs, g)
    BY JoinExists
  <2>2. FlattenSeq(seqs) = g[n]
    BY <1>2, <2>1, JoinedIsFlat
  <2>3. CountedRows(rows)
    BY DEF CountedRows
  <2>4. PICK p \in [0..n -> Nat] : SumsOf(p, rows) /\ p[n] = Sum(rows)
    BY <2>3, SumOfRows DEF SumsOf
  <2>5. p[0] = 0 /\ \A i \in 1..n : p[i] = p[i - 1] + rows[i].total
    BY <2>4 DEF SumsOf
  <2>6. \A i \in 1..n : g[i] = IF i = 1 THEN seqs[i] ELSE g[i - 1] \o seqs[i]
    BY <2>1 DEF JoinedBy
  <2> DEFINE T == {i \in Nat : i \in 1..n => Sum(g[i]) = p[i]}
  <2>7. 0 \in T
    OBVIOUS
  <2>8. ASSUME NEW i \in Nat, i \in T
        PROVE  i + 1 \in T
    <3> SUFFICES ASSUME i + 1 \in 1..n PROVE Sum(g[i + 1]) = p[i + 1]
      OBVIOUS
    <3>1. PICK j \in 1..n : j = i + 1
      OBVIOUS
    <3>2. Sum(seqs[j]) = rows[j].total /\ seqs[j] \in Seq(R)
      OBVIOUS
    <3>3. p[j] = p[i] + rows[j].total
      BY <2>5, <3>1
    <3>4. CASE i = 0
      <4>1. g[j] = seqs[j]
        BY <2>6, <3>1, <3>4
      <4>2. rows[j].total \in Nat
        OBVIOUS
      <4> QED
        BY <2>5, <3>1, <3>2, <3>3, <3>4, <4>1, <4>2
    <3>5. CASE i # 0
      <4>1. i \in 1..n /\ g[i] \in Seq(R)
        BY <3>1, <3>5
      <4>2. g[j] = g[i] \o seqs[j]
        <5>1. j # 1 /\ j - 1 = i
          BY <3>1, <3>5
        <5>2. g[j] = IF j = 1 THEN seqs[j] ELSE g[j - 1] \o seqs[j]
          BY <2>6
        <5> QED
          BY <5>1, <5>2
      <4>3. Sum(g[j]) = Sum(g[i]) + Sum(seqs[j])
        BY <3>2, <4>1, <4>2, SumOfBoth
      <4> QED
        BY <2>8, <3>1, <3>2, <3>3, <4>1, <4>3
    <3> QED
      BY <3>4, <3>5
  <2>9. n \in T
    <3> HIDE DEF T
    <3> QED
      BY <2>7, <2>8, SetInduction
  <2> QED
    BY <1>2, <2>1, <2>2, <2>4, <2>9
<1> QED
  BY <1>1, <1>2

LEMMA FewerAdded == \A x, y, u, v \in Nat : x <= y /\ u <= v => x + u <= y + v
OBVIOUS

\* Rows with fewer vacancies add up to fewer.
LEMMA SumOfFewer ==
    ASSUME NEW a, NEW b, CountedRows(a), CountedRows(b), Len(a) = Len(b),
           \A i \in 1..Len(a) : a[i].total <= b[i].total
    PROVE  Sum(a) \in Nat /\ Sum(b) \in Nat /\ Sum(a) <= Sum(b)
<1>1. PICK n \in Nat : n = Len(a) /\ n = Len(b)
  BY DEF CountedRows
<1>2. PICK p \in [0..n -> Nat] : SumsOf(p, a) /\ p[n] = Sum(a)
  BY <1>1, SumOfRows DEF SumsOf
<1>3. PICK q \in [0..n -> Nat] : SumsOf(q, b) /\ q[n] = Sum(b)
  BY <1>1, SumOfRows DEF SumsOf
<1>4. /\ p[0] = 0 /\ \A i \in 1..n : p[i] = p[i - 1] + a[i].total
      /\ q[0] = 0 /\ \A i \in 1..n : q[i] = q[i - 1] + b[i].total
      /\ \A i \in 1..n : a[i].total \in Nat /\ b[i].total \in Nat /\ a[i].total <= b[i].total
  BY <1>1, <1>2, <1>3 DEF SumsOf, CountedRows
<1> DEFINE T == {i \in Nat : i \in 0..n => p[i] <= q[i]}
<1>5. 0 \in T
  BY <1>4
<1>6. ASSUME NEW i \in Nat, i \in T PROVE i + 1 \in T
  <2> SUFFICES ASSUME i + 1 \in 0..n PROVE p[i + 1] <= q[i + 1]
    OBVIOUS
  <2>1. PICK j \in 1..n : j = i + 1 /\ j - 1 = i
    OBVIOUS
  <2>2. i \in 0..n /\ j \in 0..n
    BY <2>1
  <2>3. p[i] \in Nat /\ q[i] \in Nat /\ p[i] <= q[i]
    BY <1>6, <2>2
  <2>4. p[j] = p[i] + a[j].total
    <3>1. p[j] = p[j - 1] + a[j].total
      BY <1>4
    <3> QED
      BY <2>1, <3>1
  <2>5. q[j] = q[i] + b[j].total
    <3>1. q[j] = q[j - 1] + b[j].total
      BY <1>4
    <3> QED
      BY <2>1, <3>1
  <2>6. a[j].total \in Nat /\ b[j].total \in Nat /\ a[j].total <= b[j].total
    BY <1>4
  <2>7. PICK x \in Nat, y \in Nat, u \in Nat, v \in Nat :
           x = p[i] /\ y = q[i] /\ u = a[j].total /\ v = b[j].total /\ x <= y /\ u <= v
    BY <2>3, <2>6
  <2>8. x + u <= y + v
    BY <2>7, FewerAdded
  <2>9. p[j] <= q[j]
    BY <2>4, <2>5, <2>7, <2>8
  <2> QED
    BY <2>1, <2>9
<1>7. n \in T
  <2> HIDE DEF T
  <2> QED
    BY <1>5, <1>6, SetInduction
<1> QED
  BY <1>2, <1>3, <1>7

\* Sequences put one behind another are a sequence.
LEMMA FlatSequence ==
    ASSUME NEW X, NEW n \in Nat, NEW seqs \in [1..n -> Seq(X)]
    PROVE  FlattenSeq(seqs) \in Seq(X)
<1>1. Len(seqs) = n
  OBVIOUS
<1>2. CASE n = 0
  <2>1. seqs = <<>>
    BY <1>2
  <2>2. FlattenSeq(seqs) = <<>>
    BY <2>1 DEF FlattenSeq
  <2> QED
    BY <2>2
<1>3. CASE n # 0
  <2>1. PICK g \in [1..n -> Seq(X)] : JoinedBy(seqs, g)
    BY <1>1, JoinExists
  <2>2. FlattenSeq(seqs) = g[n]
    BY <1>1, <1>3, <2>1, JoinedIsFlat
  <2> QED
    BY <1>3, <2>1, <2>2
<1> QED
  BY <1>2, <1>3

----------------------------------------------------------------------------
(* The vacancies of the Posts.                                             *)

Zeroed(r) == [r EXCEPT !.total = 0]
Counted == TableRows \cup {Zeroed(r) : r \in TableRows}

LEMMA PlainRows ==
    /\ \A r \in TableRows : r.total \in Nat /\ Zeroed(r).total = 0 /\ Zeroed(r) \in Counted
    /\ \A r \in Counted : r.total \in Nat
<1>1. ASSUME NEW r \in TableRows
      PROVE  r.total \in Nat /\ Zeroed(r).total = 0 /\ Zeroed(r) \in Counted
  <2>1. r = [key |-> r.key, total |-> r.total, says |-> r.says, reads |-> r.reads]
    BY PostFactsAssumption
  <2>2. Zeroed(r).total = 0
    BY <2>1 DEF Zeroed
  <2> QED
    BY <2>2, PostFactsAssumption DEF Counted
<1> QED
  BY <1>1 DEF Counted

LEMMA TablesAre ==
    ASSUME NEW t \in Tables
    PROVE  \E n \in Nat : t.rows \in Seq(TableRows) /\ n = Len(t.rows) /\ DOMAIN t.rows = 1..n
<1>1. t.rows \in Seq(TableRows)
  BY PostFactsAssumption
<1>2. Len(t.rows) \in Nat /\ DOMAIN t.rows = 1..Len(t.rows)
  BY <1>1
<1> QED
  BY <1>1, <1>2

\* The rows without the vacancies of those that do not count.
Counting0(t, S) ==
    [i \in DOMAIN t.rows |-> IF i \in S THEN t.rows[i] ELSE Zeroed(t.rows[i])]

LEMMA CountingRows ==
    ASSUME NEW t \in Tables, NEW S
    PROVE  /\ Counting0(t, S) \in Seq(Counted) /\ CountedRows(Counting0(t, S))
           /\ Len(Counting0(t, S)) = Len(t.rows) /\ Len(t.rows) \in Nat
           /\ \A i \in 1..Len(t.rows) :
                 Counting0(t, S)[i].total = IF i \in S THEN t.rows[i].total ELSE 0
<1> DEFINE c == Counting0(t, S)
<1>1. PICK n \in Nat : t.rows \in Seq(TableRows) /\ n = Len(t.rows) /\ DOMAIN t.rows = 1..n
  BY TablesAre
<1>2. ASSUME NEW i \in 1..n
      PROVE  c[i] \in Counted /\ c[i].total = IF i \in S THEN t.rows[i].total ELSE 0
  <2>1. t.rows[i] \in TableRows
    BY <1>1
  <2>2. c[i] = IF i \in S THEN t.rows[i] ELSE Zeroed(t.rows[i])
    BY <1>1 DEF Counting0
  <2>3. t.rows[i] \in Counted
    BY <2>1 DEF Counted
  <2> HIDE DEF c
  <2> QED
    BY <2>1, <2>2, <2>3, PlainRows
<1>3. c = [i \in 1..n |-> c[i]]
  BY <1>1 DEF Counting0
<1> HIDE DEF c
<1>4. c \in [1..n -> Counted]
  BY <1>2, <1>3
<1>5. c \in Seq(Counted) /\ Len(c) = n /\ DOMAIN c = 1..n
  BY <1>4
<1>6. \A i \in 1..n : c[i].total \in Nat
  BY <1>2, PlainRows
<1>7. CountedRows(c)
  BY <1>5, <1>6 DEF CountedRows
<1> USE DEF c
<1> QED
  <2> HIDE DEF c
  <2>1. c = Counting0(t, S)
    BY DEF c
  <2> QED
    BY <1>1, <1>2, <1>5, <1>7, <2>1

\* The rows that are kept have their vacancies.
LEMMA KeptSum ==
    ASSUME NEW t \in Tables
    PROVE  KeptRows(t) \in Seq(TableRows) /\ Sum(KeptRows(t)) = Sum(Counting0(t, Kept(t)))
<1> DEFINE seqs == [i \in DOMAIN t.rows |-> IF i \in Kept(t) THEN <<t.rows[i]>> ELSE <<>>]
           c == Counting0(t, Kept(t))
<1>1. PICK n \in Nat : t.rows \in Seq(TableRows) /\ n = Len(t.rows) /\ DOMAIN t.rows = 1..n
  BY TablesAre
<1>2. /\ c \in Seq(Counted) /\ Len(c) = n
      /\ \A i \in 1..n : c[i].total = IF i \in Kept(t) THEN t.rows[i].total ELSE 0
  BY <1>1, CountingRows
<1>3. KeptRows(t) = FlattenSeq(seqs)
  BY DEF KeptRows
<1>4. seqs = [i \in 1..n |-> seqs[i]]
  BY <1>1
<1>5. ASSUME NEW i \in 1..n
      PROVE  /\ seqs[i] \in Seq(TableRows) /\ seqs[i] \in Seq(Counted)
             /\ Sum(seqs[i]) = c[i].total
  <2>1. PICK r \in TableRows : r = t.rows[i]
    BY <1>1
  <2>2. r \in Counted /\ r.total \in Nat
    BY PlainRows DEF Counted
  <2>3. CASE i \in Kept(t)
    <3>1. seqs[i] = <<r>>
      BY <1>1, <2>1, <2>3
    <3>2. Sum(<<r>>) = r.total
      BY <2>2, SumOfOne
    <3>3. c[i].total = r.total
      BY <1>2, <2>1, <2>3
    <3> HIDE DEF seqs, c
    <3> QED
      BY <2>2, <3>1, <3>2, <3>3
  <2>4. CASE i \notin Kept(t)
    <3>1. seqs[i] = <<>>
      BY <1>1, <2>4
    <3>2. c[i].total = 0
      BY <1>2, <2>4
    <3> HIDE DEF seqs, c
    <3> QED
      BY <3>1, <3>2, SumOfNone
  <2> QED
    BY <2>3, <2>4
<1> HIDE DEF seqs, c
<1>6. PICK lists \in [1..n -> Seq(Counted)] : lists = seqs
  BY <1>4, <1>5
<1>7. lists \in [1..n -> Seq(TableRows)] /\ Len(lists) = n
  BY <1>4, <1>5, <1>6
<1>8. FlattenSeq(lists) \in Seq(TableRows)
  BY <1>7, FlatSequence
<1>9. \A i \in 1..n : Sum(lists[i]) = c[i].total
  BY <1>5, <1>6
<1>10. Sum(FlattenSeq(lists)) = Sum(c)
  BY <1>2, <1>7, <1>9, PlainRows, SumOfRefined
<1> QED
  BY <1>3, <1>6, <1>8, <1>10 DEF c

\* A Post is replaced by rows of the same vacancies, or stays.
LEMMA RefinedSum ==
    ASSUME NEW rows \in Seq(TableRows), NEW roster \in Rosters(rows)
    PROVE  Refined(rows, roster) \in Seq(TableRows) /\ Sum(Refined(rows, roster)) = Sum(rows)
<1> DEFINE seqs == [i \in DOMAIN rows |-> IF i \in DOMAIN roster THEN roster[i] ELSE <<rows[i]>>]
<1>1. PICK n \in Nat : n = Len(rows) /\ rows \in [1..n -> TableRows]
  <2>1. Len(rows) \in Nat /\ rows \in [1..Len(rows) -> TableRows]
    OBVIOUS
  <2> QED
    BY <2>1
<1>2. \A i \in DOMAIN roster : roster[i] \in Seq(TableRows) /\ Sum(roster[i]) = rows[i].total
  <2>1. PICK S : roster \in [S -> Trades]
    BY DEF Rosters
  <2>2. \A i \in DOMAIN roster : roster[i] \in Trades
    BY <2>1
  <2> QED
    BY <2>2, PostFactsAssumption DEF Rosters
<1>3. \A r \in TableRows : r.total \in Nat
  BY PlainRows
<1>4. ASSUME NEW i \in 1..n
      PROVE  seqs[i] \in Seq(TableRows) /\ Sum(seqs[i]) = rows[i].total
  <2>1. rows[i] \in TableRows /\ i \in DOMAIN rows
    BY <1>1
  <2>2. CASE i \in DOMAIN roster
    <3>1. seqs[i] = roster[i]
      BY <2>1, <2>2
    <3> HIDE DEF seqs
    <3> QED
      BY <1>2, <2>2, <3>1
  <2>3. CASE i \notin DOMAIN roster
    <3>1. PICK r \in TableRows : r = rows[i]
      BY <2>1
    <3>2. seqs[i] = <<r>> /\ <<r>> \in Seq(TableRows)
      BY <2>1, <2>3, <3>1
    <3>3. Sum(<<r>>) = r.total
      BY <1>3, SumOfOne
    <3> HIDE DEF seqs
    <3> QED
      BY <3>1, <3>2, <3>3
  <2> QED
    BY <2>2, <2>3
<1>5. seqs = [i \in 1..n |-> seqs[i]]
  BY <1>1
<1>6. Refined(rows, roster) = FlattenSeq(seqs)
  BY DEF Refined
<1> HIDE DEF seqs
<1>7. PICK list \in [1..n -> Seq(TableRows)] : list = seqs
  BY <1>4, <1>5
<1>8. Len(list) = n
  OBVIOUS
<1>9. \A i \in 1..n : Sum(list[i]) = rows[i].total
  BY <1>4, <1>7
<1>10. Sum(FlattenSeq(list)) = Sum(rows) /\ FlattenSeq(list) \in Seq(TableRows)
  BY <1>1, <1>3, <1>8, <1>9, SumOfRefined
<1> QED
  BY <1>6, <1>7, <1>10

\* What a table that splits has in all.
SplitSum(t, total) ==
    IF CutShort(t) THEN total <= Stated(t)
    ELSE total = Stated(t) /\ (t.kind # "numbered" => SeenRows(t) \subseteq WholeRows(t))

LEMMA SplitsSum ==
    ASSUME NEW t \in Tables, Splits(t)
    PROVE  SplitSum(t, Sum(KeptRows(t)))
<1> DEFINE a == Counting0(t, Kept(t))
           b == Counting0(t, WholeRows(t))
<1>1. Sum(KeptRows(t)) = Sum(a)
  BY KeptSum
<1>2. Stated(t) = Sum(b)
  BY DEF Stated, Counting0, Zeroed
<1>3. PICK n \in Nat : n = Len(t.rows) /\ DOMAIN t.rows = 1..n /\ t.rows \in Seq(TableRows)
  BY TablesAre
<1>4. /\ CountedRows(a) /\ CountedRows(b) /\ Len(a) = n /\ Len(b) = n
      /\ \A i \in 1..n : a[i].total = IF i \in Kept(t) THEN t.rows[i].total ELSE 0
      /\ \A i \in 1..n : b[i].total = IF i \in WholeRows(t) THEN t.rows[i].total ELSE 0
  BY <1>3, CountingRows
<1>5. Kept(t) \subseteq WholeRows(t)
  BY DEF Splits
<1>6. \A i \in 1..n : t.rows[i].total \in Nat
  BY <1>3, PlainRows
<1> HIDE DEF a, b
<1>7. \A i \in 1..n : a[i].total <= b[i].total
  <2> TAKE i \in 1..n
  <2>1. CASE i \in Kept(t)
    BY <1>4, <1>5, <1>6, <2>1
  <2>2. CASE i \notin Kept(t)
    <3>1. a[i].total = 0 /\ b[i].total \in Nat
      BY <1>4, <1>6, <2>2
    <3> QED
      BY <3>1
  <2> QED
    BY <2>1, <2>2
<1>8. Sum(a) \in Nat /\ Sum(b) \in Nat /\ Sum(a) <= Sum(b)
  BY <1>4, <1>7, SumOfFewer
<1>9. CASE CutShort(t)
  BY <1>1, <1>2, <1>8, <1>9 DEF SplitSum
<1>10. CASE ~CutShort(t)
  <2>1. t.kind # "numbered" => Kept(t) = SeenRows(t)
    BY <1>10 DEF CutShort, Kept
  <2>2. ASSUME NEW i \in 1..n PROVE b[i].total <= a[i].total
    <3>1. CASE i \in Kept(t)
      BY <1>4, <1>5, <1>6, <3>1
    <3>2. CASE i \notin WholeRows(t)
      <4>1. b[i].total = 0 /\ a[i].total = 0
        BY <1>4, <1>5, <3>2
      <4> QED
        BY <4>1
    <3>3. CASE i \in WholeRows(t) /\ i \notin Kept(t)
      <4>1. i \in SeenRows(t)
        BY <3>3 DEF WholeRows, SeenRows
      <4>2. t.kind = "numbered"
        BY <2>1, <3>3, <4>1
      <4>3. ~(t.rows[i].total > 0)
        BY <3>3, <4>2 DEF Kept
      <4>4. b[i].total = t.rows[i].total /\ a[i].total = 0
        BY <1>4, <3>3
      <4> QED
        BY <1>6, <4>3, <4>4
    <3> QED
      BY <3>1, <3>2, <3>3
  <2>3. Sum(b) <= Sum(a)
    BY <1>4, <2>2, SumOfFewer
  <2>4. Sum(a) = Sum(b)
    BY <1>8, <2>3
  <2> QED
    BY <1>1, <1>2, <1>5, <1>10, <2>1, <2>4 DEF SplitSum
<1> QED
  BY <1>9, <1>10

\* A table becomes Posts, or leaves none.
LEMMA SplitInto ==
    ASSUME NEW t \in Tables, SplitTable(t)
    PROVE  \/ Become("AMBIGUOUS", <<>>) /\ 0 \in reported'
           \/ \E list \in Seq(TableRows) :
                 Become("EXPLICIT", list) /\ Distinct(list) /\ SplitSum(t, Sum(list))
<1>1. CASE ~Splits(t) /\ Become("AMBIGUOUS", <<>>) /\ reported' = {0}
  BY <1>1
<1>2. CASE Splits(t) /\ Become("EXPLICIT", KeptRows(t))
  <2>1. Distinct(KeptRows(t))
    BY <1>2 DEF Splits
  <2> QED
    BY <1>2, <2>1, KeptSum, SplitsSum
<1>3. ASSUME Splits(t), NEW roster \in Rosters(KeptRows(t)),
             Distinct(Refined(KeptRows(t), roster)),
             Become("EXPLICIT", Refined(KeptRows(t), roster))
      PROVE  \E list \in Seq(TableRows) :
                 Become("EXPLICIT", list) /\ Distinct(list) /\ SplitSum(t, Sum(list))
  <2>1. PICK kept \in Seq(TableRows) : kept = KeptRows(t)
    BY KeptSum
  <2>2. Refined(kept, roster) \in Seq(TableRows) /\ Sum(Refined(kept, roster)) = Sum(kept)
    BY <2>1, RefinedSum
  <2>3. SplitSum(t, Sum(kept))
    BY <1>3, <2>1, SplitsSum
  <2> QED
    BY <1>3, <2>1, <2>2, <2>3
<1> QED
  BY <1>1, <1>2, <1>3 DEF SplitTable

LEMMA VacanciesKeep ==
    ASSUME VacanciesSound, [PostFactsNext]_postVars
    PROVE  VacanciesSound'
<1>1. CASE UNCHANGED <<split, vacancyTable, post>> /\ reported \subseteq reported'
  BY <1>1 DEF VacanciesSound, CutShort, Stated, SeenRows, WholeRows, Kept
<1>2. ASSUME NEW t \in Tables, SplitTable(t)
      PROVE  VacanciesSound'
  <2>1. vacancyTable' = t
    BY <1>2 DEF SplitTable
  <2>2. CASE Become("AMBIGUOUS", <<>>) /\ 0 \in reported'
    BY <2>2 DEF Become, VacanciesSound
  <2>3. ASSUME NEW list \in Seq(TableRows), Become("EXPLICIT", list), SplitSum(t, Sum(list))
        PROVE  VacanciesSound'
    <3>1. split' = "EXPLICIT" /\ post' = list
      BY <2>3 DEF Become
    <3> QED
      BY <2>1, <2>3, <3>1
      DEF VacanciesSound, SplitSum, CutShort, Stated, SeenRows, WholeRows, Kept
  <2> QED
    BY <1>2, <2>2, <2>3, SplitInto
<1>3. CASE \E s, ambiguous : Read(s, ambiguous)
  BY <1>1, <1>3 DEF Read
<1>4. PostFactsNext => \/ \E t \in Tables : SplitTable(t)
                       \/ \E s, ambiguous : Read(s, ambiguous)
  <2>1. ASSUME NEW s
        PROVE  ReadRoster(s) \/ ReadRequirement(s) \/ ReadRow(s) \/ ReadColumn(s) \/ ReadClause(s) =>
                  \E ambiguous : Read(s, ambiguous)
    BY Zenon DEF ReadRequirement, ReadRow, ReadColumn, ReadClause, ReadRoster
  <2> QED
    BY Zenon, <2>1 DEF PostFactsNext
<1> QED
  BY <1>1, <1>2, <1>3, <1>4 DEF postVars

----------------------------------------------------------------------------
(* Facts of Posts.                                                         *)

\* A statement that may be read about these Posts.
StatementOf(parts) ==
    [source : {Passes[n] : n \in DOMAIN Passes}, owners : SUBSET parts,
     says : Statements, total : Totals]

\* Belongs, of these Posts.
BelongsTo(s, parts, t) ==
    /\ s.owners # {}
    /\ s.source \in {"row", "column", "roster"} => Cardinality(s.owners) = 1
    /\ s.source = "roster" => t.kind # "single" /\ \A p \in s.owners : parts[p].total = s.total

LEMMA BelongsIs == \A s : Belongs(s) <=> BelongsTo(s, post, vacancyTable)
BY DEF Belongs, BelongsTo, Reconciles

\* What a Post says of itself was stated of it.
StatedIn(p, k, value, statements, parts, t) ==
    \E i \in DOMAIN statements : /\ BelongsTo(statements[i], parts, t)
                                /\ p \in statements[i].owners
                                /\ k \in DOMAIN statements[i].says
                                /\ statements[i].says[k] = value

FactsInvariant ==
    /\ split = "LEGACY_UNSPLIT" => read = <<>>
    /\ post \in Seq(TableRows)
    /\ read \in Seq(StatementOf(DOMAIN post))
    /\ FactsSound

LEMMA FactsAre ==
    FactsSound <=>
       /\ Distinct(post)
       /\ \A p \in DOMAIN post : \A k \in DOMAIN post[p].says : fact[p][k] = post[p].says[k]
       /\ \A p \in DOMAIN post : \A k \in FactKeys \ DOMAIN post[p].says :
             fact[p][k] # Unknown => StatedIn(p, k, fact[p][k], read, post, vacancyTable)
       /\ \A i \in DOMAIN read \ reported :
             /\ read[i].owners # {}
             /\ \A p \in read[i].owners : \A k \in DOMAIN read[i].says :
                   fact[p][k] = read[i].says[k]
BY BelongsIs DEF FactsSound, StatedIn

LEMMA FactsAreNext ==
    FactsSound' <=>
       /\ Distinct(post')
       /\ \A p \in DOMAIN post' : \A k \in DOMAIN post'[p].says : fact'[p][k] = post'[p].says[k]
       /\ \A p \in DOMAIN post' : \A k \in FactKeys \ DOMAIN post'[p].says :
             fact'[p][k] # Unknown => StatedIn(p, k, fact'[p][k], read', post', vacancyTable')
       /\ \A i \in DOMAIN read' \ reported' :
             /\ read'[i].owners # {}
             /\ \A p \in read'[i].owners : \A k \in DOMAIN read'[i].says :
                   fact'[p][k] = read'[i].says[k]
BY DEF FactsSound, StatedIn, Belongs, BelongsTo, Reconciles

LEMMA InitFacts == PostFactsInit => FactsInvariant
<1> SUFFICES ASSUME PostFactsInit PROVE FactsInvariant
  OBVIOUS
<1>1. DOMAIN post = {} /\ DOMAIN read = {} /\ read = <<>>
  BY DEF PostFactsInit
<1>2. read \in Seq(StatementOf(DOMAIN post))
  BY <1>1
<1>3. FactsSound
  BY <1>1 DEF FactsSound, Distinct
<1> QED
  BY <1>1, <1>2, <1>3 DEF FactsInvariant, PostFactsInit

\* What a row or a statement says are facts.
LEMMA SaysFacts ==
    /\ \A r \in TableRows : \A k \in DOMAIN r.says : k \in FactKeys /\ r.says[k] # Unknown
    /\ \A says \in Statements : \A k \in DOMAIN says : k \in FactKeys /\ says[k] # Unknown
BY PostFactsAssumption DEF FactKeys, Stating

\* A table that is split: nothing was read before.
LEMMA SplitStep ==
    ASSUME FactsInvariant, NEW t \in Tables, SplitTable(t)
    PROVE  FactsInvariant'
<1>1. read = <<>> /\ read' = <<>>
  BY DEF FactsInvariant, SplitTable
<1>2. ASSUME NEW status, NEW list \in Seq(TableRows), Become(status, list), Distinct(list),
             status # "LEGACY_UNSPLIT"
      PROVE  FactsInvariant'
  <2>1. /\ post' = list /\ split' = status
        /\ fact' = [i \in DOMAIN list |->
                       [k \in FactKeys |->
                           IF k \in DOMAIN list[i].says THEN list[i].says[k] ELSE Unknown]]
    BY <1>2 DEF Become
  <2>2. Distinct(post')
    BY <1>2, <2>1
  <2>3. ASSUME NEW p \in DOMAIN post'
        PROVE  /\ \A k \in DOMAIN post'[p].says : fact'[p][k] = post'[p].says[k]
               /\ \A k \in FactKeys \ DOMAIN post'[p].says : fact'[p][k] = Unknown
    <3>1. PICK r \in TableRows : r = list[p] /\ p \in DOMAIN list
      BY <2>1
    <3>2. fact'[p] = [k \in FactKeys |-> IF k \in DOMAIN r.says THEN r.says[k] ELSE Unknown]
      BY <2>1, <3>1
    <3>3. \A k \in DOMAIN r.says : k \in FactKeys
      BY SaysFacts
    <3>4. post'[p] = r
      BY <2>1, <3>1
    <3> QED
      BY <3>2, <3>3, <3>4
  <2>4. DOMAIN read' = {}
    BY <1>1
  <2>5. FactsSound'
    BY <2>2, <2>3, <2>4, FactsAreNext
  <2>6. read' \in Seq(StatementOf(DOMAIN post'))
    BY <1>1
  <2> QED
    BY <1>2, <2>1, <2>5, <2>6 DEF FactsInvariant
<1>3. CASE Become("AMBIGUOUS", <<>>)
  <2>1. Distinct(<<>>) /\ <<>> \in Seq(TableRows)
    BY DEF Distinct
  <2> QED
    BY <1>2, <1>3, <2>1
<1>4. ASSUME NEW list \in Seq(TableRows), Become("EXPLICIT", list), Distinct(list)
      PROVE  FactsInvariant'
  BY <1>2, <1>4
<1> QED
  BY <1>3, <1>4, SplitInto

\* A statement that contradicts nothing, where it is not reported: the facts
\* that were known stay, and it holds of those it belongs to.
LEMMA StatementStep ==
    ASSUME FactsInvariant, NEW s \in StatementOf(DOMAIN post), NEW ambiguous \in BOOLEAN,
           Read(s, ambiguous),
           ~ambiguous => Belongs(s) /\ \A p \in s.owners : ~Contradicts(s, p)
    PROVE  FactsInvariant'
<1>1. /\ split = "EXPLICIT" /\ read' = Append(read, s) /\ split' = split /\ post' = post
      /\ vacancyTable' = vacancyTable
      /\ fact' = [p \in DOMAIN post |->
                     IF Belongs(s) /\ p \in s.owners THEN Attach(s, p) ELSE fact[p]]
      /\ reported' = reported \cup {n \in {Len(read) + 1} : ambiguous}
  BY DEF Read
<1>2. /\ read \in Seq(StatementOf(DOMAIN post)) /\ Distinct(post) /\ post \in Seq(TableRows)
      /\ \A i \in DOMAIN read : read[i] \in StatementOf(DOMAIN post)
  BY DEF FactsInvariant, FactsSound
<1>3. /\ read' \in Seq(StatementOf(DOMAIN post)) /\ Len(read) \in Nat
      /\ DOMAIN read = 1..Len(read) /\ DOMAIN read' = 1..(Len(read) + 1)
      /\ \A i \in DOMAIN read : read'[i] = read[i]
      /\ read'[Len(read) + 1] = s
  BY <1>1, <1>2
<1>4. \A i \in DOMAIN read' : i \in DOMAIN read \/ i = Len(read) + 1
  BY <1>3
<1>5. \A i \in DOMAIN read : i \in DOMAIN read'
  BY <1>3
<1>6. s.owners \subseteq DOMAIN post /\ s.says \in Statements
  BY DEF StatementOf
<1>7. \A k \in DOMAIN s.says : k \in FactKeys /\ s.says[k] # Unknown
  BY <1>6, SaysFacts
<1>8. Belongs(s) <=> BelongsTo(s, post, vacancyTable)
  BY BelongsIs
\* What is known stays.
<1>9. ASSUME NEW p \in DOMAIN post, NEW k \in FactKeys
      PROVE  /\ fact[p][k] # Unknown => fact'[p][k] = fact[p][k]
             /\ fact'[p][k] = fact[p][k] \/
                   (Belongs(s) /\ p \in s.owners /\ k \in DOMAIN s.says /\ fact'[p][k] = s.says[k])
             /\ Belongs(s) /\ p \in s.owners /\ k \in DOMAIN s.says /\ fact[p][k] = Unknown
                   => fact'[p][k] = s.says[k]
  <2>1. CASE Belongs(s) /\ p \in s.owners
    <3>1. fact'[p][k] = IF k \in DOMAIN s.says /\ fact[p][k] = Unknown
                        THEN s.says[k] ELSE fact[p][k]
      BY <1>1, <2>1 DEF Attach
    <3>2. CASE k \in DOMAIN s.says /\ fact[p][k] = Unknown
      BY <2>1, <3>1, <3>2
    <3>3. CASE ~(k \in DOMAIN s.says /\ fact[p][k] = Unknown)
      BY <2>1, <3>1, <3>3
    <3> QED
      BY <3>2, <3>3
  <2>2. CASE ~(Belongs(s) /\ p \in s.owners)
    <3>1. fact'[p] = fact[p]
      BY <1>1, <2>2
    <3> QED
      BY <2>2, <3>1
  <2> QED
    BY <2>1, <2>2
<1>10. ASSUME NEW p \in DOMAIN post', NEW k \in FactKeys \ DOMAIN post'[p].says,
              fact'[p][k] # Unknown
       PROVE  StatedIn(p, k, fact'[p][k], read', post, vacancyTable)
  <2>1. p \in DOMAIN post /\ k \in FactKeys \ DOMAIN post[p].says
    BY <1>1
  <2>2. CASE fact'[p][k] = fact[p][k]
    <3>1. StatedIn(p, k, fact[p][k], read, post, vacancyTable)
      BY <1>10, <2>1, <2>2, FactsAre DEF FactsInvariant
    <3>2. PICK i \in DOMAIN read : /\ BelongsTo(read[i], post, vacancyTable) /\ p \in read[i].owners
                                   /\ k \in DOMAIN read[i].says
                                   /\ read[i].says[k] = fact[p][k]
      BY <3>1 DEF StatedIn
    <3>3. i \in DOMAIN read' /\ read'[i] = read[i]
      BY <1>3, <1>5, <3>2
    <3> QED
      BY <2>2, <3>2, <3>3 DEF StatedIn
  <2>3. CASE Belongs(s) /\ p \in s.owners /\ k \in DOMAIN s.says /\ fact'[p][k] = s.says[k]
    <3>1. Len(read) + 1 \in DOMAIN read'
      BY <1>3
    <3> QED
      BY <1>3, <1>8, <2>3, <3>1 DEF StatedIn
  <2> QED
    BY <1>9, <2>1, <2>2, <2>3
<1>11. ASSUME NEW i \in DOMAIN read' \ reported'
       PROVE  /\ read'[i].owners # {}
              /\ \A p \in read'[i].owners : \A k \in DOMAIN read'[i].says :
                    fact'[p][k] = read'[i].says[k]
  <2>1. CASE i \in DOMAIN read
    <3>1. i \notin reported /\ read'[i] = read[i] /\ read[i] \in StatementOf(DOMAIN post)
      BY <1>1, <1>2, <1>3, <1>11, <2>1
    <3>2. /\ read[i].owners # {}
          /\ \A p \in read[i].owners : \A k \in DOMAIN read[i].says :
                fact[p][k] = read[i].says[k]
      BY <2>1, <3>1 DEF FactsInvariant, FactsSound
    <3>3. read[i].owners \subseteq DOMAIN post /\ read[i].says \in Statements
      BY <3>1 DEF StatementOf
    <3>4. \A k \in DOMAIN read[i].says : k \in FactKeys /\ read[i].says[k] # Unknown
      BY <3>3, SaysFacts
    <3>5. \A p \in read[i].owners : \A k \in DOMAIN read[i].says :
                fact'[p][k] = read[i].says[k]
      BY <1>9, <3>2, <3>3, <3>4
    <3> QED
      BY <3>1, <3>2, <3>5
  <2>2. CASE i = Len(read) + 1
    <3>1. ~ambiguous
      BY <1>1, <1>11, <2>2
    <3>2. Belongs(s) /\ \A p \in s.owners : ~Contradicts(s, p)
      BY <3>1
    <3>3. s.owners # {}
      BY <3>2 DEF Belongs
    <3>4. \A p \in s.owners : \A k \in DOMAIN s.says : fact[p][k] \in {Unknown, s.says[k]}
      BY <3>2 DEF Contradicts
    <3>5. \A p \in s.owners : \A k \in DOMAIN s.says : fact'[p][k] = s.says[k]
      BY <1>6, <1>7, <1>9, <3>2, <3>4
    <3> QED
      BY <1>3, <2>2, <3>3, <3>5
  <2> QED
    BY <1>4, <2>1, <2>2
<1>12. FactsSound'
  <2>1. Distinct(post') /\ post' = post
    BY <1>1, <1>2
  <2>2. \A p \in DOMAIN post' : \A k \in FactKeys \ DOMAIN post'[p].says :
           fact'[p][k] # Unknown => StatedIn(p, k, fact'[p][k], read', post', vacancyTable')
    BY <1>1, <1>10
  <2>3. \A p \in DOMAIN post' : \A k \in DOMAIN post'[p].says : fact'[p][k] = post'[p].says[k]
    <3> SUFFICES ASSUME NEW p \in DOMAIN post, NEW k \in DOMAIN post[p].says
                 PROVE  fact'[p][k] = post[p].says[k]
      BY <1>1
    <3>1. post[p] \in TableRows
      BY <1>2
    <3>2. k \in FactKeys /\ post[p].says[k] # Unknown
      BY <3>1, SaysFacts
    <3>3. fact[p][k] = post[p].says[k]
      BY DEF FactsInvariant, FactsSound
    <3> QED
      BY <1>9, <3>2, <3>3
  <2> QED
    BY <1>11, <2>1, <2>2, <2>3, FactsAreNext
<1> QED
  BY <1>1, <1>2, <1>3, <1>12 DEF FactsInvariant

\* The headings of a trade are read of Posts nothing was read of.
LEMMA RequirementStep ==
    ASSUME FactsInvariant, NEW s \in StatementOf(DOMAIN post), ReadRequirement(s)
    PROVE  FactsInvariant'
<1>1. /\ s.source = "requirement" /\ s.owners # {} /\ Read(s, FALSE)
      /\ \A i \in DOMAIN read : read[i].owners \cap s.owners = {}
      /\ \A p \in s.owners : DOMAIN s.says \cap DOMAIN post[p].says = {}
  BY DEF ReadRequirement
<1>2. Belongs(s)
  BY <1>1 DEF Belongs
<1>3. s.owners \subseteq DOMAIN post /\ s.says \in Statements
  BY DEF StatementOf
<1>4. ASSUME NEW p \in s.owners, NEW k \in DOMAIN s.says PROVE fact[p][k] = Unknown
  <2>1. p \in DOMAIN post /\ k \in FactKeys \ DOMAIN post[p].says
    BY <1>1, <1>3, SaysFacts
  <2>2. \A i \in DOMAIN read : p \notin read[i].owners
    BY <1>1
  <2> QED
    BY <2>1, <2>2 DEF FactsInvariant, FactsSound
<1>5. \A p \in s.owners : ~Contradicts(s, p)
  BY <1>4 DEF Contradicts
<1> QED
  BY <1>1, <1>2, <1>5, StatementStep

LEMMA FactsKeep ==
    ASSUME FactsInvariant, [PostFactsNext]_postVars
    PROVE  FactsInvariant'
<1>1. CASE postVars' = postVars
  BY <1>1 DEF postVars, FactsInvariant, FactsSound, Distinct, Belongs, Reconciles
<1>2. ASSUME NEW n \in DOMAIN Passes, NEW owners \in SUBSET DOMAIN post, NEW says \in Statements,
             NEW total \in Totals, NEW s,
             s = [source |-> Passes[n], owners |-> owners, says |-> says, total |-> total],
             ReadRoster(s) \/ ReadRequirement(s) \/ ReadRow(s) \/ ReadColumn(s) \/ ReadClause(s)
      PROVE  FactsInvariant'
  <2>1. s \in StatementOf(DOMAIN post)
    BY <1>2 DEF StatementOf
  <2>2. CASE ReadRequirement(s)
    BY <2>1, <2>2, RequirementStep
  <2>3. CASE Read(s, Ambiguous(s))
    <3>1. Ambiguous(s) \in BOOLEAN
      BY DEF Ambiguous
    <3>2. ~Ambiguous(s) => Belongs(s) /\ \A p \in s.owners : ~Contradicts(s, p)
      BY DEF Ambiguous
    <3> QED
      BY <2>1, <2>3, <3>1, <3>2, StatementStep
  <2> QED
    BY <1>2, <2>2, <2>3 DEF ReadRoster, ReadRow, ReadColumn, ReadClause
<1>3. PostFactsNext => \/ \E t \in Tables : SplitTable(t)
                       \/ \E n \in DOMAIN Passes, owners \in SUBSET DOMAIN post,
                             says \in Statements, total \in Totals :
                             \E s : /\ s = [source |-> Passes[n], owners |-> owners,
                                            says |-> says, total |-> total]
                                    /\ \/ ReadRoster(s) \/ ReadRequirement(s) \/ ReadRow(s)
                                       \/ ReadColumn(s) \/ ReadClause(s)
  BY DEF PostFactsNext
<1> QED
  BY <1>1, <1>2, <1>3, SplitStep

\* Passes over the text (post_structure.py, official_recruitment_archive.py):
\* the Posts of an advertisement have different keys, what a Post says of itself
\* its row or a statement said of it, and what was stated of a Post and not
\* reported as an ambiguity is never overwritten by what is read after it.
THEOREM FactsAreSound == PostFactsSpec => []FactsSound
<1>1. FactsInvariant => FactsSound
  BY DEF FactsInvariant
<1> QED
  BY <1>1, InitFacts, FactsKeep, PTL DEF PostFactsSpec

\* Tables, rosters and passes (post_structure.py,
\* official_recruitment_archive.py): a table that is not split leaves no Posts and
\* is reported; however rosters take the place of Posts, they have in all the
\* vacancies of the rows that were read whole, at most those where a piped table
\* is cut short; and their facts are those that were stated of them.
THEOREM PostsAreSound == PostFactsSpec => []PostsSound
<1>1. PostFactsInit => VacanciesSound
  BY DEF PostFactsInit, VacanciesSound
<1>2. VacanciesSound /\ FactsSound => PostsSound
  BY DEF PostsSound
<1> QED
  BY <1>1, <1>2, VacanciesKeep, FactsAreSound, PTL DEF PostFactsSpec

----------------------------------------------------------------------------
(* The services together.                                                  *)

\* What the public is shown, and the limiter that guards it, side by side: the
\* listing is sound, the dates of its jobs say what they say, and the table
\* of the limiter has its bound.
THEOREM PublicIsSound == ListingSpec /\ GateSpec => []PublicSound
BY ListingIsSound, DatesAreSound, TableIsBounded, PTL DEF PublicSound

\* The adapters: what a crawl does with the rows of a listing, and what becomes
\* of the text of an advertisement.
THEOREM SourcesAreSound == CrawlSpec /\ PostFactsSpec => []SourcesSound
BY CrawlsAreSound, PostsAreSound, PTL DEF SourcesSound
=============================================================================
