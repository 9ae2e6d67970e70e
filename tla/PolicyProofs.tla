---------------------------- MODULE PolicyProofs ----------------------------
(***************************************************************************)
(* Proofs about VerificationPolicy, for any Evidence and assessments.      *)
(***************************************************************************)
EXTENDS VerificationPolicy, FiniteSetTheorems, TLAPS

----------------------------------------------------------------------------
(* Counting assessments. *)

Of(seen, c, k) == {e \in Evidence : SourceClass[e] = c /\ seen[e] = k}
All(seen) == {e \in Evidence : seen[e] # "none"}

\* A set of Evidence is counted by a natural number, 0 only if it is empty.
LEMMA EvidenceCount ==
    ASSUME NEW S \in SUBSET Evidence
    PROVE  /\ Cardinality(S) \in 0..Cardinality(Evidence)
           /\ Cardinality(S) = 0 <=> S = {}
<1>1. IsFiniteSet(Evidence) /\ IsFiniteSet(S) /\ Cardinality(S) <= Cardinality(Evidence)
  BY PolicyAssumption, FS_Subset
<1>2. Cardinality(Evidence) \in Nat /\ Cardinality(S) \in Nat
  BY <1>1, FS_CardinalityType
<1>3. Cardinality(S) = 0 <=> S = {}
  BY <1>1, FS_EmptySet
<1> QED
  BY <1>1, <1>2, <1>3

LEMMA TallyOf ==
    ASSUME NEW seen, NEW c \in SourceClasses, NEW k \in Stances
    PROVE  /\ Tally(seen)[<<c, k>>] \in 0..Cardinality(Evidence)
           /\ Tally(seen)[<<c, k>>] = Cardinality(Of(seen, c, k))
           /\ Tally(seen)[<<c, k>>] > 0 <=>
                 \E e \in Evidence : seen[e] = k /\ SourceClass[e] = c
<1>1. Tally(seen)[<<c, k>>] = Cardinality(Of(seen, c, k))
  BY DEF Tally, Of
<1>2. Of(seen, c, k) \in SUBSET Evidence
  BY DEF Of
<1>3. /\ Cardinality(Of(seen, c, k)) \in 0..Cardinality(Evidence)
      /\ Cardinality(Of(seen, c, k)) = 0 <=> Of(seen, c, k) = {}
  BY <1>2, EvidenceCount
<1>4. Of(seen, c, k) # {} <=> \E e \in Evidence : seen[e] = k /\ SourceClass[e] = c
  BY DEF Of
<1>5. Cardinality(Of(seen, c, k)) > 0 <=> Of(seen, c, k) # {}
  BY <1>3
<1> QED
  BY <1>1, <1>3, <1>4, <1>5

LEMMA TallyType ==
    ASSUME NEW seen
    PROVE  Tally(seen) \in [SourceClasses \X Stances -> 0..Cardinality(Evidence)]
<1>1. \A c \in SourceClasses, k \in Stances :
         Cardinality(Of(seen, c, k)) \in 0..Cardinality(Evidence)
  BY EvidenceCount DEF Of
<1> QED
  BY <1>1 DEF Tally, Of

LEMMA EvaluatedOf ==
    ASSUME NEW seen
    PROVE  /\ Evaluated(seen) \in 0..Cardinality(Evidence)
           /\ Evaluated(seen) = 0 <=> \A e \in Evidence : seen[e] = "none"
<1>1. Evaluated(seen) = Cardinality(All(seen)) /\ All(seen) \in SUBSET Evidence
  BY DEF Evaluated, All
<1>2. All(seen) = {} <=> \A e \in Evidence : seen[e] = "none"
  BY DEF All
<1> QED
  BY <1>1, <1>2, EvidenceCount

\* More assessments are counted by larger numbers.
LEMMA CountsGrow ==
    ASSUME NEW seen, NEW later, Extends(seen, later)
    PROVE  /\ \A x \in SourceClasses \X Stances : Tally(seen)[x] <= Tally(later)[x]
           /\ Evaluated(seen) <= Evaluated(later)
<1>1. ASSUME NEW c \in SourceClasses, NEW k \in Stances
      PROVE  Tally(seen)[<<c, k>>] <= Tally(later)[<<c, k>>]
  <2>1. Of(seen, c, k) \in SUBSET Of(later, c, k)
    BY DEF Of, Extends, Stances
  <2>2. IsFiniteSet(Of(later, c, k))
    BY PolicyAssumption, FS_Subset DEF Of
  <2>3. Cardinality(Of(seen, c, k)) <= Cardinality(Of(later, c, k))
    BY <2>1, <2>2, FS_Subset
  <2> QED
    BY <2>3, TallyOf
<1>2. Evaluated(seen) <= Evaluated(later)
  <2>1. All(seen) \in SUBSET All(later)
    BY DEF All, Extends
  <2>2. IsFiniteSet(All(later))
    BY PolicyAssumption, FS_Subset DEF All
  <2>3. Cardinality(All(seen)) <= Cardinality(All(later))
    BY <2>1, <2>2, FS_Subset
  <2> QED
    BY <2>3 DEF All, Evaluated
<1> QED
  BY <1>1, <1>2

----------------------------------------------------------------------------
(* The policy. *)

LEMMA WeakerOf ==
    ASSUME NEW seen, NEW k \in Stances
    PROVE  /\ Weaker(Tally(seen), k) \in Nat
           /\ Weaker(Tally(seen), k) > 0 <=> Says(seen, k, Other)
           /\ Weaker(Tally(seen), k) > 0 <=>
                 \/ Tally(seen)[<<"OFFICIAL_SUPPORTING", k>>] > 0
                 \/ Tally(seen)[<<"SECONDARY_DISCOVERY_ONLY", k>>] > 0
<1> DEFINE o == "OFFICIAL_SUPPORTING"
           d == "SECONDARY_DISCOVERY_ONLY"
<1>1. o \in SourceClasses /\ d \in SourceClasses /\ Other = {o, d}
  BY DEF SourceClasses, Other, Official
<1>2. /\ Tally(seen)[<<o, k>>] \in Nat
      /\ Tally(seen)[<<o, k>>] > 0 <=> \E e \in Evidence : seen[e] = k /\ SourceClass[e] = o
  BY <1>1, TallyOf
<1>3. /\ Tally(seen)[<<d, k>>] \in Nat
      /\ Tally(seen)[<<d, k>>] > 0 <=> \E e \in Evidence : seen[e] = k /\ SourceClass[e] = d
  BY <1>1, TallyOf
<1>4. Says(seen, k, Other) <=>
         \/ \E e \in Evidence : seen[e] = k /\ SourceClass[e] = o
         \/ \E e \in Evidence : seen[e] = k /\ SourceClass[e] = d
  BY <1>1 DEF Says
<1> HIDE DEF o, d
<1>5. Weaker(Tally(seen), k) = Tally(seen)[<<o, k>>] + Tally(seen)[<<d, k>>]
  BY DEF Weaker, o, d
<1>6. /\ Weaker(Tally(seen), k) \in Nat
      /\ Weaker(Tally(seen), k) > 0 <=>
            Tally(seen)[<<o, k>>] > 0 \/ Tally(seen)[<<d, k>>] > 0
  BY <1>2, <1>3, <1>5
<1> QED
  BY <1>2, <1>3, <1>4, <1>6 DEF o, d

\* The result the service computes is one the policy allows, and it follows
\* from all the assessments it was computed from.
THEOREM PolicyMeetsReference ==
    ASSUME NEW seen \in Seen, NEW na \in BOOLEAN
    PROVE  ResultOf(seen, na) \in Results \ {NoResult} /\ Follows(ResultOf(seen, na), seen)
<1> DEFINE a == "AUTHORITATIVE_OFFICIAL"
           t == Tally(seen)
           n == Evaluated(seen)
<1>1. CASE na
  BY <1>1 DEF ResultOf, Results, NoResult, Outcomes, Follows
<1>2. CASE ~na
  <2>1. ResultOf(seen, na) = Determined(t, n)
    BY <1>2 DEF ResultOf
  <2>2. ASSUME NEW k \in Stances
        PROVE  /\ t[<<a, k>>] \in Nat
               /\ t[<<a, k>>] > 0 <=> Says(seen, k, Official)
    <3>1. a \in SourceClasses /\ Official = {a}
      BY DEF SourceClasses, Official
    <3> QED
      BY <3>1, TallyOf DEF Says
  <2>3. "SUPPORTS" \in Stances /\ "CONTRADICTS" \in Stances
        /\ \A k \in Stances : k = "SUPPORTS" \/ k = "CONTRADICTS"
    BY DEF Stances
  <2>4. n = 0 <=> seen = Unassessed
    BY EvaluatedOf DEF Seen, Unassessed
  <2>5. \A e \in Evidence : SourceClass[e] \in Official \/ SourceClass[e] \in Other
    BY PolicyAssumption DEF Official, Other
  <2>6. ~Says(seen, "CONTRADICTS", Official) /\ ~Says(seen, "SUPPORTS", Official) =>
           \A e \in Evidence : seen[e] \in Stances => SourceClass[e] \in Other
    BY <2>3, <2>5 DEF Says
  <2>7. CASE t[<<a, "CONTRADICTS">>] > 0
    <3>1. Determined(t, n) = <<"CONFLICT", "AUTHORITATIVE_CONFLICT">>
      BY <2>7, <2>2, <2>3 DEF Determined
    <3> QED
      BY <2>1, <2>2, <2>3, <2>7, <3>1 DEF Follows, Results, Outcomes, NoResult
  <2>8. CASE ~(t[<<a, "CONTRADICTS">>] > 0) /\ t[<<a, "SUPPORTS">>] > 0
    <3>1. t[<<a, "CONTRADICTS">>] = 0
      BY <2>2, <2>3, <2>8
    <3>2. Determined(t, n) = <<"CONFIRMED", "AUTHORITATIVE_SUPPORT">>
      BY <2>8, <3>1 DEF Determined
    <3> QED
      BY <2>1, <2>2, <2>3, <2>8, <3>2 DEF Follows, Results, Outcomes, NoResult
  <2>9. CASE ~(t[<<a, "CONTRADICTS">>] > 0) /\ ~(t[<<a, "SUPPORTS">>] > 0)
    <3> DEFINE s == Weaker(t, "SUPPORTS")
               c == Weaker(t, "CONTRADICTS")
    <3>1. /\ s \in Nat /\ (s > 0 <=> Says(seen, "SUPPORTS", Other))
          /\ c \in Nat /\ (c > 0 <=> Says(seen, "CONTRADICTS", Other))
      BY WeakerOf, <2>3
    <3>2. \A e \in Evidence : seen[e] \in Stances => SourceClass[e] \in Other
      BY <2>2, <2>3, <2>6, <2>9
    <3>3. Determined(t, n) =
            IF s > 0 /\ c > 0 THEN <<"CONFLICT", "SOURCE_CONFLICT">>
            ELSE <<"INSUFFICIENT_EVIDENCE",
                   IF n = 0 THEN "NO_EVIDENCE"
                   ELSE IF /\ t[<<"SECONDARY_DISCOVERY_ONLY", "SUPPORTS">>] > 0
                           /\ t[<<"OFFICIAL_SUPPORTING", "SUPPORTS">>] = 0 /\ c = 0
                        THEN "ONLY_SECONDARY_EVIDENCE"
                        ELSE "INSUFFICIENT_SUPPORT">>
      BY <2>9 DEF Determined
    <3>4. CASE s > 0 /\ c > 0
      BY <2>1, <3>1, <3>2, <3>3, <3>4 DEF Follows, Results, Outcomes, NoResult
    <3>5. CASE ~(s > 0 /\ c > 0) /\ n = 0
      BY <2>1, <2>4, <3>3, <3>5 DEF Follows, Results, Outcomes, NoResult
    <3>6. CASE /\ n # 0 /\ t[<<"SECONDARY_DISCOVERY_ONLY", "SUPPORTS">>] > 0
               /\ t[<<"OFFICIAL_SUPPORTING", "SUPPORTS">>] = 0 /\ c = 0
      <4>1. Determined(t, n) = <<"INSUFFICIENT_EVIDENCE", "ONLY_SECONDARY_EVIDENCE">>
        BY <3>1, <3>3, <3>6
      <4>2. Says(seen, "SUPPORTS", Other)
        BY <3>1, <3>6, <2>3, WeakerOf
      <4>3. ~\E e \in Evidence : seen[e] = "SUPPORTS" /\ SourceClass[e] = "OFFICIAL_SUPPORTING"
        <5>1. "OFFICIAL_SUPPORTING" \in SourceClasses
          BY DEF SourceClasses
        <5> QED
          BY <5>1, <3>6, <2>3, TallyOf
      <4>4. \A e \in Evidence : seen[e] \in Stances =>
               seen[e] = "SUPPORTS" /\ SourceClass[e] = "SECONDARY_DISCOVERY_ONLY"
        <5>1. ~Says(seen, "CONTRADICTS", Other)
          BY <3>1, <3>6
        <5>2. Other = {"OFFICIAL_SUPPORTING", "SECONDARY_DISCOVERY_ONLY"}
          BY DEF Other, Official, SourceClasses
        <5> QED
          BY <5>1, <5>2, <2>3, <3>2, <4>3 DEF Says
      <4> QED
        BY <2>1, <4>1, <4>2, <4>4 DEF Follows, Results, Outcomes, NoResult
    <3>7. CASE /\ n # 0 /\ ~(s > 0 /\ c > 0)
               /\ ~(/\ t[<<"SECONDARY_DISCOVERY_ONLY", "SUPPORTS">>] > 0
                    /\ t[<<"OFFICIAL_SUPPORTING", "SUPPORTS">>] = 0 /\ c = 0)
      <4>1. Determined(t, n) = <<"INSUFFICIENT_EVIDENCE", "INSUFFICIENT_SUPPORT">>
        BY <3>3, <3>7
      <4> QED
        BY <2>1, <2>4, <3>1, <3>2, <3>7, <4>1 DEF Follows, Results, Outcomes, NoResult
    <3> QED
      BY <3>4, <3>5, <3>6, <3>7
  <2> QED
    BY <2>7, <2>8, <2>9
<1> QED
  BY <1>1, <1>2
=============================================================================
