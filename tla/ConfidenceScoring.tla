------------------------- MODULE ConfidenceScoring -------------------------
(***************************************************************************)
(* What is computed from a verification run that has ended: the Confidence *)
(* assessments of its fields and of its revision, by the policy V1, which  *)
(* also says what is to be reviewed, and by V2, which only says how        *)
(* reliable a value is, and the routing of a V2 assessment to reviewers.   *)
(*                                                                         *)
(* Every assessment is stored once with its inputs.  Asking for it again   *)
(* computes it anew and compares; a difference is an error, to whoever     *)
(* scores, reviews or publishes.                                           *)
(***************************************************************************)
EXTENDS VerificationPolicy, Integers, FiniteSetsExt

CONSTANTS
    Fields,
    EndpointOf,     \* the endpoint an Evidence comes from
    Critical,       \* the fields a policy calls critical
    Threshold,      \* of a standard field, a critical field and a revision
    Found,          \* what may have been found of each field
    PostReadings,       \* how the advertisement may have been read
    Links,          \* extraction Evidence that requests still link to fields
    Late            \* assessments that requests still add to finalized fields

ASSUME ScoringAssumption ==
    /\ IsFiniteSet(Fields) /\ Fields # {}
    /\ Critical \subseteq Fields
    /\ \A d, e \in Evidence : EndpointOf[d] = EndpointOf[e] => SourceClass[d] = SourceClass[e]
    /\ Threshold \in [{"standard", "critical", "revision"} -> 0..100]
    /\ Links \subseteq Fields \X Evidence
    /\ Late \subseteq Fields \X Evidence \X Assessments

VARIABLES
    finding,        \* the assessments and the result of each field, once finalized
    posts,          \* how the advertisement was split, the field that lists its
                    \* ambiguities and what their words point at, whether a Post
                    \* lacks a fact the public needs
    linked,         \* the extraction Evidence linked to each field
    fieldScore,     \* the V1 assessments of the fields
    runScore,       \* the V1 and V2 assessments of the run
    routing         \* the routing of the V2 assessment

scores == <<fieldScore, runScore, routing>>
scoringVars == <<finding, posts, linked, scores>>

NoRow == [none |-> TRUE]
Finalized == {f \in Fields : finding[f].result # NoResult}
Partial == Finalized # Fields

Priorities == <<"NONE", "NORMAL", "HIGH", "CRITICAL">>
Rank(p) == CHOOSE n \in DOMAIN Priorities : Priorities[n] = p
Highest(S) == CHOOSE p \in S : \A q \in S : Rank(q) <= Rank(p)

Clamped(n) == IF n < 0 THEN 0 ELSE IF n > 100 THEN 100 ELSE n
Below(n, most) == IF n < most THEN n ELSE most

\* A quotient rounded half up.
Rounded(num, den) == (2 * num + den) \div (2 * den)

\* The distinct endpoints of a class that support or contradict.
Endpoints(seen, class, stance) ==
    {EndpointOf[e] : e \in {x \in Evidence : SourceClass[x] = class /\ seen[x] = stance}}
Count(seen, class, stance) == Cardinality(Endpoints(seen, class, stance))

Weight(f) == IF f \in Critical THEN 2 ELSE 1

\* The fields that have a score, their weighted sum and the sum of weights.
Weighted(rows) ==
    LET scored == {f \in DOMAIN rows : rows[f].score # -1} IN
    [fields |-> scored,
     sum |-> MapThenSumSet(LAMBDA f : Weight(f) * rows[f].score, scored),
     weight |-> MapThenSumSet(Weight, scored)]

----------------------------------------------------------------------------
(* Confidence V1.  A score of -1 stands for none.                          *)

Anchor(reason) ==
    CASE reason = "AUTHORITATIVE_SUPPORT" -> 90
      [] reason = "AUTHORITATIVE_CONFLICT" -> 15
      [] reason = "SOURCE_CONFLICT" -> 35
      [] reason = "NO_EVIDENCE" -> 20
      [] reason = "ONLY_SECONDARY_EVIDENCE" -> 45
      [] reason = "INSUFFICIENT_SUPPORT" -> 40

Bonus(seen) ==
    LET authoritative == Count(seen, "AUTHORITATIVE_OFFICIAL", "SUPPORTS") IN
    Below(3 * (IF authoritative > 0 THEN authoritative - 1 ELSE 0), 6)
    + Below(2 * Count(seen, "OFFICIAL_SUPPORTING", "SUPPORTS"), 4)
    + Below(Count(seen, "SECONDARY_DISCOVERY_ONLY", "SUPPORTS"), 2)

Malus(seen) ==
    Below(5 * Count(seen, "SECONDARY_DISCOVERY_ONLY", "CONTRADICTS"), 10)
    + Below(12 * Count(seen, "OFFICIAL_SUPPORTING", "CONTRADICTS"), 24)

FieldScore(x) ==
    LET reason == x.result[2]
        score == Clamped(Anchor(reason) + Bonus(x.seen) - Malus(x.seen))
    IN CASE x.result[1] = "NOT_APPLICABLE" -> -1
         [] reason = "AUTHORITATIVE_CONFLICT" -> Below(score, 25)
         [] OTHER -> score

FieldReasons(f, x, score) ==
    {r \in {"AUTHORITATIVE_CONFLICT", "SOURCE_CONFLICT", "ONLY_SECONDARY_EVIDENCE"} :
        r = x.result[2]}
    \cup {r \in {"INSUFFICIENT_EVIDENCE"} :
        x.result[2] \in {"NO_EVIDENCE", "INSUFFICIENT_SUPPORT"}}
    \cup {r \in {"CRITICAL_FIELD_BELOW_THRESHOLD"} :
        f \in Critical /\ score \in 0..(Threshold["critical"] - 1)}
    \cup {r \in {"CRITICAL_FIELD_NO_AUTHORITATIVE_SUPPORT"} :
        f \in Critical /\ score # -1 /\ Count(x.seen, "AUTHORITATIVE_OFFICIAL", "SUPPORTS") = 0}
    \cup {r \in {"FIELD_SCORE_BELOW_THRESHOLD"} :
        f \notin Critical /\ score \in 0..(Threshold["standard"] - 1)}

FieldPriority(f, x, score, reasons) ==
    CASE reasons = {} -> "NONE"
      [] reasons # {} /\ x.result[2] = "AUTHORITATIVE_CONFLICT" ->
            IF f \in Critical THEN "CRITICAL" ELSE "HIGH"
      [] OTHER ->
            IF /\ f \in Critical
               /\ \/ reasons \cap {"SOURCE_CONFLICT",
                                   "CRITICAL_FIELD_NO_AUTHORITATIVE_SUPPORT"} # {}
                  \/ score \in 0..49
            THEN "HIGH" ELSE "NORMAL"

\* _field_result: the assessment of a field and what it was computed from.
FieldRow(f, x, evidence) ==
    LET score == FieldScore(x)
        reasons == FieldReasons(f, x, score)
    IN [finding |-> x, evidence |-> evidence, score |-> score, reasons |-> reasons,
        priority |-> FieldPriority(f, x, score, reasons)]

RunReasons(rows, score) ==
    (UNION {rows[f].reasons : f \in DOMAIN rows})
    \cup {r \in {"PARTIAL_VERIFICATION"} : DOMAIN rows # Fields}
    \cup {r \in {"REVISION_SCORE_BELOW_THRESHOLD"} : score < Threshold["revision"]}

\* _revision_result.
RunRowV1(rows) ==
    LET w == Weighted(rows)
        score == IF w.fields = {} THEN -1
                 ELSE Rounded(w.sum * Cardinality(DOMAIN rows), w.weight * Cardinality(Fields))
        reasons == RunReasons(rows, score)
        priority == Highest({rows[f].priority : f \in DOMAIN rows}
                            \cup {IF DOMAIN rows # Fields THEN "NORMAL" ELSE "NONE"})
    IN [fields |-> rows, score |-> score, reasons |-> reasons,
        priority |-> IF reasons # {} /\ priority = "NONE" THEN "NORMAL" ELSE priority]

----------------------------------------------------------------------------
(* Confidence V2, with a deterministic extraction, a located value and a   *)
(* way of reading the advertisement.                                        *)

\* The endpoints that support, of all classes.
Supporting(seen) == MapThenSumSet(LAMBDA c : Count(seen, c, "SUPPORTS"), SourceClasses)

FieldScoreV2(f, x, how) ==
    LET present(class, stance, points) == IF Count(x.seen, class, stance) > 0 THEN points ELSE 0
        support == Supporting(x.seen)
    IN IF x.result[1] = "NOT_APPLICABLE" THEN -1
       ELSE Clamped(
            (CASE x.result[1] = "CONFIRMED" -> 50
               [] x.result[1] = "CONFLICT" -> 20
               [] x.result[1] = "INSUFFICIENT_EVIDENCE" -> 25)
            + present("AUTHORITATIVE_OFFICIAL", "SUPPORTS", 30)
            + present("OFFICIAL_SUPPORTING", "SUPPORTS", 20)
            + present("SECONDARY_DISCOVERY_ONLY", "SUPPORTS", 8)
            + 10 + 5 + Below(IF support > 0 THEN support - 1 ELSE 0, 5)
            + present("AUTHORITATIVE_OFFICIAL", "CONTRADICTS", -45)
            + present("OFFICIAL_SUPPORTING", "CONTRADICTS", -30)
            + present("SECONDARY_DISCOVERY_ONLY", "CONTRADICTS", -10)
            + (IF f \in how.ambiguities THEN -30 ELSE 0))

FieldRowV2(f, x, how) == [finding |-> x, score |-> FieldScoreV2(f, x, how)]

RunRowV2(rows, how) ==
    LET w == Weighted(rows)
        average == Rounded(w.sum, w.weight)
    IN [fields |-> rows,
        score |-> IF w.fields = {} THEN -1
                  ELSE Clamped(average - (IF how.split = "AMBIGUOUS" THEN 20 ELSE 0))]

ResultV2 == RunRowV2([f \in Finalized |-> FieldRowV2(f, finding[f], posts)], posts)

----------------------------------------------------------------------------
(* Review Routing V2.                                                      *)

RouteReasons(f, result) ==
    {r \in {"AUTHORITATIVE_CONFLICT"} : result[2] = "AUTHORITATIVE_CONFLICT"}
    \cup {r \in {"SOURCE_CONFLICT"} :
        result[1] = "CONFLICT" /\ result[2] # "AUTHORITATIVE_CONFLICT"}
    \cup {r \in {"INSUFFICIENT_CRITICAL_EVIDENCE", "UNCLEAR_CRITICAL_MEANING"} :
        f \in Critical /\ result[1] = "INSUFFICIENT_EVIDENCE"}
    \cup {r \in {"AMBIGUOUS_POST_DETAILS"} : f \in posts.ambiguities}
    \cup {r \in posts.unclear : f \in posts.ambiguities}

RoutePriority(f, reasons) ==
    CASE reasons = {} -> "NONE"
      [] f \in Critical /\ reasons # {} ->
            IF "AUTHORITATIVE_CONFLICT" \in reasons THEN "CRITICAL" ELSE "HIGH"
      [] OTHER ->
            IF reasons \cap {"AUTHORITATIVE_CONFLICT", "UNCERTAIN_VACANCY_MAPPING",
                             "POSSIBLE_WRONG_POST_OWNERSHIP"} # {}
            THEN "HIGH" ELSE "NORMAL"

\* _result.
Route ==
    LET of(f) == RouteReasons(f, finding[f].result)
        ambiguous == posts.split = "AMBIGUOUS"
    IN [confidence |-> ResultV2,
        reasons |-> (UNION {of(f) : f \in Finalized})
            \cup {r \in {"AMBIGUOUS_POST_SPLIT", "UNCERTAIN_VACANCY_MAPPING"} : ambiguous}
            \cup {r \in {"PARTIAL_VERIFICATION"} : Partial}
            \cup {r \in {"MISSING_PUBLIC_REQUIRED_FIELDS"} : posts.missing},
        priority |-> Highest({RoutePriority(f, of(f)) : f \in Finalized}
            \cup {IF ambiguous THEN "HIGH"
                  ELSE IF Partial \/ posts.missing THEN "NORMAL" ELSE "NONE"})]

----------------------------------------------------------------------------
(* The findings of a COMPLETED or PARTIAL run.                             *)

Unfinished == [seen |-> Unassessed, result |-> NoResult]
AnyFinding ==
    {Unfinished} \cup
    {[seen |-> seen, result |-> ResultOf(seen, na)] :
        seen \in [Evidence -> Assessments \cup {"none"}], na \in BOOLEAN}

AnyReading ==
    [split : {"SPLIT", "AMBIGUOUS"}, ambiguities : SUBSET Fields, missing : BOOLEAN,
     unclear : SUBSET {"UNCERTAIN_VACANCY_MAPPING", "POSSIBLE_WRONG_POST_OWNERSHIP"}]

ASSUME InputsAssumption ==
    /\ Found \in [Fields -> SUBSET AnyFinding]
    /\ PostReadings \subseteq AnyReading

NoScores ==
    /\ linked = [f \in Fields |-> {}]
    /\ fieldScore = [f \in Fields |-> NoRow]
    /\ runScore = [v \in {"V1", "V2"} |-> NoRow]
    /\ routing = NoRow

ScoringInit ==
    /\ finding \in {x \in [Fields -> UNION {Found[f] : f \in Fields}] :
                       \A f \in Fields : x[f] \in Found[f]}
    /\ Finalized # {}
    /\ posts \in PostReadings
    /\ NoScores

----------------------------------------------------------------------------
(* The requests.                                                           *)

Anew(f) == FieldRow(f, finding[f], linked[f])
Matching(f) == fieldScore[f] \in {NoRow, Anew(f)}

\* score_field.
ScoreField(f) ==
    /\ f \in Finalized /\ fieldScore[f] = NoRow
    /\ fieldScore' = [fieldScore EXCEPT ![f] = Anew(f)]
    /\ UNCHANGED <<finding, posts, linked, runScore, routing>>

\* Mutant: the fields that were scored before are taken as they are.
ScoreRunUnchecked ==
    /\ runScore["V1"] = NoRow
    /\ fieldScore' = [f \in Fields |->
          IF f \in Finalized /\ fieldScore[f] = NoRow THEN Anew(f) ELSE fieldScore[f]]
    /\ runScore' = [runScore EXCEPT !["V1"] = RunRowV1([f \in Finalized |-> Anew(f)])]
    /\ UNCHANGED <<finding, posts, linked, routing>>

\* score_run: the fields that were scored before must match.
ScoreRun ==
    /\ runScore["V1"] = NoRow /\ \A f \in Finalized : Matching(f)
    /\ fieldScore' = [f \in Fields |-> IF f \in Finalized THEN Anew(f) ELSE NoRow]
    /\ runScore' = [runScore EXCEPT !["V1"] = RunRowV1([f \in Finalized |-> Anew(f)])]
    /\ UNCHANGED <<finding, posts, linked, routing>>

ScoreRunV2 ==
    /\ runScore["V2"] = NoRow
    /\ runScore' = [runScore EXCEPT !["V2"] = ResultV2]
    /\ UNCHANGED <<finding, posts, linked, fieldScore, routing>>

\* assess validates the V2 assessment first.
Assess ==
    /\ runScore["V2"] = ResultV2 /\ routing = NoRow
    /\ routing' = Route
    /\ UNCHANGED <<finding, posts, linked, fieldScore, runScore>>

\* link_evidence.
LinkEvidence(x) ==
    /\ x[2] \notin linked[x[1]]
    /\ linked' = [linked EXCEPT ![x[1]] = @ \cup {x[2]}]
    /\ UNCHANGED <<finding, posts, scores>>

\* A request that found the field open commits after it was finalized.
AddLate(x) ==
    LET f == x[1] e == x[2] IN
    /\ f \in Finalized /\ finding[f].seen[e] = "none"
    /\ finding' = [finding EXCEPT ![f].seen[e] = x[3]]
    /\ UNCHANGED <<posts, linked, scores>>

ScoringNext ==
    \/ \E f \in Fields : ScoreField(f)
    \/ ScoreRun \/ ScoreRunV2 \/ Assess
    \/ \E x \in Links : LinkEvidence(x)
    \/ \E x \in Late : AddLate(x)

ScoringSpec == ScoringInit /\ [][ScoringNext]_scoringVars

----------------------------------------------------------------------------
Scored(rows) == {f \in Fields : rows[f] # NoRow}

\* The result of a stored row was made from some of the assessments.
Justified(x) ==
    \E S \in SUBSET Evidence :
        Follows(x.result, [e \in Evidence |-> IF e \in S THEN x.seen[e] ELSE "none"])

\* An applicable value that was confirmed by an authoritative source.
Sure(x) == x.result[1] \in {"NOT_APPLICABLE", "CONFIRMED"} /\ Justified(x)

\* What is published without a review was verified as a whole, each value
\* that applies confirmed by an authoritative source.  The policies agree:
\* where V1 asks for no review, V2 asks for one only because of how the
\* Posts were read.  A confirmed value scores above every other one, if the
\* result of that one follows from the assessments it was scored with: enough
\* support that was added late lifts a value of secondary sources to 57, while
\* a confirmed value that is contradicted enough has 56.
ReviewSound ==
    LET direct == runScore["V1"] # NoRow /\ runScore["V1"].reasons = {} IN
    /\ direct => ~Partial /\ \A f \in Fields : Sure(runScore["V1"].fields[f].finding)
    /\ \A f, g \in Scored(fieldScore) :
          LET x == fieldScore[f] y == fieldScore[g] IN
          /\ x.score \in -1..100
          /\ x.finding.result[1] = "CONFIRMED" /\ y.finding.result[1] # "CONFIRMED"
             /\ Follows(y.finding.result, y.finding.seen)
                => x.score > y.score
    /\ routing # NoRow =>
          /\ routing.priority = "NONE" <=> routing.reasons = {}
          /\ routing.reasons = {} =>
                /\ ~Partial /\ posts.split # "AMBIGUOUS" /\ ~posts.missing /\ posts.ambiguities = {}
                /\ \A f \in Fields : LET x == routing.confidence.fields[f].finding IN
                      /\ x.result[1] # "CONFLICT" /\ Justified(x)
                      /\ f \in Critical => Sure(x)
          /\ direct => routing.reasons \subseteq
                {"AMBIGUOUS_POST_SPLIT", "AMBIGUOUS_POST_DETAILS", "UNCERTAIN_VACANCY_MAPPING",
                 "POSSIBLE_WRONG_POST_OWNERSHIP", "MISSING_PUBLIC_REQUIRED_FIELDS"}
          /\ routing.priority = "CRITICAL" <=>
                \E f \in Critical \cap Finalized :
                    finding[f].result[2] = "AUTHORITATIVE_CONFLICT"

\* A stored assessment is what its own inputs say, these were once the
\* inputs, and an assessment of the run is made of those of its fields: what
\* was added since is all that asking again can fail on.
ScoresTraceable ==
    LET earlier(x, y) ==
            /\ x.result = y.result
            /\ \A e \in Evidence : x.seen[e] \in {"none", y.seen[e]}
    IN
    /\ \A f \in Scored(fieldScore) :
          /\ fieldScore[f] = FieldRow(f, fieldScore[f].finding, fieldScore[f].evidence)
          /\ fieldScore[f].evidence \subseteq linked[f]
          /\ earlier(fieldScore[f].finding, finding[f])
    /\ runScore["V1"] # NoRow =>
          /\ runScore["V1"] = RunRowV1([f \in Finalized |-> fieldScore[f]])
    /\ runScore["V2"] # NoRow =>
          /\ runScore["V2"] = RunRowV2([f \in Finalized |->
                                FieldRowV2(f, runScore["V2"].fields[f].finding, posts)], posts)
          /\ \A f \in Finalized : earlier(runScore["V2"].fields[f].finding, finding[f])
    /\ routing # NoRow => routing.confidence = runScore["V2"]

\* confidence.py, review_routing.py: what is published without a review was
\* verified as a whole, and every stored score can be made again.
ScoringSound == ReviewSound /\ ScoresTraceable
=============================================================================
