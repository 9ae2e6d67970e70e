---------------------------- MODULE Eligibility ----------------------------
(***************************************************************************)
(* EligibilityService: what the approved facts of a Post say to an         *)
(* applicant.  An applicant tells one thing after another and asks each    *)
(* time; nothing is stored.  An answer is computed from the rules of the   *)
(* Post, a value of which may be missing or not structured, and from what  *)
(* was told.                                                               *)
(***************************************************************************)
EXTENDS Integers

CONSTANTS
    Rules,          \* rules of Posts
    Applicants,     \* people who ask
    NotStated,      \* stands for a rule that is not there
    Text            \* stands for one that is only text

VARIABLES rule, applicant, told

eligibilityVars == <<rule, applicant, told>>

Structured(v) == v \notin {NotStated, Text}

Categories == {"GENERAL", "SC", "OBC_MOBC"}
Relaxed == Categories \ {"GENERAL"}
Inputs == {"birth", "category", "qualification", "domicile", "experience"}
EligibilityStatus == {"ELIGIBLE", "NOT_ELIGIBLE", "UNKNOWN", "REVIEW_REQUIRED"}

\* minimum, maximum and cutoff of the age; the relaxations that have a field
\* of their own and those of the mapping; the minimum of experience in months
\* and in years, and whether there is one that is only text; whether the
\* texts of qualification and domicile are comparable (1).
Value == Int \cup {NotStated, Text}
Rule == [minimum : Value, maximum : Value, cutoff : {NotStated, Text, 1},
         direct : [Relaxed -> Value], mapped : [Relaxed -> Value],
         months : Value, years : Value, other : {NotStated, Text},
         qualification : {NotStated, Text, 1}, domicile : {NotStated, Text, 1}]

\* age is what it is on the cutoff day.
Applicant == [age : Int, category : Categories, matches : BOOLEAN,
              resident : BOOLEAN, experience : Nat]

ASSUME EligibilityAssumption ==
    /\ NotStated # Text /\ NotStated \notin Int /\ Text \notin Int
    /\ Rules \subseteq Rule /\ Applicants \subseteq Applicant

EligibilityInit == rule \in Rules /\ applicant \in Applicants /\ told = {}

\* The applicant asks again with one more input.
Tell(i) ==
    /\ i \notin told
    /\ told' = told \cup {i}
    /\ UNCHANGED <<rule, applicant>>

EligibilityNext == \E i \in Inputs : Tell(i)

EligibilitySpec == EligibilityInit /\ [][EligibilityNext]_eligibilityVars

----------------------------------------------------------------------------
(* The four criteria.                                                      *)

\* _relaxation: the field of the category, or its value in the mapping.
Relaxation(r, c) ==
    IF Structured(r.direct[c]) THEN r.direct[c]
    ELSE IF Structured(r.mapped[c]) /\ r.mapped[c] >= 0 THEN r.mapped[c] ELSE NotStated

\* Mutant: the missing relaxation of a category is none.
TooOldUnrelaxed(r, a, known) ==
    IF "category" \notin known \/ a.category = "GENERAL" THEN "NOT_ELIGIBLE"
    ELSE LET relaxation == Relaxation(r, a.category)
         IN  IF a.age > r.maximum + (IF relaxation = NotStated THEN 0 ELSE relaxation)
             THEN "NOT_ELIGIBLE" ELSE "ELIGIBLE"

\* Who is above the maximum: without a category there is no relaxation.
TooOld(r, a, known) ==
    IF "category" \notin known \/ a.category = "GENERAL" THEN "NOT_ELIGIBLE"
    ELSE IF Relaxation(r, a.category) = NotStated THEN "REVIEW_REQUIRED"
    ELSE IF a.age > r.maximum + Relaxation(r, a.category) THEN "NOT_ELIGIBLE" ELSE "ELIGIBLE"

Age(r, a, known) ==
    CASE r.minimum = NotStated /\ r.maximum = NotStated -> "UNKNOWN"
      [] OTHER ->
            IF "birth" \notin known THEN "UNKNOWN"
            ELSE IF ~Structured(r.cutoff) \/ Text \in {r.minimum, r.maximum} THEN "REVIEW_REQUIRED"
            ELSE IF r.minimum # NotStated /\ a.age < r.minimum THEN "NOT_ELIGIBLE"
            ELSE IF r.maximum # NotStated /\ a.age > r.maximum THEN TooOld(r, a, known)
            ELSE "ELIGIBLE"

Qualification(r, a, known) ==
    CASE r.qualification = NotStated \/ "qualification" \notin known -> "UNKNOWN"
      [] OTHER -> IF r.qualification = 1 /\ a.matches THEN "ELIGIBLE" ELSE "REVIEW_REQUIRED"

Domicile(r, a, known) ==
    CASE r.domicile = NotStated -> "UNKNOWN"
      [] r.domicile = Text -> "REVIEW_REQUIRED"
      [] OTHER -> IF "domicile" \notin known THEN "UNKNOWN"
                  ELSE IF a.resident THEN "ELIGIBLE" ELSE "NOT_ELIGIBLE"

\* Years count where the months are missing or not structured.
Required(r) ==
    IF Structured(r.months) THEN r.months
    ELSE IF Structured(r.years) THEN 12 * r.years ELSE NotStated

Experience(r, a, known) ==
    CASE {r.months, r.years, r.other} = {NotStated} -> "UNKNOWN"
      [] OTHER -> IF Required(r) = NotStated THEN "REVIEW_REQUIRED"
                  ELSE IF "experience" \notin known THEN "UNKNOWN"
                  ELSE IF a.experience >= Required(r) THEN "ELIGIBLE" ELSE "NOT_ELIGIBLE"

Criteria(r, a, known) ==
    [age |-> Age(r, a, known), qualification |-> Qualification(r, a, known),
     domicile |-> Domicile(r, a, known), experience |-> Experience(r, a, known)]

\* evaluate: the first of these that some criterion has.
Overall(criteria) ==
    LET some(v) == \E c \in DOMAIN criteria : criteria[c] = v IN
    CASE some("NOT_ELIGIBLE") -> "NOT_ELIGIBLE"
      [] ~some("NOT_ELIGIBLE") /\ some("REVIEW_REQUIRED") -> "REVIEW_REQUIRED"
      [] OTHER -> IF some("UNKNOWN") THEN "UNKNOWN" ELSE "ELIGIBLE"

Answer == Overall(Criteria(rule, applicant, told))

----------------------------------------------------------------------------
(* What an answer means.                                                   *)

\* The applicant may be as old as this, where it can be told.
Oldest == IF applicant.category = "GENERAL" \/ "category" \notin told THEN rule.maximum
          ELSE rule.maximum + Relaxation(rule, applicant.category)

OldEnough == ~Structured(rule.minimum) \/ applicant.age >= rule.minimum

\* eligibility.py: eligible are those of whom every rule is known and met, from
\* what they told; not eligible those of whom one is known and not met, where
\* a category that was not told relaxes nothing.  More input is asked for only
\* where a rule or an input is not there.  An input turns no other answer
\* around, save the category, which the code does not wait for
\* (MissingInputsOpen says what the documents ask of it).
AnswersSound ==
    LET relaxed(c) == rule.maximum + Relaxation(rule, c)
        mayRelax == "category" \in told /\ applicant.category \in Relaxed
        criteria == Criteria(rule, applicant, told)
    IN
    /\ Answer = "ELIGIBLE" =>
          /\ Inputs \ {"category"} \subseteq told
          /\ {rule.minimum, rule.maximum} # {NotStated} /\ OldEnough
          /\ rule.maximum = NotStated \/ applicant.age <= rule.maximum
             \/ (mayRelax /\ Relaxation(rule, applicant.category) # NotStated
                 /\ applicant.age <= relaxed(applicant.category))
          /\ applicant.matches /\ applicant.resident
          /\ \/ Structured(rule.months) /\ applicant.experience >= rule.months
             \/ /\ ~Structured(rule.months) /\ Structured(rule.years)
                /\ applicant.experience >= 12 * rule.years
    /\ Answer = "NOT_ELIGIBLE" =>
          \/ "birth" \in told /\ ~OldEnough
          \/ /\ "birth" \in told /\ Structured(rule.maximum)
             /\ mayRelax => Relaxation(rule, applicant.category) # NotStated
             /\ applicant.age > Oldest
          \/ "domicile" \in told /\ ~applicant.resident
          \/ /\ "experience" \in told /\ Required(rule) # NotStated
             /\ applicant.experience < Required(rule)
    /\ Answer = "UNKNOWN" =>
          \/ ~(Inputs \ {"category"} \subseteq told)
          \/ {rule.minimum, rule.maximum} = {NotStated}
          \/ NotStated \in {rule.qualification, rule.domicile}
          \/ {rule.months, rule.years, rule.other} = {NotStated}
    /\ \A i \in Inputs \ told :
          LET more == Criteria(rule, applicant, told \cup {i}) IN
          /\ \A c \in DOMAIN criteria : more[c] # criteria[c] =>
                \/ criteria[c] = "UNKNOWN"
                \/ i = "category" /\ c = "age" /\ criteria[c] = "NOT_ELIGIBLE"
                   /\ applicant.category \in Relaxed
          /\ i # "category" /\ Overall(more) = "UNKNOWN" => Answer = "UNKNOWN"

\* docs/architecture.md:1001-1003: a missing input returns UNKNOWN and a
\* relaxation that may apply REVIEW_REQUIRED, so who is refused is not answered
\* otherwise after telling what was missing.
MissingInputsOpen ==
    Answer = "NOT_ELIGIBLE" =>
        \A i \in Inputs \ told :
            Overall(Criteria(rule, applicant, told \cup {i})) = "NOT_ELIGIBLE"
=============================================================================
