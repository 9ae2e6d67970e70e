---------------------------- MODULE MCServices ----------------------------
(***************************************************************************)
(* Small instances of the services that share no state while they work,    *)
(* checked side by side: in each behaviour one part moves, the others keep *)
(* one initial state.  Cases and VerificationOf are ReviewCases and        *)
(* VerificationRuns with a single session, whose requests do not overlap;  *)
(* Publication is that of two of three candidate revisions.                *)
(***************************************************************************)
EXTENDS ConfidenceScoring, MCEligibility, Services, Publication, TLC

CONSTANTS s1, s2, e1, e2, e3, f1, f2, A, B, m, wk, z, r1, r2, r3

VARIABLES
    part,
    resting,    \* the revision that is not published
    rCase, rDecision, rLock, rPc, rPlan, rCur, rMine, rWrites, rVerdict,
    vRun, vFinding, vAssessed, vPc, vReq, vSaw, vRead

caseVars == <<rCase, rDecision, rLock, rPc, rPlan, rCur, rMine, rWrites, rVerdict>>
runVars == <<vRun, vFinding, vAssessed, vPc, vReq, vSaw, vRead>>

Cases == INSTANCE ReviewCases WITH
    Items <- {e1, e2, e3}, Posts <- {A, B}, RevisionItems <- {e3}, Shared <- "shared",
    PostOf <- (e1 :> A) @@ (e2 :> B) @@ (e3 :> "shared"),
    Sessions <- {z}, NoSession <- "nobody",
    case <- rCase, decision <- rDecision, lock <- rLock, pc <- rPc, plan <- rPlan,
    cur <- rCur, mine <- rMine, writes <- rWrites, verdict <- rVerdict

\* Of f1 every Evidence supports or contradicts it, one says anything; of f2 one thing.
Anything ==
    ({f1} \X Evidence \X Stances) \cup ({f1} \X {e1} \X Assessments)
        \cup {<<f2, e3, "SUPPORTS">>}

\* A worker finds a supporting and a conflicting Evidence of each field.
VerificationOf == INSTANCE VerificationRuns WITH
    ManualRuns <- {m}, WorkerRuns <- {wk}, Sessions <- {z},
    Asked <- Anything,
    Links <- (f1 :> {e1}) @@ (f2 :> {e3}),
    Interpretation <- [x \in Fields \X Evidence |->
                          IF x[2] = e2 THEN "CONTRADICTS" ELSE "SUPPORTS"],
    run <- vRun, finding <- vFinding, assessed <- vAssessed, pc <- vPc, req <- vReq,
    saw <- vSaw, read <- vRead

----------------------------------------------------------------------------
(* The inputs of the parts.                                                *)

\* Publication: a revision under each policy, verified in the order r1, r3, r2;
\* the second changes the Post.  The first or the third rests in each behaviour.
Policies == (r1 :> "V2") @@ (r2 :> "DIRECT") @@ (r3 :> "V1")
Verifications == (r1 :> 1) @@ (r2 :> 3) @@ (r3 :> 2)
Contents ==
    [x \in {r1, r2, r3} \X {A, "shared"} \X BOOLEAN |->
        IF x[3] THEN "corrected" ELSE IF x[1] = r2 /\ x[2] = A THEN "new" ELSE "old"]

\* Confidence: an official, a supporting and a secondary source.
Classified ==
    (e1 :> "AUTHORITATIVE_OFFICIAL") @@ (e2 :> "OFFICIAL_SUPPORTING")
        @@ (e3 :> "SECONDARY_DISCOVERY_ONLY")
Endpoint == [e \in Evidence |-> e]
Thresholds == [x \in {"standard", "critical", "revision"} |->
                  CASE x = "standard" -> 80 [] x = "critical" -> 90 [] OTHER -> 85]
LinkOnes == {<<f1, e2>>}
LateOnes == {<<f1, e1, "CONTRADICTS">>}
Whole == [split |-> "SPLIT", ambiguities |-> {}, missing |-> FALSE, unclear |-> {}]
FewReadings ==
    {Whole, [Whole EXCEPT !.split = "AMBIGUOUS"], [Whole EXCEPT !.missing = TRUE],
     [Whole EXCEPT !.ambiguities = {f2}, !.unclear = {"UNCERTAIN_VACANCY_MAPPING"}]}
\* f1 anything; of f2 what its official source says, but no mere context.
FoundFew ==
    [f \in Fields |->
        {x \in AnyFinding :
            IF f = f1 THEN x.result[1] # "NOT_APPLICABLE" \/ x.seen = Unassessed
            ELSE /\ x.seen[e2] = "none" /\ x.seen[e3] = "none"
                 /\ x.seen[e1] # "CONTEXT_ONLY"
                 /\ x.result[1] = "NOT_APPLICABLE" => x.seen = Unassessed}]

\* Listing: Master 1 with an unsplit job or with two Posts, Master 2 with one.
JobOf(id, isPost, complete, start, end) ==
    [id |-> id, post |-> isPost, complete |-> complete, start |-> start, end |-> end,
     vacancies |-> 1]
Windows ==
    {<<NoDate, 400>>, <<401, NoDate>>, <<380, 401>>, <<NoDate, 371>>, <<401, 400>>,
     <<1, 34>>, <<1, 35>>, <<NoDate, NoDate>>, <<400, 400>>, <<402, 410>>, <<1, 300>>,
     <<1, 370>>}
SomeRevisions ==
    [n \in Masters |->
        IF n = 1
        THEN {[path |-> "VERIFIED_NO_REVIEW", jobs |-> {JobOf(1, FALSE, c, x[1], x[2])}] :
                 c \in BOOLEAN, x \in {<<380, 401>>, <<1, 34>>}}
             \cup {[path |-> "HUMAN_REVIEW",
                    jobs |-> {JobOf(11, TRUE, FALSE, x[1], x[2]),
                              [JobOf(12, TRUE, TRUE, 380, 400) EXCEPT !.vacancies = v]}] :
                      x \in Windows, v \in {1}}
             \cup {[path |-> "VERIFIED_NO_REVIEW",
                    jobs |-> {[JobOf(13, TRUE, TRUE, 380, 400) EXCEPT !.vacancies = NoDate]}]}
        ELSE {[path |-> "VERIFIED_NO_REVIEW", jobs |-> {JobOf(21, TRUE, c, 380, 400)}] :
                 c \in BOOLEAN}]

\* Facts of Posts: tables of up to three rows, and statements that agree with a
\* table on the women, or do not.
Row(key, total, says, reads) == [key |-> key, total |-> total, says |-> says, reads |-> reads]
OfWomen == "women" :> 1
Plain ==
    {Row("k1", n, <<>>, "whole") : n \in 0..2}
    \cup {Row(k, 1, <<>>, "whole") : k \in {"k2", "k3"}}
    \cup {Row("k2", 1, <<>>, reads) : reads \in {"damaged", "unseen"}}
SomeTrades ==
    {<<Row("k1", 2, <<>>, "whole")>>, <<Row("k4", 1, OfWomen, "whole")>>,
     <<Row("k3", 1, <<>>, "whole"), Row("k4", 1, OfWomen, "whole")>>}
ManyTables ==
    {[kind |-> k, rows |-> list] : k \in {"piped", "narrative", "aligned", "numbered"},
                                  list \in UNION {[1..n -> Plain] : n \in 0..3}}
    \cup {[kind |-> "single", rows |-> <<Row("k1", 0, <<>>, reads)>>] :
             reads \in {"whole", "damaged", "unseen"}}
FewTables ==
    {[kind |-> "piped", rows |-> <<Row("k1", 1, OfWomen, "whole"), Row("k2", 2, <<>>, "whole")>>],
     [kind |-> "single", rows |-> <<Row("k1", 0, <<>>, "whole")>>]}
SomeTables == ManyTables \cup FewTables
SomeRows ==
    UNION {{list[i] : i \in DOMAIN list} : list \in {t.rows : t \in SomeTables} \cup SomeTrades}
SomeStatements == {"age" :> 1, "age" :> 2, ("age" :> 1) @@ ("women" :> 2), OfWomen}

----------------------------------------------------------------------------
(* One part moves.                                                         *)

Parts == {"cases", "runs", "publications", "scoring", "eligibility", "listing", "crawl",
          "tables", "posts", "gate"}

\* The parts whose input is chosen at first have one input when they rest.
ScoringAtRest ==
    /\ finding = [f \in Fields |-> CHOOSE x \in Found[f] : TRUE]
    /\ posts = CHOOSE x \in PostReadings : TRUE
    /\ linked = [f \in Fields |-> {}] /\ NoScores
\* What is amiss with the Posts is read with an f2 that its source supports.
ReadingOfVerified == posts = Whole \/ finding[f2].seen[e1] = "SUPPORTS"
EligibilityAtRest ==
    rule = Usual /\ applicant = Typical /\ told = Inputs
ReviewAtRest(r) == \A k \in Keys : review[r].verdict[k] = "pending"

ServicesInit ==
    /\ part \in Parts
    /\ Cases!Init /\ VerificationOf!Init /\ Init
    /\ ListingInit /\ PostFactsInit /\ GateInit
    /\ resting \in {r1, r3} /\ ReviewAtRest(resting)
    /\ part # "publications" => resting = r3 /\ \A r \in Revisions : ReviewAtRest(r)
    /\ IF part = "scoring" THEN ScoringInit /\ ReadingOfVerified ELSE ScoringAtRest
    /\ IF part = "eligibility" THEN EligibilityInit ELSE EligibilityAtRest
    /\ CrawlInit /\ (part # "crawl" => adapter = "archive" /\ listed = <<>>)

\* All that moves is the part p.
Only(p) ==
    /\ part = p /\ UNCHANGED <<part, resting>>
    /\ p # "cases" => UNCHANGED caseVars
    /\ p # "runs" => UNCHANGED runVars
    /\ p # "publications" => UNCHANGED vars
    /\ p # "scoring" => UNCHANGED scoringVars
    /\ p # "eligibility" => UNCHANGED eligibilityVars
    /\ p # "listing" => UNCHANGED listingVars
    /\ p # "crawl" => UNCHANGED crawlVars
    /\ p \notin {"tables", "posts"} => UNCHANGED postVars
    /\ p # "gate" => UNCHANGED bucket

ServicesNext ==
    \/ Only("cases") /\ Cases!Next
    \/ Only("runs") /\ VerificationOf!Next
    \/ /\ Only("publications") /\ Next
       /\ review'[resting] = review[resting] /\ \A s \in Sessions : req'[s].rev # resting
    \/ Only("scoring") /\ ScoringNext
    \/ Only("eligibility") /\ EligibilityNext
    \/ Only("listing") /\ ListingNext
    \/ Only("crawl") /\ CrawlNext
    \/ Only("tables") /\ split = "LEGACY_UNSPLIT" /\ PostFactsNext
    \/ Only("posts") /\ Len(read) < MaxStatements /\ PostFactsNext /\ vacancyTable' \in FewTables
    \/ Only("gate") /\ GateNext

servicesVars ==
    <<part, resting, caseVars, runVars, vars, scoringVars, eligibilityVars, listingVars, crawlVars,
      postVars, bucket>>

ServicesSpec == ServicesInit /\ [][ServicesNext]_servicesVars

----------------------------------------------------------------------------
\* docs/architecture.md:376-388 and 215-240: a single session at a time
\* keeps the documented contracts, the review lifecycle (ReviewLifecycle) and
\* that of verification runs (VerificationLifecycle).  These are the formulas
\* LifecycleSpec of both, asked only of the steps in which their part moves.
SerialContracts ==
    /\ Cases!Lifecycle!Init /\ VerificationOf!Contract!Init
    /\ [][part = "cases" => [Cases!Lifecycle!Next]_(Cases!Lifecycle!vars)]_servicesVars
    /\ [][part = "runs" =>
             [VerificationOf!Contract!Next]_(VerificationOf!Contract!contract)]_servicesVars
=============================================================================
