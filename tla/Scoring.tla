------------------------------- MODULE Scoring -------------------------------
(***************************************************************************)
(* What an attempt is worth: the judge of raw reports                      *)
(* (services/coding/execution.py), the scoring of its questions            *)
(* (services/evaluation.py), the marks the administrators' analytics show  *)
(* (services/coding/analytics.py) and the progress the candidate's page    *)
(* shows (services/coding/drafts.py), of one attempt with one coding and   *)
(* one objective question at most.  Each of the three computes the best    *)
(* submission on its own, from the rows, whenever it is asked.             *)
(*                                                                         *)
(* CodeJobs and ExamAttempt have when a submission is judged and when the  *)
(* result is stored.                                                       *)
(***************************************************************************)
EXTENDS Naturals, FiniteSetsExt, SequencesExt

CONSTANTS
    NumTests,         \* test cases of the problem, in the order of their position
    Weights,          \* weights of test cases that are tried
    Marks,            \* marks of questions that are tried
    Options,          \* options of the objective question
    MaxJudged         \* bound: submissions

Tests == 1..NumTests

VARIABLES
    paper,            \* marks of the questions there are, and how they are scored
    judged,           \* judged submissions, oldest first: report and judgement
    queued,           \* a submission waits for the runner
    typed,            \* the draft is not blank
    selection         \* stored selection of the objective question

scoreVars == <<paper, judged, queued, typed, selection>>

QuestionKinds == {"CODING", "OBJECTIVE"}

\* What a runner says of one test: output that is, once normalized, as expected or not, an outcome
\* of its own, or nothing.
TestReports == {"as expected", "different", "RUNTIME_ERROR", "nothing"}

Reports ==
    [compiled : {TRUE}, tests : [Tests -> TestReports]]
        \cup {[compiled |-> FALSE, tests |-> [t \in Tests |-> "nothing"]]}

-----------------------------------------------------------------------------
(***************************************************************************)
(* Judging.                                                                *)
(***************************************************************************)

VerdictOf(said) ==
    CASE said = "as expected"   -> "ACCEPTED"
      [] said = "different"     -> "WRONG_ANSWER"
      [] said = "nothing"       -> "SYSTEM_ERROR"
      [] OTHER                  -> said

WeightOf(S) == MapThenSumSet(LAMBDA t : paper.weight[t], S)

\* judge: the first failure in the order of the tests is the verdict.
Judge(report) ==
    LET verdict(t) == VerdictOf(report.tests[t])
        passed     == {t \in Tests : report.compiled /\ verdict(t) = "ACCEPTED"}
        failed     == Tests \ passed
    IN  [verdict |-> IF ~report.compiled THEN "COMPILATION_ERROR"
                     ELSE IF failed = {} THEN "ACCEPTED"
                     ELSE verdict(Min(failed)),
         passed  |-> Cardinality(passed),
         passedWeight |-> WeightOf(passed),
         totalWeight  |-> WeightOf(Tests)]

-----------------------------------------------------------------------------
(***************************************************************************)
(* Scoring.                                                                *)
(***************************************************************************)

\* coding_marks, rounded down.
CodingMarks(j) ==
    IF j.verdict = "ACCEPTED" THEN paper.marks["CODING"]
    ELSE IF paper.partial /\ j.totalWeight > 0
         THEN (paper.marks["CODING"] * j.passedWeight) \div j.totalWeight
    ELSE 0

\* A mutant: the last submission counts.
LatestOf(js) == Len(js)

\* max over the submissions, oldest first: of equals the first.
BestOf(js) ==
    CHOOSE i \in DOMAIN js : \A k \in DOMAIN js :
        \/ CodingMarks(js[k].judgement) < CodingMarks(js[i].judgement)
        \/ CodingMarks(js[k].judgement) = CodingMarks(js[i].judgement) /\ i <= k

\* score_coding
ScoreCoding ==
    IF judged = <<>> THEN [awarded |-> 0, outcome |-> "UNANSWERED"]
    ELSE LET awarded == CodingMarks(judged[BestOf(judged)].judgement)
         IN  [awarded |-> awarded,
              outcome |-> IF awarded = paper.marks["CODING"] THEN "CORRECT"
                          ELSE IF awarded > 0 THEN "PARTIAL" ELSE "INCORRECT"]

\* score_question: all of the correct options and nothing else.
ScoreQuestion ==
    IF selection = {} THEN [awarded |-> 0, outcome |-> "UNANSWERED"]
    ELSE IF paper.correct # {} /\ selection = paper.correct
         THEN [awarded |-> paper.marks["OBJECTIVE"], outcome |-> "CORRECT"]
    ELSE [awarded |-> 0, outcome |-> "INCORRECT"]

\* score_attempt, driven by the questions there are.
Outcomes == [q \in DOMAIN paper.marks |-> IF q = "CODING" THEN ScoreCoding ELSE ScoreQuestion]

ScoreAttempt ==
    LET o == Outcomes
        count(result) == Cardinality({q \in DOMAIN o : o[q].outcome = result})
    IN  [score     |-> MapThenSumSet(LAMBDA q : o[q].awarded, DOMAIN o),
         maximum   |-> MapThenSumSet(LAMBDA q : paper.marks[q], DOMAIN o),
         correct   |-> count("CORRECT"),
         incorrect |-> count("INCORRECT"),
         unanswered |-> count("UNANSWERED"),
         partial   |-> count("PARTIAL")]

\* percentage_of, in hundredths of a percent, half a hundredth up.
PercentageOf(score, maximum) ==
    IF maximum = 0 THEN 0 ELSE (20000 * score + maximum) \div (2 * maximum)

-----------------------------------------------------------------------------
(***************************************************************************)
(* What the others compute.                                                *)
(***************************************************************************)

\* _best of the analytics reads the rows in no order: any submission with the most marks.
BestInAnalytics ==
    {i \in DOMAIN judged : \A k \in DOMAIN judged :
        CodingMarks(judged[k].judgement) <= CodingMarks(judged[i].judgement)}

\* progress of the candidate's page, by verdict and tests passed.
BestInProgress ==
    LET accepted(i) == judged[i].judgement.verdict = "ACCEPTED"
        atMost(k, i) == \/ accepted(i) /\ ~accepted(k)
                        \/ /\ accepted(i) = accepted(k)
                           /\ judged[k].judgement.passed <= judged[i].judgement.passed
    IN  {i \in DOMAIN judged : \A k \in DOMAIN judged : atMost(k, i)}

Progress ==
    IF queued THEN "PENDING"
    ELSE IF \E i \in BestInProgress : judged[i].judgement.verdict = "ACCEPTED" THEN "PASSED"
    ELSE IF judged # <<>> THEN "NOT_PASSED"
    ELSE IF typed THEN "IN_PROGRESS"
    ELSE "NOT_STARTED"

-----------------------------------------------------------------------------
Papers ==
    {p \in [marks : UNION {[Q -> Marks] : Q \in (SUBSET QuestionKinds) \ {{}}},
            partial : BOOLEAN, weight : [Tests -> Weights], correct : SUBSET Options] :
        "OBJECTIVE" \notin DOMAIN p.marks => p.correct = {}}

ScoreInit ==
    /\ paper \in Papers
    /\ judged = <<>>
    /\ queued = FALSE
    /\ typed = FALSE
    /\ selection = {}

TypeCode ==
    /\ "CODING" \in DOMAIN paper.marks /\ ~typed
    /\ typed' = TRUE
    /\ UNCHANGED <<paper, judged, queued, selection>>

SubmitCode ==
    /\ "CODING" \in DOMAIN paper.marks /\ ~queued /\ Len(judged) < MaxJudged
    /\ queued' = TRUE
    /\ UNCHANGED <<paper, judged, typed, selection>>

\* complete: the report of the runner is judged.
CompleteCode ==
    /\ queued
    /\ \E report \in Reports :
           judged' = Append(judged, [report |-> report, judgement |-> Judge(report)])
    /\ queued' = FALSE
    /\ UNCHANGED <<paper, typed, selection>>

\* _finish_failed: the row is FAILED and no judged submission.
FailCode ==
    /\ queued
    /\ queued' = FALSE
    /\ UNCHANGED <<paper, judged, typed, selection>>

SelectOptions ==
    /\ "OBJECTIVE" \in DOMAIN paper.marks
    /\ \E S \in SUBSET Options : selection' = S
    /\ UNCHANGED <<paper, judged, queued, typed>>

\* Progress, report and analytics are computed and nothing is stored.
ReadViews == UNCHANGED scoreVars

ScoreNext == TypeCode \/ SubmitCode \/ CompleteCode \/ FailCode \/ SelectOptions \/ ReadViews

-----------------------------------------------------------------------------
(***************************************************************************)
(* The reference: what a report deserves, without judge and without a      *)
(* best submission.                                                        *)
(***************************************************************************)

PassedTests(r) == {t \in Tests : r.compiled /\ r.tests[t] = "as expected"}

\* m marks are deserved when the share of the weight that was passed is at least m of them all.
Deserves(r, m) ==
    IF paper.partial
    THEN m * WeightOf(Tests) <= paper.marks["CODING"] * WeightOf(PassedTests(r))
    ELSE m = 0 \/ PassedTests(r) = Tests

\* The marks of the coding question are the most that any judged report deserves, whole when all
\* tests passed and never more than the share of weight; the analytics give the same marks; the
\* candidate's page says PASSED exactly for full marks; the counts account for every question, and
\* 100.00 % is shown exactly when every one of them is correct (evaluation.py: score_attempt,
\* analytics.py: _best, drafts.py: progress).
ScoredByDefinition ==
    /\ "CODING" \in DOMAIN paper.marks =>
        LET full == paper.marks["CODING"]
        IN  /\ ScoreCoding.awarded =
                   Max({m \in 0..full : m = 0 \/ \E i \in DOMAIN judged : Deserves(judged[i].report, m)})
            /\ \A i \in BestInAnalytics : CodingMarks(judged[i].judgement) = ScoreCoding.awarded
            /\ ~queued => (Progress = "PASSED" <=> ScoreCoding.outcome = "CORRECT")
            /\ Progress \in {"NOT_STARTED", "IN_PROGRESS"} => ScoreCoding.outcome = "UNANSWERED"
    /\ LET s == ScoreAttempt
       IN  /\ s.correct + s.incorrect + s.unanswered + s.partial = Cardinality(DOMAIN paper.marks)
           /\ s.score <= s.maximum
           /\ PercentageOf(s.score, s.maximum) = 10000 <=> s.correct = Cardinality(DOMAIN paper.marks)

\* What a coding question is worth never falls: another submission, judged or failed, costs the
\* candidate nothing (score_coding takes the best one).
ScoreNeverFalls ==
    [][ScoreCoding.awarded' >= ScoreCoding.awarded]_scoreVars

\* The submission whose tests the candidate's page counts is the one the marks come from.  Not so:
\* the page counts tests, the marks their weights.
OneBest ==
    \A i \in BestInProgress : CodingMarks(judged[i].judgement) = ScoreCoding.awarded
=============================================================================
