------------------------------ MODULE InterviewReview ------------------------------
(***************************************************************************)
(* The human review of an interview (InterviewReviewService) on top of the *)
(* running interview: administrators look at its report, start the review, *)
(* mark answers, decide and revise, while the candidate still answers and  *)
(* evaluations still arrive.                                               *)
(*                                                                         *)
(* Deciding locks the session and then the review, so each is one step;    *)
(* between an administrator's look at the report and the decision sent     *)
(* from it, everything else may happen.                                    *)
(***************************************************************************)
EXTENDS InterviewSession, FiniteSetsExt

CONSTANTS
    Admins,
    Outcomes,       \* what an administrator may decide
    Marks,          \* AGREE, DISAGREE
    MaxDecisions    \* bound: decisions of the review

VARIABLES
    review,     \* the interview_reviews row
    decisions,  \* its decisions, by revision
    marks,      \* marks[i]: the newest mark on the evaluation of items[i]
    page        \* page[a]: the report administrator a is looking at

reviewVars == <<review, decisions, marks, page>>
allVars == <<vars, reviewVars>>

-----------------------------------------------------------------------------
EvaluationStates == {"NONE", "PENDING", "PARTIAL", "COMPLETE"}

\* The figures of a report that a decision keeps.
Basis ==
    [score     : 0..100 \cup {None},    \* ai_score
     partial   : BOOLEAN,
     state     : EvaluationStates,
     evaluated : Nat,                   \* evaluated, answered and planned primaries
     answered  : Nat,
     planned   : Nat]

Review ==
    [status : {"IN_REVIEW", "REVIEWED"}, outcome : Outcomes \cup {None}, version : Nat \ {0}]

ASSUME ReviewAssumption == None \notin Review \cup Outcomes \cup Marks /\ MaxDecisions \in Nat

\* A decision, with the version and the figures its author had seen.
Decision == [outcome : Outcomes, basis : Basis, version : Nat, seen : Basis]

Page == [version : Nat, basis : Basis]

NoMarks == [i \in 1..MaxItems |-> None]

ReviewInit ==
    /\ Init
    /\ review = None
    /\ decisions = <<>>
    /\ marks = NoMarks
    /\ page = [a \in Admins |-> None]

-----------------------------------------------------------------------------
\* mean_half_up of a function's values
MeanHalfUp(S, score) ==
    IF S = {} THEN None
    ELSE (2 * MapThenSumSet(LAMBDA i : score[i], S) + Cardinality(S)) \div (2 * Cardinality(S))

\* evaluation_state over the answered items
EvaluationState(evs) ==
    LET done == {i \in DOMAIN evs : evs[i].status = "COMPLETED"}
    IN CASE \E i \in DOMAIN evs : evs[i].status = "PENDING" -> "PENDING"
         [] done = {}                                       -> "NONE"
         [] OTHER -> IF done = DOMAIN evs THEN "COMPLETE" ELSE "PARTIAL"

\* summarize: follow-ups are evaluated but not averaged.
Summary(its, evs) ==
    LET answered  == {i \in DOMAIN evs : its[i].kind = "PRIMARY"}
        evaluated == {i \in answered : evs[i].status = "COMPLETED"}
        planned   == IF QuestionCount <= Cardinality(Plan) THEN QuestionCount ELSE Cardinality(Plan)
    IN [score     |-> MeanHalfUp(evaluated, [i \in evaluated |-> evs[i].signal.score]),
        partial   |-> Cardinality(evaluated) < Cardinality(answered),
        state     |-> EvaluationState(evs),
        evaluated |-> Cardinality(evaluated),
        answered  |-> Cardinality(answered),
        planned   |-> IF Cardinality(answered) > planned THEN Cardinality(answered) ELSE planned]

Report == Summary(items, evals)

-----------------------------------------------------------------------------
\* build: the report with the state of its review (version 0: not started).
Look(a) ==
    /\ sess # None
    /\ page' = [page EXCEPT ![a] =
                  [version |-> IF review = None THEN 0 ELSE review.version, basis |-> Report]]
    /\ UNCHANGED <<vars, review, decisions, marks>>

\* start: of two at once, the second finds the first one's review.
StartReview(a) ==
    /\ sess # None
    /\ review = None
    /\ review' = [status |-> "IN_REVIEW", outcome |-> None, version |-> 1]
    /\ UNCHANGED <<vars, decisions, marks, page>>

\* mark: only beside a completed evaluation.
Mark(a, i, m) ==
    /\ review # None
    /\ review.status = "IN_REVIEW"
    /\ i \in DOMAIN evals
    /\ evals[i].status = "COMPLETED"
    /\ marks[i] # m
    /\ marks' = [marks EXCEPT ![i] = m]
    /\ UNCHANGED <<vars, review, decisions, page>>

\* Mutant of Decidable: evaluations may still be running.
DecidableEarly(s) == s.status = "COMPLETED"

\* The interview has ended and every answer's evaluation has finished.
Decidable(s) == s.status = "COMPLETED" /\ \A i \in DOMAIN evals : evals[i].status # "PENDING"

\* Mutant of Expected: the version the page was made from is not compared.
ExpectedAny(a, status) == review # None /\ review.status = status /\ page[a] # None

\* _expect: the review's status, and the version the administrator has seen.
Expected(a, status) ==
    /\ review # None
    /\ review.status = status
    /\ page[a] # None
    /\ page[a].version = review.version

\* _decide, and the review with its new outcome.
Decide(a, o) ==
    /\ Len(decisions) < MaxDecisions
    /\ decisions' = Append(decisions, [outcome |-> o, basis |-> Report,
                                       version |-> page[a].version, seen |-> page[a].basis])
    /\ review' = [status |-> "REVIEWED", outcome |-> o, version |-> review.version + 1]

\* complete: settles the session first, which stays when the rest is refused.
CompleteReview(a, o) ==
    /\ sess # None
    /\ page[a] # None
    /\ LET s == Settle(sess, expired)
       IN /\ sess' = s
          /\ IF Expected(a, "IN_REVIEW") /\ Decidable(s) THEN Decide(a, o)
             ELSE UNCHANGED <<review, decisions>>
    /\ UNCHANGED <<assigned, items, evals, expired, waited, queue, win, run, faults, marks, page>>

\* revise: a different outcome.
Revise(a, o) ==
    /\ sess # None
    /\ Expected(a, "REVIEWED")
    /\ o # review.outcome
    /\ Decide(a, o)
    /\ UNCHANGED <<vars, marks, page>>

ReviewNext ==
    \E a \in Admins :
        \/ Look(a) \/ StartReview(a)
        \/ \E i \in 1..MaxItems, m \in Marks : Mark(a, i, m)
        \/ \E o \in Outcomes : CompleteReview(a, o) \/ Revise(a, o)

\* A step of the interview; unassigning deletes the review with the session.
InterviewStep ==
    /\ Next
    /\ IF sess # None /\ sess' = None
       THEN review' = None /\ decisions' = <<>> /\ marks' = NoMarks
       ELSE UNCHANGED <<review, decisions, marks>>
    /\ UNCHANGED page

ReviewSpec == ReviewInit /\ [][InterviewStep \/ ReviewNext]_allVars

-----------------------------------------------------------------------------
ReviewTypeOK ==
    /\ TypeOK
    /\ review \in Review \cup {None}
    /\ decisions \in Seq(Decision) /\ Len(decisions) <= MaxDecisions
    /\ marks \in [1..MaxItems -> Marks \cup {None}]
    /\ page \in [Admins -> Page \cup {None}]

\* What a review says stays true of the interview, whatever runs were still under way: the
\* figures a decision was recorded with are the session's for ever, no answer or evaluation
\* arriving after it, and a mark stands beside a score.
BasisStands ==
    /\ \A n \in DOMAIN decisions : decisions[n].basis = Report /\ sess.status = "COMPLETED"
    /\ \A i \in 1..MaxItems : marks[i] # None => i \in DOMAIN evals /\ evals[i].status = "COMPLETED"

\* Nobody decides over a decision they have not seen: the author of each one had the outcome
\* of the one before on the page, and the review shows the last.
DecisionsSeen ==
    /\ \A n \in DOMAIN decisions : decisions[n].version = n
    /\ review # None /\ decisions # <<>> => review.outcome = decisions[Len(decisions)].outcome
    /\ \A n \in DOMAIN decisions \ {1} : decisions[n].outcome # decisions[n - 1].outcome

\* models/interview_review.py: a decision keeps "the AI report figures the reviewer saw".
BasisSeen == \A n \in DOMAIN decisions : decisions[n].basis = decisions[n].seen
=============================================================================
