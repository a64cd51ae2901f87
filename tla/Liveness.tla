------------------------------ MODULE Liveness ------------------------------
(***************************************************************************)
(* What must eventually happen, in one place.  The server has no scheduler *)
(* and no worker: the code execution queue, an exam and an interview move  *)
(* on because somebody asks.  The parts share no state here and are put    *)
(* side by side: scene, chosen at the start, is the one that runs, and     *)
(* only its fairness counts.                                               *)
(***************************************************************************)
EXTENDS CodeJobs, Sequences

CONSTANTS Requests, Runners

VARIABLES
    scene,          \* the part that runs
    \* ExamAttempt
    now, att, session, events, row, sel, scored, rowLock, keyShare, creator, request, saves, crashes,
    \* InterviewSession
    assigned, sess, items, evals, expired, waited, queue, win, run, lost

\* One question of two options, and one crash.
Exam == INSTANCE ExamAttempt WITH
    Questions <- {1}, SingleAnswer <- {1}, Options <- {1, 2}, Key <- [q \in {1} |-> {1}],
    EventIds <- {}, Duration <- 1, TabSwitchLimit <- 1, MaxTime <- 1, MaxSaves <- 1,
    MaxCrashes <- 1, result <- scored, tx <- request

\* One question and its follow-up; the evaluator may stop anywhere without a fault of its own.
Interview == INSTANCE InterviewSession WITH
    Bank <- <<[suits |-> TRUE, level |-> 2, followUp |-> TRUE]>>, QuestionCount <- 1,
    FollowUpsEnabled <- TRUE, MaxFollowUps <- 1, Adaptive <- TRUE, MinLevel <- 1,
    StartLevel <- 2, MaxLevel <- 3, Configured <- TRUE,
    Signals <- {[score |-> 40, sure |-> TRUE, missing |-> FALSE]},
    MaxRuns <- 1, Windows <- {"client"}, MaxQueued <- 1, MaxFaults <- 0, faults <- lost

examVars == <<now, att, session, events, row, sel, scored, rowLock, keyShare, creator, request,
              saves, crashes>>
interviewVars == <<assigned, sess, items, evals, expired, waited, queue, win, run, lost>>
allVars == <<scene, vars, examVars, interviewVars>>

-----------------------------------------------------------------------------
AllInit == scene \in {"queue", "exam", "interview"} /\ Init /\ Exam!Init /\ Interview!Init

In(s) == scene = s /\ UNCHANGED scene

QueueStep     == In("queue") /\ Next /\ UNCHANGED <<examVars, interviewVars>>
ExamStep      == In("exam") /\ Exam!Next /\ UNCHANGED <<vars, interviewVars>>
InterviewStep == In("interview") /\ Interview!Next /\ UNCHANGED <<vars, examVars>>

AllNext == QueueStep \/ ExamStep \/ InterviewStep

\* ServerFairness of CodeJobs; runners may stop for good.
QueueFairness ==
    /\ WF_vars(In("queue") /\ Tick)
    /\ \A p \in Procs :
          /\ WF_vars(In("queue") /\ Serve(p))
          /\ SF_vars(In("queue") /\ \E j \in Jobs : FailPending(p, j))
    /\ \A a \in Attempts : WF_vars(In("queue") /\ \E c \in Clients : ReadResult(c, a))

\* Fairness of ExamAttempt: the clock, started requests, and the app that keeps polling.
ExamFairness ==
    /\ WF_examVars(In("exam") /\ Exam!Tick)
    /\ \A r \in Requests :
          /\ WF_examVars(In("exam") /\ Exam!Continue(r))
          /\ WF_examVars(In("exam") /\ Exam!Read(r, "poll"))

\* Fairness of InterviewSession: the page asks again while an answer is processed; nothing is
\* assumed of the evaluator.
InterviewFairness ==
    /\ WF_interviewVars(In("interview") /\ Interview!WaitOver)
    /\ SF_interviewVars(In("interview") /\ Interview!Arrive("client", "state", 0))
    /\ WF_interviewVars(In("interview") /\ Interview!Handle("client"))

LiveSpec == AllInit /\ [][AllNext]_allVars /\ QueueFairness /\ ExamFairness /\ InterviewFairness

-----------------------------------------------------------------------------
\* No worker watches the deadline, yet an attempt whose time is up is finished and scored,
\* by whoever asks next (AttemptService.settle).
ExpiredIsFinished == Exam!ExpiredIsFinished

\* However the evaluator fails, an answered question is followed by the next one or the end
\* (InterviewSessionService.advance).
MovesOn == Interview!MovesOn
=============================================================================
