---------------------------- MODULE Administration ----------------------------
(***************************************************************************)
(* What administrators do before and after an exam: they keep a library of *)
(* coding problems (ProblemLibrary), write and assign an exam              *)
(* (ExamAuthoring), and review an attempt at it (AttemptReview).  The      *)
(* parts share no state here and are put side by side: scene, chosen at    *)
(* the start, is the one that runs.                                        *)
(***************************************************************************)
EXTENDS AttemptReview, TLC

CONSTANTS Candidates, Ids, Problems, Texts, Marked, Totals, MaxShared,
          Solutions, Inputs, Outputs, MaxVersions, MaxJobs, MaxEdits, MaxOpen

VARIABLES
    scene,                                          \* the part that runs
    team, exam, questions, assigned, attempts, tx,  \* ExamAuthoring
    versions, pinned, jobs, open, edits             \* ProblemLibrary

Authoring == INSTANCE ExamAuthoring WITH Admins <- Writers, Marks <- Marked

Library == INSTANCE ProblemLibrary

authoringVars == <<team, exam, questions, assigned, attempts, tx>>
libraryVars == <<versions, pinned, jobs, open, edits>>
allVars == <<scene, reviewVars, authoringVars, libraryVars>>

In(s) == scene = s /\ UNCHANGED scene

\* A scene that does not run starts in one way only.
AllInit ==
    /\ scene \in {"library", "authoring", "review"}
    /\ ReviewInit
    /\ Authoring!Init
    /\ Library!Init
    /\ scene # "authoring" => team = Writers /\ exam = CHOOSE e \in Authoring!Exam : e.status = "DRAFT"
    /\ scene # "library" => versions[1].solution = None

AuthoringStep == In("authoring") /\ Authoring!Next /\ UNCHANGED <<reviewVars, libraryVars>>
ReviewStep    == In("review") /\ ReviewNext /\ UNCHANGED <<authoringVars, libraryVars>>
LibraryStep   == In("library") /\ Library!Next /\ UNCHANGED <<reviewVars, authoringVars>>

AllNext == AuthoringStep \/ ReviewStep \/ LibraryStep

AdministrationSpec == AllInit /\ [][AllNext]_allVars

-----------------------------------------------------------------------------
\* Administrators, candidates, questions, what they ask and outcomes are interchangeable.
PeopleSymmetry ==
    Permutations(Writers) \cup Permutations(Candidates) \cup Permutations(Ids)
        \cup Permutations(Texts)

\* While one administrator at a time writes the exam its questions are numbered 0, 1, ...,
\* fit its kind and hold each problem once (ExamAuthoring).
PaperWellFormed == Authoring!PaperWellFormed

\* Once no request from before the first attempt is open, what candidates are examined on no
\* longer changes (ExamAuthoring, AssessmentService._require_editable).
PaperSettles == Authoring!PaperSettles

\* A validation that no edit overlapped is one of the solution and of the expected outputs the
\* version has (ProblemLibrary, ExecutionService.complete).
ValidatedAsItStands == Library!ValidatedAsItStands

\* A version whose publication no edit overlapped never changes again, and a version that an
\* exam examines is there (ProblemLibrary, CodingProblemService).
PublishedStands == Library!PublishedStands
=============================================================================
