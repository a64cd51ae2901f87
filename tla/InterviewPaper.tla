---------------------------- MODULE InterviewPaper ----------------------------
(***************************************************************************)
(* One AI interview as administrators configure it and candidates sit it:  *)
(* its settings, its bank of questions, who is assigned, the sessions that *)
(* were started, and what is claimed of them.  InterviewAuthoring has the  *)
(* requests that change them.                                              *)
(***************************************************************************)
EXTENDS Naturals, SequencesExt

CONSTANTS
    Candidates,
    Topics        \* standing for topic, type and difficulty, which make a question eligible

VARIABLES
    interview,    \* row of interviews
    bank,         \* rows of interview_questions by id, a positive number
    assignees,    \* candidates with an interview_assignments row
    sessions,     \* rows of interview_sessions by candidate
    overlapped    \* ghost: a publication overlapped an edit, or an unpublication an assignment

paperVars == <<interview, bank, assignees, sessions, overlapped>>

IsPublished == interview.status = "PUBLISHED"

\* The questions a session may ask, and the order it asks them in.
EligiblePrimaries(i, b) == {q \in DOMAIN b : b[q].parent = 0 /\ b[q].active /\ b[q].topic \in i.topics}

Precedes(b, p, q) == b[p].position < b[q].position \/ (b[p].position = b[q].position /\ p < q)

\* build_plan, without adaptive difficulty: the first question_count eligible questions.
BuildPlan(i, b) ==
    LET ordered == SetToSortSeq(EligiblePrimaries(i, b), LAMBDA p, q : Precedes(b, p, q))
    IN  SubSeq(ordered, 1, IF i.count < Len(ordered) THEN i.count ELSE Len(ordered))

\* Every session of an interview sees one paper, the published one, however many requests of
\* administrators and candidates run at once, unless a publication overlapped an edit or an
\* unpublication an assignment (service.py: "every session must see one paper").
OnePaper ==
    ~overlapped =>
        \A c \in DOMAIN sessions :
            /\ IsPublished
            /\ sessions[c] = [plan |-> BuildPlan(interview, bank), paper |-> bank]
===============================================================================
