--------------------------- MODULE MCExamAttempt ---------------------------
(***************************************************************************)
(* Small instances of ExamAttempt for TLC: one single-answer question with *)
(* two options, the option o1 correct.                                     *)
(***************************************************************************)
EXTENDS ExamAttempt, TLC

CONSTANTS q1, o1, o2

MCQuestions == {q1}
MCOptions == {o1, o2}
MCKey == [q \in MCQuestions |-> {o1}]

\* Requests are interchangeable, and so are the ids of focus reports.
IdSymmetry == Permutations(Requests) \cup Permutations(EventIds)
=============================================================================
