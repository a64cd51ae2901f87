------------------------- MODULE MCInterviewReview -------------------------
(***************************************************************************)
(* Small instances of InterviewReview for TLC.                             *)
(***************************************************************************)
EXTENDS InterviewReview, TLC

\* One question with a follow-up.
OneQuestion == <<[suits |-> TRUE, level |-> 2, followUp |-> TRUE]>>

SomeSignals ==
    {[score |-> 80, sure |-> TRUE,  missing |-> FALSE],
     [score |-> 40, sure |-> FALSE, missing |-> FALSE]}

ReviewSymmetry == Permutations(Windows) \cup Permutations(Runners)
                    \cup Permutations(Admins) \cup Permutations(Outcomes)
=============================================================================
