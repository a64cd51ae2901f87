-------------------------- MODULE MCInterviewCalls --------------------------
(***************************************************************************)
(* Small instances of InterviewCalls for TLC: administrators are           *)
(* interchangeable.                                                        *)
(***************************************************************************)
EXTENDS InterviewCalls, TLC

AdminSymmetry == Permutations(Interviewers)
=============================================================================
