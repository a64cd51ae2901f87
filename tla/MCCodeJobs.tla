----------------------------- MODULE MCCodeJobs -----------------------------
(***************************************************************************)
(* Small instances of CodeJobs for TLC.                                    *)
(***************************************************************************)
EXTENDS CodeJobs, TLC

\* Candidates' requests, runners, questions and keys are interchangeable.
ActorSymmetry ==
    Permutations(Clients) \cup Permutations(Workers) \cup Permutations(Questions)
        \cup Permutations(Attempts)
=============================================================================
