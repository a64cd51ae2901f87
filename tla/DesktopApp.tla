------------------------------ MODULE DesktopApp ------------------------------
(***************************************************************************)
(* The desktop app during an exam: the candidate's page with the answers   *)
(* it saves (ExamClient), and the live video an administrator watches      *)
(* (LiveMonitoring).  The parts share no state here and are put side by    *)
(* side: scene, chosen at the start, is the one that runs.                 *)
(***************************************************************************)
EXTENDS LiveMonitoring

CONSTANTS MaxCalls, MaxEdits, MaxHolds, MaxFailures

VARIABLES
    scene,                                                  \* the part that runs
    attempt, late, calls, pushes, page, shown, save, clock, held, over, edits, holds, failures \* ExamClient

Client == INSTANCE ExamClient WITH MaxFaults <- MaxFailures, faults <- failures

\* None stands for what is not there.
ASSUME ClientConstants ==
    /\ None \notin Client!Call /\ None \notin Client!Read /\ None \notin Nat
    /\ None \notin {"ok", "attempt_locked", "attempt_on_hold"}
    /\ {MaxCalls, MaxEdits, MaxHolds, MaxFailures} \subseteq Nat

clientVars == <<attempt, late, calls, pushes, page, shown, save, clock, held, over, edits, holds, failures>>
allVars == <<scene, vars, clientVars>>

In(s) == scene = s /\ UNCHANGED scene

AppInit == scene \in {"client", "video"} /\ Init /\ Client!Init

ClientStep == In("client") /\ Client!Next /\ UNCHANGED vars
VideoStep  == In("video") /\ Next /\ UNCHANGED clientVars

AppNext == ClientStep \/ VideoStep

AppSpec == AppInit /\ [][AppNext]_allVars

-----------------------------------------------------------------------------
\* An answer shown as saved is the one the server has, unless a save that the page had given up
\* arrived after all (ExamClient, useAnswers).
AnswerIsStored == Client!AnswerIsStored

\* A page on the paper of an exam that is over will hear of it, for it still asks for the clock or
\* loads the attempt again; once the candidate has seen the end, the paper does not come back, unless
\* a reload failed there with an answer from before the end still to come (ExamClient, useExamClock,
\* keepFinished).
EndIsShown == Client!NeverStuck /\ Client!EndIsKept
===============================================================================
