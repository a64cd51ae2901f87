---------------------------- MODULE CodingResult ----------------------------
(***************************************************************************)
(* From submissions to the result of an attempt: who reports which verdict *)
(* and when the result is stored (CodeJobs), and what it is worth          *)
(* (Scoring).  A judged row is not changed and a score is computed from    *)
(* rows whenever it is asked for, so that the parts share no state here    *)
(* and are put side by side: scene, chosen at the start, is the one that   *)
(* runs.                                                                   *)
(***************************************************************************)
EXTENDS MCCodeJobs, Scoring

VARIABLE scene      \* the part that runs

allVars == <<scene, vars, scoreVars>>

In(s) == scene = s /\ UNCHANGED scene

AllInit ==
    /\ scene \in {"jobs", "scoring"}
    /\ Init /\ ScoreInit
    \* where nothing is scored, one paper will do
    /\ scene = "jobs" => paper = (CHOOSE p \in Papers : TRUE)

JobStep   == In("jobs") /\ Next /\ UNCHANGED scoreVars
ScoreStep == In("scoring") /\ ScoreNext /\ UNCHANGED vars

AllNext == JobStep \/ ScoreStep

ResultSpec == AllInit /\ [][AllNext]_allVars

-----------------------------------------------------------------------------
\* Besides, the options of a question are interchangeable.
ResultSymmetry == ActorSymmetry \cup Permutations(Options)
=============================================================================
