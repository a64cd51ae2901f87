------------------------------ MODULE AIInterview ------------------------------
(***************************************************************************)
(* An AI interview for TLC: administrators write and assign it             *)
(* (InterviewAuthoring), a candidate sits it (InterviewSession).  The two  *)
(* share no state here and are put side by side: scene, chosen at the      *)
(* start, is the one that runs.                                            *)
(***************************************************************************)
EXTENDS InterviewSession, InterviewPaper

CONSTANTS Requests, Numbers, Counts, MaxEdits

VARIABLES scene, tx, edits

Authoring == INSTANCE InterviewAuthoring WITH Questions <- Numbers

authoringVars == <<paperVars, tx, edits>>

AllInit ==
    /\ scene \in {"authoring", "session"}
    /\ Init
    /\ Authoring!AuthoringInit
    /\ scene # "authoring" => bank = <<>> /\ interview.count = CHOOSE n \in Counts : TRUE

AuthoringStep ==
    scene = "authoring" /\ Authoring!AuthoringNext /\ UNCHANGED <<scene, vars>>

SessionStep ==
    scene = "session" /\ Next /\ UNCHANGED <<scene, authoringVars>>

AllNext == AuthoringStep \/ SessionStep

InterviewSpec == AllInit /\ [][AllNext]_<<scene, vars, authoringVars>>

-----------------------------------------------------------------------------
Q(suits, level, followUp) == [suits |-> suits, level |-> level, followUp |-> followUp]

\* A question with a follow-up, one that does not suit the interview, and an easier one.
TwoQuestions == <<Q(TRUE, 2, TRUE), Q(FALSE, 1, TRUE), Q(TRUE, 1, FALSE)>>

\* One that raises the level, one that is weak and unsure and may only lead to a follow-up.
SomeSignals ==
    {[score |-> 80, sure |-> TRUE,  missing |-> FALSE],
     [score |-> 40, sure |-> FALSE, missing |-> FALSE]}
=============================================================================
