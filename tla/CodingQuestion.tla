--------------------------- MODULE CodingQuestion ---------------------------
(***************************************************************************)
(* What a candidate does at a coding question: code is kept (CodeDrafts),  *)
(* run and submitted (CodeJobs).  A job carries its own code, so that the  *)
(* parts share no state here and are put side by side: scene, chosen at    *)
(* the start, is the one that runs.                                        *)
(***************************************************************************)
EXTENDS MCCodeJobs, DraftState

CONSTANTS MaxEdits, MaxSaves, MaxFailures

VARIABLE scene      \* the part that runs

Drafts == INSTANCE CodeDrafts

ASSUME DraftConstants == Drafts!ConstantsFit

allVars == <<scene, vars, draftVars>>

In(s) == scene = s /\ UNCHANGED scene

AllInit == scene \in {"jobs", "drafts"} /\ Init /\ Drafts!Init

JobStep   == In("jobs") /\ Next /\ UNCHANGED draftVars
DraftStep == In("drafts") /\ Drafts!Next /\ UNCHANGED vars

AllNext == JobStep \/ DraftStep

CodingSpec == AllInit /\ [][AllNext]_allVars

-----------------------------------------------------------------------------
\* Besides, the mounts of the page are interchangeable.
CodingSymmetry == ActorSymmetry \cup Permutations(Pages)
=============================================================================
