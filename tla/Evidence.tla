------------------------------- MODULE Evidence -------------------------------
(***************************************************************************)
(* What is kept of a proctored attempt, in one place: the events of its    *)
(* session with what is derived from them (EventPipeline, RiskEngine), and *)
(* the clips (EvidenceClips).  The parts share no state here and are put   *)
(* side by side: scene, chosen at the start, is the one that runs.  Points *)
(* stand for those of policy.py, in the same proportions, with caps that   *)
(* are reached.                                                            *)
(***************************************************************************)
EXTENDS EvidenceClips, TLC

CONSTANTS Scenes, Kinds, Deadline, RepeatWindow, DedupeWindow, MaxPending, MaxRows, MaxReports,
          MaxBreaks, MaxRestarts

VARIABLES
    scene,                                              \* the part that runs
    \* EventPipeline
    clock, app, queue, wire, serving, reply, exam, session, log, poll, told

Points(lost, face, paste) ==
    [FOCUS_LOST |-> lost, FACE_NOT_DETECTED |-> face, PASTE_ATTEMPT |-> paste]

Pipeline == INSTANCE EventPipeline WITH
    Base <- Points(8, 20, 4), PerTick <- Points(4, 8, 0), Cap <- Points(12, 32, 4),
    Gap <- 1, BonusCap <- 8, Scale <- 64, now <- clock, attempt <- exam

ASSUME PolicyFits == Pipeline!RulesFit /\ {Deadline, RepeatWindow, MaxPending} \subseteq Nat

eventVars == <<clock, app, queue, wire, serving, reply, exam, session, log, poll, told>>
allVars == <<scene, clipVars, eventVars>>

In(s) == scene = s /\ UNCHANGED scene

AllInit == scene \in Scenes /\ ClipInit /\ Pipeline!Init

ClipScene  == In("clips") /\ ClipNext /\ UNCHANGED eventVars
EventScene == In("events") /\ Pipeline!Next /\ UNCHANGED clipVars

AllNext == ClipScene \/ EventScene

EvidenceSpec == AllInit /\ [][AllNext]_allVars

-----------------------------------------------------------------------------
\* Events and requests are interchangeable.
ClipSymmetry == Permutations(Events) \cup Permutations(Requests)


\* An event is recorded once, and none before an older one that still waits in the app
\* (EventPipeline, useEventReporter and record_client).
EventsInOrder == Pipeline!EventsInOrder

\* The sweep and the single pass of the risk engine compute what they are described to
\* (EventPipeline, engine.py).
RiskByDefinition == Pipeline!RiskByDefinition

\* The evidence of an ended session stands (EventPipeline, RiskService).
EvidenceStands == Pipeline!EvidenceStands

\* "Nothing is lost to a dropped connection" (EventPipeline, useEventReporter).
NothingLost == Pipeline!NothingLost
=============================================================================
