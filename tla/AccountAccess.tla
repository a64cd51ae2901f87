---------------------------- MODULE AccountAccess ----------------------------
(***************************************************************************)
(* What a user's requests pass through: signing in and out (SignIn), the   *)
(* web sockets a sign-in opens (SocketAccess), the attempt it takes over   *)
(* (AttemptStart), and the events and alerts that refused requests become  *)
(* (SecurityEvents).  The parts share no state here and are put side by    *)
(* side: scene, chosen at the start, is the one that runs.                 *)
(***************************************************************************)
EXTENDS AttemptStart, TLC

CONSTANTS Codes, MaxPasswords, Sockets, MaxSockets, Recheck,
          Subjects, Admins, MaxAge, Keep, MaxEvents, MaxHours

VARIABLES
    scene,                                                    \* the part that runs
    account, session, code, req,                              \* SignIn
    live, ticket, socket, slots,                              \* SocketAccess
    time, events, alerts, rec, begun, cutoff, ack, trail, backup  \* SecurityEvents

SignIns == INSTANCE SignIn WITH Clients <- Requests, SignIns <- Sessions

Connections == INSTANCE SocketAccess WITH Logins <- Sessions

\* The kinds of rules there are: so many subjects, so many events of one subject, and any event
\* of the backup.
Rules ==
    <<[types |-> {"refused"}, threshold |-> 2, window |-> 1, cooldown |-> 1,
       global |-> TRUE, distinct |-> TRUE],
      [types |-> {"refused"}, threshold |-> 2, window |-> 1, cooldown |-> 1,
       global |-> FALSE, distinct |-> FALSE],
      [types |-> {"backup_failed", "backup_missing"}, threshold |-> 1, window |-> 1, cooldown |-> 1,
       global |-> TRUE, distinct |-> FALSE]>>

Alarms == INSTANCE SecurityEvents WITH
    now <- time, MaxTime <- MaxHours, Recorders <- Requests, Types <- {"refused"}

ASSUME AccessConstants == Alarms!RulesFit /\ Connections!SocketsFit /\ None \notin Sessions

signInVars == <<account, session, code, req>>
socketVars == <<live, ticket, socket, slots>>
alarmVars == <<time, events, alerts, rec, begun, cutoff, ack, trail, backup>>
allVars == <<scene, vars, signInVars, socketVars, alarmVars>>

In(s) == scene = s /\ UNCHANGED scene

AllInit ==
    /\ scene \in {"attempts", "sign-ins", "sockets", "alarms"}
    /\ Init
    /\ SignIns!Init
    /\ Connections!Init
    /\ Alarms!Init

AttemptStep == In("attempts") /\ Next /\ UNCHANGED <<signInVars, socketVars, alarmVars>>
SignInStep  == In("sign-ins") /\ SignIns!Next /\ UNCHANGED <<vars, socketVars, alarmVars>>
SocketStep  == In("sockets") /\ Connections!Next /\ UNCHANGED <<vars, signInVars, alarmVars>>
AlarmStep   == In("alarms") /\ Alarms!Next /\ UNCHANGED <<vars, signInVars, socketVars>>

AllNext == AttemptStep \/ SignInStep \/ SocketStep \/ AlarmStep

AccessSpec == AllInit /\ [][AllNext]_allVars

-----------------------------------------------------------------------------
\* Requests and sign-ins are interchangeable.
RequestSymmetry == Permutations(Requests) \cup Permutations(Sessions)

\* A live session is of the account's password or of the one set last, and of an active user, unless
\* it was opened beside a change of them, and one reset code is open; an open socket has a slot, and
\* ends within an interval of its session (SignIn, SocketAccess).
AccessFollows == SignIns!AccessFollows /\ Connections!SocketsFollow

\* Alerts answer the events that reach a rule's threshold, once per cooldown, and whoever
\* acknowledged one is on record (SecurityEvents).
AlertsAnswerEvents == Alarms!AlertsAnswerEvents
=============================================================================
