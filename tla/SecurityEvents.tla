---------------------------- MODULE SecurityEvents ----------------------------
(***************************************************************************)
(* Security events and the alerts their rules raise                        *)
(* (services/security_events.py), with what administrators and the         *)
(* scheduler do to them: acknowledging an alert, the heartbeat of the      *)
(* backup and the maintenance run that misses it (api/v1/admin_security,   *)
(* services/retention.py).                                                 *)
(*                                                                         *)
(* An event is recorded in a transaction of its own, cut at its flush, at  *)
(* the two queries of each rule and at its commit, at READ COMMITTED.      *)
(***************************************************************************)
EXTENDS Naturals, Sequences, FiniteSets

CONSTANTS
    Recorders,     \* threads that can record an event at the same time
    Subjects,      \* users, addresses or accounts that events are about
    Types,         \* the types of events that come from requests
    Rules,         \* RULES, in their order
    Admins,
    MaxAge,        \* BACKUP_MAX_AGE_HOURS
    Keep,          \* RETENTION_SECURITY_EVENT_DAYS
    MaxEvents,     \* bound: events ever recorded
    MaxTime,       \* bound: the last instant of the clock
    None

\* The two events of the backup, and a group for rules that do not tell subjects apart.
BackupTypes == {"backup_failed", "backup_missing"}
AllTypes == Types \cup BackupTypes
Groups == Subjects \cup {"global"}

RuleType ==
    [types     : SUBSET AllTypes,
     threshold : Nat \ {0},
     window    : Nat,
     cooldown  : Nat,
     global    : BOOLEAN,     \* group_by: everything together, or per subject
     distinct  : BOOLEAN]     \* counts the subjects instead of the events

\* Events are kept longer than any rule looks back.
RulesFit ==
    /\ Rules \in Seq(RuleType)
    /\ {MaxAge, Keep, MaxEvents, MaxTime} \subseteq Nat
    /\ \A k \in DOMAIN Rules : Rules[k].window < Keep /\ Rules[k].cooldown < Keep
    /\ None \notin Groups \cup Admins

VARIABLES
    now,       \* the server's clock
    events,    \* the committed security_events rows
    alerts,    \* the committed security_alerts rows
    rec,       \* rec[p]: the transaction in which p records an event
    begun,     \* events ever begun: the next one's number
    cutoff,    \* what the last purge of events and alerts looked back to
    ack,       \* ack[a]: the alert administrator a is about to acknowledge, as it was read
    trail,     \* the audit records of acknowledgements
    backup     \* the heartbeat of the backup: the last success, None when there is none

eventVars == <<now, events, alerts, rec, begun, cutoff, ack, trail, backup>>

-----------------------------------------------------------------------------
Event ==
    [id      : Nat \ {0},
     type    : AllTypes,
     subject : Subjects \cup {None},
     at      : Nat,                \* occurred_at
     beside  : SUBSET Nat]         \* ghost: the events recorded at the same time

Alert ==
    [id   : Nat \ {0},             \* of the event that raised it
     rule : DOMAIN Rules,
     group : Groups,
     at   : Nat,                   \* created_at
     by   : Admins \cup {None}]    \* acknowledged_by

\* What a recorder does next: count for the rule it is at, look for a recent alert of that rule,
\* or commit.  raised is what it has added, uncommitted.
Rec ==
    [at     : {"idle", "count", "dedupe"},
     event  : Event \cup {None},
     rule   : Nat,
     raised : SUBSET Alert]

NoRec == [at |-> "idle", event |-> None, rule |-> 0, raised |-> {}]

Init ==
    /\ now = 0
    /\ events = {} /\ alerts = {} /\ trail = {}
    /\ rec = [p \in Recorders |-> NoRec]
    /\ begun = 0 /\ cutoff = 0
    /\ ack = [a \in Admins |-> None]
    /\ backup = None

-----------------------------------------------------------------------------
Open == {p \in Recorders : rec[p].at # "idle"}

\* _group: None when the rule needs a subject and the event has none.
GroupOf(rule, e) == IF rule.global THEN "global" ELSE e.subject

\* evaluate goes on with the next rule from k on that is about the event's type and has a group.
Concerns(k, e) == e.type \in Rules[k].types /\ GroupOf(Rules[k], e) # None
NextRule(k, e) ==
    IF \E i \in DOMAIN Rules : i >= k /\ Concerns(i, e)
    THEN CHOOSE i \in DOMAIN Rules :
            /\ i >= k /\ Concerns(i, e)
            /\ \A j \in DOMAIN Rules : j >= k /\ Concerns(j, e) => i <= j
    ELSE 0

\* What the rule counts of S when e is evaluated: its types, the window before e, e's group.
InWindow(rule, e, S) ==
    {x \in S : /\ x.type \in rule.types
               /\ x.at + rule.window >= e.at
               /\ rule.global \/ x.subject = e.subject}

\* COUNT(DISTINCT ...) leaves out what has no value.
Counted(rule, S) ==
    IF rule.distinct THEN Cardinality({x.subject : x \in S} \ {None}) ELSE Cardinality(S)

\* Mutant of Recent: an alert that has been acknowledged no longer counts.
Unanswered(rule, group, at) ==
    {x \in alerts : x.rule = rule /\ x.group = group /\ x.at + Rules[rule].cooldown >= at /\ x.by = None}

\* The alerts of the rule and group that are not older than the cooldown.
Recent(rule, group, at) ==
    {x \in alerts : x.rule = rule /\ x.group = group /\ x.at + Rules[rule].cooldown >= at}

\* The recorder sees the committed events and its own.
Reached(rule, e) == Counted(rule, InWindow(rule, e, events \cup {e})) >= rule.threshold

-----------------------------------------------------------------------------
\* record: the event is flushed with the time it was made.
Record(p, type, subject) ==
    LET e == [id |-> begun + 1, type |-> type, subject |-> subject, at |-> now,
              beside |-> {rec[q].event.id : q \in Open}]
    IN  /\ rec[p].at = "idle"
        /\ begun < MaxEvents
        /\ begun' = begun + 1
        /\ rec' = [q \in Recorders |->
                     IF q = p THEN [NoRec EXCEPT !.at = "count", !.event = e, !.rule = NextRule(1, e)]
                     ELSE IF q \in Open THEN [rec[q] EXCEPT !.event.beside = @ \cup {begun + 1}]
                     ELSE rec[q]]

\* A request that fails, is refused or is limited records what it stands for, about a user, an
\* address, an account or nobody.
Respond(p) ==
    /\ \E t \in Types, s \in Subjects \cup {None} : Record(p, t, s)
    /\ UNCHANGED <<now, events, alerts, cutoff, ack, trail, backup>>

\* evaluate: the count of one rule.
CountEvents(p) ==
    LET r == rec[p]
    IN  /\ r.at = "count" /\ r.rule # 0
        /\ rec' = [rec EXCEPT ![p] =
                     IF Reached(Rules[r.rule], r.event)
                     THEN [r EXCEPT !.at = "dedupe"]
                     ELSE [r EXCEPT !.rule = NextRule(r.rule + 1, r.event)]]
        /\ UNCHANGED <<now, events, alerts, begun, cutoff, ack, trail, backup>>

\* evaluate: an alert, unless there is one of the rule and group in the cooldown.
Raise(p) ==
    LET r == rec[p]
        group == GroupOf(Rules[r.rule], r.event)
        alert == [id |-> r.event.id, rule |-> r.rule, group |-> group, at |-> r.event.at, by |-> None]
    IN  /\ r.at = "dedupe"
        /\ rec' = [rec EXCEPT ![p] =
                     [r EXCEPT !.at = "count", !.rule = NextRule(r.rule + 1, r.event),
                               !.raised = IF Recent(r.rule, group, r.event.at) = {}
                                          THEN @ \cup {alert} ELSE @]]
        /\ UNCHANGED <<now, events, alerts, begun, cutoff, ack, trail, backup>>

Commit(p) ==
    /\ rec[p].at = "count" /\ rec[p].rule = 0
    /\ events' = events \cup {rec[p].event}
    /\ alerts' = alerts \cup rec[p].raised
    /\ rec' = [rec EXCEPT ![p] = NoRec]
    /\ UNCHANGED <<now, begun, cutoff, ack, trail, backup>>

\* "Never raises": an event that cannot be recorded is dropped, with its alerts.
Drop(p) ==
    /\ p \in Open
    /\ rec' = [rec EXCEPT ![p] = NoRec]
    /\ UNCHANGED <<now, events, alerts, begun, cutoff, ack, trail, backup>>

-----------------------------------------------------------------------------
\* acknowledge_alert: the row is read without a lock.
ReadAlert(a) ==
    /\ ack[a] = None
    /\ \E x \in alerts : x.by = None /\ ack' = [ack EXCEPT ![a] = x]
    /\ UNCHANGED <<now, events, alerts, rec, begun, cutoff, trail, backup>>

\* The row is overwritten and the record added, together; a row purged meanwhile is an error.
Acknowledge(a) ==
    /\ ack[a] # None
    /\ ack' = [ack EXCEPT ![a] = None]
    /\ LET same(x) == x.id = ack[a].id /\ x.rule = ack[a].rule
       IN  /\ alerts' = {IF same(x) THEN [x EXCEPT !.by = a] ELSE x : x \in alerts}
           /\ trail' = IF \E x \in alerts : same(x)
                       THEN trail \cup {[id |-> ack[a].id, rule |-> ack[a].rule, by |-> a]} ELSE trail
    /\ UNCHANGED <<now, events, rec, begun, cutoff, backup>>

\* backup_heartbeat: a success is noted, a failure is an event.
Heartbeat(p) ==
    /\ \/ backup' = now /\ UNCHANGED <<rec, begun>>
       \/ Record(p, "backup_failed", None) /\ UNCHANGED backup
    /\ UNCHANGED <<now, events, alerts, cutoff, ack, trail>>

\* check_backups, in the maintenance run.
Overdue == backup # None => now - backup > MaxAge
MissBackup(p) ==
    /\ Overdue
    /\ Record(p, "backup_missing", None)
    /\ UNCHANGED <<now, events, alerts, cutoff, ack, trail, backup>>

\* purge: what is older than the retention goes, acknowledged or not.
Purge ==
    /\ now > Keep
    /\ cutoff # now - Keep
    /\ cutoff' = now - Keep
    /\ events' = {e \in events : e.at >= now - Keep}
    /\ alerts' = {x \in alerts : x.at >= now - Keep}
    /\ UNCHANGED <<now, rec, begun, ack, trail, backup>>

Tick ==
    /\ now < MaxTime
    /\ now' = now + 1
    /\ UNCHANGED <<events, alerts, rec, begun, cutoff, ack, trail, backup>>

RecorderStep(p) ==
    Respond(p) \/ CountEvents(p) \/ Raise(p) \/ Commit(p) \/ Drop(p) \/ Heartbeat(p) \/ MissBackup(p)

Next ==
    \/ Tick \/ Purge
    \/ \E p \in Recorders : RecorderStep(p)
    \/ \E a \in Admins : ReadAlert(a) \/ Acknowledge(a)

Spec == Init /\ [][Next]_eventVars

-----------------------------------------------------------------------------
\* The rows and the transactions have their types.
TypeOK ==
    /\ {now, begun, cutoff} \subseteq Nat
    /\ events \subseteq Event
    /\ alerts \subseteq Alert
    /\ rec \in [Recorders -> Rec]
    /\ ack \in [Admins -> Alert \cup {None}]

\* One alert per rule and group per cooldown ("deduplicated"), except between events that were
\* recorded at the same time and could not see each other's.
Spaced ==
    \A x, y \in alerts :
        x.rule = y.rule /\ x.group = y.group /\ x.id < y.id =>
            \/ x.at + Rules[x.rule].cooldown < y.at
            \/ \E e \in events : e.id = y.id /\ x.id \in e.beside

\* An event that reaches the threshold of a rule with the events that were there when it was
\* recorded has an alert of that rule and its group, its own or one not older than the cooldown.
Answered ==
    \A e \in events, k \in DOMAIN Rules :
        LET before == {x \in events : x.id <= e.id /\ x.id \notin e.beside}
        IN  /\ Concerns(k, e)
            /\ Counted(Rules[k], InWindow(Rules[k], e, before)) >= Rules[k].threshold
            /\ e.at >= cutoff + Rules[k].cooldown
            => Recent(k, GroupOf(Rules[k], e), e.at) # {}

\* Whoever is named as having acknowledged an alert is on record for it.
Attested ==
    \A x \in alerts : x.by # None => [id |-> x.id, rule |-> x.rule, by |-> x.by] \in trail

\* Alerts answer events, neither more nor less than their rules say, and stay attributed
\* (security_events.evaluate, acknowledge_alert).
AlertsAnswerEvents == Spaced /\ Answered /\ Attested
=============================================================================
