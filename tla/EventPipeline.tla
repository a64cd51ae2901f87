----------------------------- MODULE EventPipeline -----------------------------
(***************************************************************************)
(* From what the candidate's app observes to the session's log             *)
(* (apps/desktop useEventReporter.ts, services/proctoring_events.py): the  *)
(* app queues its events and sends them one at a time over a connection    *)
(* that may break, the server recognises retries, folds repeats and keeps  *)
(* the episodes of AI observations, and the session ends with its attempt. *)
(*                                                                         *)
(* A request that records an event holds the attempt's row from the        *)
(* moment it takes it to its commit.  A poll reads the attempt without the *)
(* lock and takes the row only when it finds the deadline passed.          *)
(***************************************************************************)
EXTENDS RiskEngine

CONSTANTS
    Kinds,           \* what the candidate does: "focus", "paste", "face"
    Deadline,        \* expires_at
    RepeatWindow,    \* REPEAT_WINDOW_MS of the app
    DedupeWindow,    \* DEDUPE_WINDOW of the server
    MaxPending,      \* MAX_PENDING of the app
    MaxRows,         \* MAX_EVENTS_PER_SESSION
    MaxReports, MaxTime, MaxBreaks, MaxRestarts,   \* bounds
    None

VARIABLES
    now,        \* the server's clock
    app,        \* the candidate's app
    queue,      \* its pending events, kept in local storage
    wire,       \* requests on their way, those of broken connections included
    serving,    \* the request that holds the attempt's row
    reply,      \* the answer on its way to the app
    attempt,    \* the attempt's status
    session,    \* ended_at of the proctoring session
    log,        \* its events, as recorded
    poll,       \* a poll has read the attempt as open and past its deadline
    told        \* the last report of the focus the server has acknowledged

vars == <<now, app, queue, wire, serving, reply, attempt, session, log, poll, told>>
serverVars == <<serving, attempt, session, log, poll>>

-----------------------------------------------------------------------------
\* The window, the keyboard and the camera: one pair, one instant, one episode.
Types == {"FOCUS_LOST", "FOCUS_REGAINED", "PASTE_ATTEMPT", "FACE_NOT_DETECTED"}

App == [away : BOOLEAN, episode : Nat, next : Nat, last : [{"FOCUS_LOST", "PASTE_ATTEMPT"} -> Int],
        sending : BOOLEAN, stopped : BOOLEAN, connection : Nat, restarts : Nat]

Report == [id : Nat, type : Types,
           phase : {"started", "resolved", None}, episode : Nat]

NewReport(type, phase, episode) ==
    [id |-> app.next, type |-> type, phase |-> phase, episode |-> episode]

Row(report, at) ==
    [id |-> report.id, type |-> report.type, phase |-> report.phase, episode |-> report.episode,
     at |-> at]

\* record_server: such a row has no client_event_id.
ServerRow(type, phase, episode, at) ==
    [id |-> 0, type |-> type, phase |-> phase, episode |-> episode, at |-> at]

Init ==
    /\ now = 0
    /\ app = [away |-> FALSE, episode |-> 0, next |-> 1,
              last |-> [t \in {"FOCUS_LOST", "PASTE_ATTEMPT"} |-> -RepeatWindow],
              sending |-> FALSE, stopped |-> FALSE, connection |-> 0, restarts |-> 0]
    /\ queue = <<>> /\ wire = {} /\ serving = None /\ reply = None
    /\ attempt = "IN_PROGRESS" /\ session = None /\ log = <<>> /\ poll = FALSE
    /\ told = None

Tick ==
    /\ now < MaxTime
    /\ now' = now + 1
    /\ UNCHANGED <<app, queue, wire, serving, reply, attempt, session, log, poll, told>>

-----------------------------------------------------------------------------
(***************************************************************************)
(* The app.                                                                *)
(***************************************************************************)

\* The newest MAX_PENDING events are kept.
Queued(report) ==
    LET all == Append(queue, report)
    IN  SubSeq(all, Greater(1, Len(all) - MaxPending + 1), Len(all))

\* report(): an event queues, unless it repeats one with the same metadata too soon.
Reports(type, phase, episode, changed) ==
    LET repeats == type \in DOMAIN app.last /\ now - app.last[type] < RepeatWindow
        noted   == IF type \in DOMAIN app.last
                   THEN [changed EXCEPT !.last[type] = now] ELSE changed
    IN  /\ app.next <= MaxReports
        /\ IF app.stopped \/ repeats
           THEN /\ app' = (IF app.stopped THEN changed ELSE noted)
                /\ UNCHANGED queue
           ELSE /\ app' = [noted EXCEPT !.next = @ + 1]
                /\ queue' = Queued(NewReport(type, phase, episode))
        /\ UNCHANGED <<now, wire, reply, serverVars, told>>

\* Reports of a departure carry the same metadata each time, those of a return its duration.
LoseFocus ==
    /\ "focus" \in Kinds /\ ~app.away
    /\ Reports("FOCUS_LOST", None, 0, [app EXCEPT !.away = TRUE])

RegainFocus ==
    /\ app.away
    /\ Reports("FOCUS_REGAINED", None, 0, [app EXCEPT !.away = FALSE])

Paste == "paste" \in Kinds /\ Reports("PASTE_ATTEMPT", None, 0, app)

\* An episode is named by its first report.
FaceLost ==
    /\ "face" \in Kinds /\ app.episode = 0
    /\ Reports("FACE_NOT_DETECTED", "started", app.next, [app EXCEPT !.episode = app.next])

FaceSeen ==
    /\ app.episode # 0
    /\ Reports("FACE_NOT_DETECTED", "resolved", app.episode, [app EXCEPT !.episode = 0])

Send ==
    /\ ~app.sending /\ ~app.stopped /\ queue # <<>>
    /\ app' = [app EXCEPT !.sending = TRUE]
    /\ wire' = wire \cup {[report |-> Head(queue), connection |-> app.connection]}
    /\ UNCHANGED <<now, queue, reply, serverVars, told>>

\* The app sees an error; the request may be lost or be served all the same, now or later.
Break ==
    /\ app.sending /\ app.connection < MaxBreaks
    /\ app' = [app EXCEPT !.sending = FALSE, !.connection = @ + 1]
    /\ reply' = None
    /\ UNCHANGED <<now, queue, wire, serverVars, told>>

\* The answer: the head of the queue goes, whatever it is by then.
Receive ==
    /\ reply # None
    /\ reply' = None
    /\ app' = [app EXCEPT !.sending = FALSE, !.stopped = reply.code = "stop"]
    /\ queue' = IF reply.code = "stop" \/ queue = <<>> THEN <<>> ELSE Tail(queue)
    /\ told' = IF reply.code = "ok" /\ reply.type \in {"FOCUS_LOST", "FOCUS_REGAINED"}
               THEN reply.type ELSE told
    /\ UNCHANGED <<now, wire, serverVars>>

\* The app is restarted: the queue and the open episode, which is closed, come from local
\* storage, everything else is gone.
Restart ==
    /\ app.restarts < MaxRestarts /\ app.connection < MaxBreaks
    /\ app.episode # 0 => app.next <= MaxReports
    /\ app' = [app EXCEPT !.away = FALSE, !.episode = 0, !.sending = FALSE, !.stopped = FALSE,
                          !.last = [t \in DOMAIN @ |-> -RepeatWindow],
                          !.connection = @ + 1, !.restarts = @ + 1,
                          !.next = IF app.episode = 0 THEN @ ELSE @ + 1]
    /\ queue' = IF app.episode = 0 THEN queue
                ELSE Queued(NewReport("FACE_NOT_DETECTED", "resolved", app.episode))
    /\ reply' = None
    /\ UNCHANGED <<now, wire, serverVars, told>>

-----------------------------------------------------------------------------
(***************************************************************************)
(* The server.                                                             *)
(***************************************************************************)

\* utcnow(), later than the deadline once that has passed.
Stamp == IF now < Deadline THEN now ELSE now + 1

Started(rows, episode) ==
    {i \in DOMAIN rows : rows[i].phase = "started" /\ rows[i].episode = episode}

Resolved(rows, episode) ==
    {i \in DOMAIN rows : rows[i].phase = "resolved" /\ rows[i].episode = episode}

\* open_episodes
OpenEpisodes(rows) ==
    {e \in {rows[i].episode : i \in DOMAIN rows} \ {0} :
        Started(rows, e) # {} /\ Resolved(rows, e) = {}}

\* _resolve
Resolution(e, at) == ServerRow("FACE_NOT_DETECTED", "resolved", e, at)

\* close_open_episodes: for each episode still open.
Closing(rows, at) == SetToSeq({Resolution(e, at) : e \in OpenEpisodes(rows)})

\* end_for reads the session after the attempt's row was written, and so after the wait for it.
StillActive == session = None

\* The attempt is finished, and its session with it.
Finish(status, at) ==
    /\ attempt' = status
    /\ IF StillActive
       THEN /\ session' = at
            /\ log' = log \o Closing(log, at) \o <<ServerRow("SESSION_ENDED", None, 0, at)>>
       ELSE UNCHANGED <<session, log>>

Overdue == attempt = "IN_PROGRESS" /\ now >= Deadline

Answer(m, code) ==
    reply' = IF app.sending /\ m.connection = app.connection
             THEN [code |-> code, type |-> m.report.type] ELSE reply

\* The request locks the attempt and applies the clock; a finished attempt refuses the event.
Take(m) ==
    /\ serving = None
    /\ wire' = wire \ {m}
    /\ IF attempt = "IN_PROGRESS" /\ ~Overdue
       THEN /\ serving' = m
            /\ UNCHANGED <<reply, attempt, session, log>>
       ELSE /\ Answer(m, "stop")
            /\ IF Overdue THEN Finish("TIME_EXPIRED", Deadline)
               ELSE UNCHANGED <<attempt, session, log>>
            /\ UNCHANGED serving
    /\ UNCHANGED <<now, app, queue, poll, told>>

\* Mutant of Known: retries are not recognised.
NeverKnown(report) == FALSE

\* _by_client_id
Known(report) == \E i \in DOMAIN log : log[i].id = report.id

SameDetails(row, report) ==
    \/ report.type \in {"FOCUS_LOST", "PASTE_ATTEMPT"}
    \/ report.phase = "started" /\ row.phase = "started" /\ row.episode = report.episode

\* _latest_of_type
LatestOfType(type) == Max({i \in DOMAIN log : log[i].type = type})

\* The latest row of its type has the same details and is recent.
Repeats(report) ==
    /\ \E i \in DOMAIN log : log[i].type = report.type
    /\ SameDetails(log[LatestOfType(report.type)], report)
    /\ Stamp - log[LatestOfType(report.type)].at < DedupeWindow

\* _episode_exists
EpisodeExists(episode) == \E i \in DOMAIN log : log[i].episode = episode

\* _count: the rows of the session are limited.
LogFull == Len(log) >= MaxRows

\* _episode refuses: a start needs a new episode, a resolution an open one.
Inconsistent(report) ==
    \/ report.phase = "started" /\ EpisodeExists(report.episode)
    \/ report.phase = "resolved" /\ report.episode \notin OpenEpisodes(log)

\* A new start closes the episode of its type that was left open.
Superseded(report) == IF report.phase = "started" THEN Closing(log, Stamp) ELSE <<>>

\* record_client, and the commit.
Record ==
    /\ serving # None
    /\ serving' = None
    /\ LET report == serving.report
       IN  IF Known(report) \/ Repeats(report)
           THEN Answer(serving, "ok") /\ UNCHANGED log
           ELSE IF LogFull
           THEN Answer(serving, "stop") /\ UNCHANGED log
           ELSE IF Inconsistent(report)
           THEN Answer(serving, "refused") /\ UNCHANGED log
           ELSE /\ Answer(serving, "ok")
                /\ log' = log \o Superseded(report) \o <<Row(report, Stamp)>>
    /\ UNCHANGED <<now, app, queue, wire, attempt, session, poll, told>>

\* The candidate submits, or an administrator ends the exam: under the lock.
Submit ==
    /\ serving = None /\ attempt = "IN_PROGRESS"
    /\ IF Overdue THEN Finish("TIME_EXPIRED", Deadline) ELSE Finish("SUBMITTED", Stamp)
    /\ UNCHANGED <<now, app, queue, wire, serving, reply, poll, told>>

\* get_attempt: the attempt is read without its lock ...
PollReads ==
    /\ Overdue /\ ~poll
    /\ poll' = TRUE
    /\ UNCHANGED <<now, app, queue, wire, serving, reply, attempt, session, log, told>>

\* ... and written once nobody holds it.
PollWrites ==
    /\ poll /\ serving = None
    /\ poll' = FALSE
    /\ Finish("TIME_EXPIRED", Deadline)
    /\ UNCHANGED <<now, app, queue, wire, serving, reply, told>>

Next ==
    \/ Tick
    \/ LoseFocus \/ RegainFocus \/ Paste \/ FaceLost \/ FaceSeen
    \/ Send \/ Break \/ Receive \/ Restart
    \/ \E m \in wire : Take(m)
    \/ Record \/ Submit \/ PollReads \/ PollWrites

Spec == Init /\ [][Next]_vars

-----------------------------------------------------------------------------
(***************************************************************************)
(* Properties.                                                             *)
(***************************************************************************)

\* Type invariant.
TypeOK ==
    /\ now \in 0..MaxTime
    /\ app \in App
    /\ \A i \in DOMAIN queue : queue[i] \in Report
    /\ attempt \in {"IN_PROGRESS", "SUBMITTED", "TIME_EXPIRED"}
    /\ session \in Nat \cup {None}
    /\ poll \in BOOLEAN /\ told \in {"FOCUS_LOST", "FOCUS_REGAINED", None}

Count(S) == Cardinality(S)

\* A session ends once, and when it has ended every AI observation has exactly one start and one
\* end on record, whatever was in flight (end_for, close_open_episodes: "no episode is left
\* without a duration").
EpisodesClosed ==
    session # None =>
        /\ Count({i \in DOMAIN log : log[i].type = "SESSION_ENDED"}) = 1
        /\ \A e \in {log[i].episode : i \in DOMAIN log} \ {0} :
              Count(Started(log, e)) = 1 /\ Count(Resolved(log, e)) = 1

\* However often a request is retried or arrives late, an event is recorded once, and nothing the
\* app observed later is recorded before an event that still waits in the queue ("events queue in
\* order", useEventReporter; record_client).
EventsInOrder ==
    /\ \A i, j \in DOMAIN log : log[i].id = log[j].id => i = j \/ log[i].id = 0
    /\ \A k \in DOMAIN queue :
          \/ \E i \in DOMAIN log : log[i].id = queue[k].id
          \/ \A i \in DOMAIN log : log[i].id < queue[k].id

\* Mutant of Horizon: the end of the session does not count.
Unbounded == now + 1

\* As of when the session's risk and evidence are taken.
Horizon == IF session = None THEN now + 1 ELSE session

Evidence == Signals(log, Horizon)

\* The evidence of an ended session stands; while the exam runs an item stays, once it is on
\* record, and one with a recorded end is not changed (RiskService: "a finished attempt's risk and
\* evidence never change").  Only what was recorded after the deadline is dropped at the end.
EvidenceStands ==
    [][/\ session # None => Evidence' = Evidence
       /\ \A s \in Evidence : s.from <= Deadline =>
              \E t \in Evidence' : s.id = t.id /\ (s.resolved /\ s.to <= Deadline => s = t)]_<<log, session, now>>

\* The sweep finds exactly the maximal runs of signals close to each other, and the single pass the
\* sum of everything that still counts and the highest value it ever had; what the contributors and
\* the windows still count makes up that score; and the evidence is open as long as the session is:
\* once it has ended nothing is ONGOING, no observation of a face lacks its end, unless that was
\* recorded between the deadline and the end of the attempt, and an episode is RESOLVED when all of
\* its members have an end (engine.py, evidence.py).
RiskByDefinition ==
    LET signals == Evidence
        result  == Evaluate(signals, Horizon)
    IN  /\ Groups(signals) = {S \in (SUBSET signals) \ {{}} : IsWindow(S, signals)}
        /\ result.current = ScoreAt(signals, Horizon)
        /\ result.peak = Max({ScoreAt(signals, t) : t \in 0..Horizon})
        /\ LET by == Contributors(signals, Horizon)
               windows == {g \in Groups(signals) : Correlated(g)}
               bonus(g) == Decay(Scale * Lesser(BonusCap, TotalPoints(g) \div 4), Horizon - Ended(g))
           IN  MapThenSumSet(LAMBDA type : by[type].current, DOMAIN by)
                   + MapThenSumSet(bonus, windows) = result.current
        /\ LET evidence == BuildEvidence(signals, session = None)
           IN  /\ \A i \in evidence.items :
                     /\ session # None => i.status # "ONGOING"
                     /\ session # None /\ i.type = "FACE_NOT_DETECTED" =>
                           \/ i.status = "RESOLVED"
                           \/ \E r \in Resolved(log, log[i.id].episode) : log[r].at > session
                     /\ i.episode # {} => i.id \in i.episode
               /\ \A e \in DOMAIN evidence.episodes :
                     evidence.episodes[e] = "RESOLVED" <=>
                         \A i \in evidence.items : i.id \in e => i.ended # {}

\* "Nothing is lost to a dropped connection" (useEventReporter.ts): when nothing waits to be sent
\* or answered and the last thing the server acknowledged of the focus is that it was lost, the
\* evidence shows it as lost.
AllAcknowledged == queue = <<>> /\ wire = {} /\ serving = None /\ reply = None

NothingLost ==
    told = "FOCUS_LOST" /\ AllAcknowledged /\ session = None =>
        \E s \in Evidence : s.type = "FOCUS_LOST" /\ EvidenceStatus(s, TRUE) = "ONGOING"
=============================================================================
