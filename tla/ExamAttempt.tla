------------------------------ MODULE ExamAttempt ------------------------------
(***************************************************************************)
(* One exam attempt of the AssessX backend, from the moment it is created  *)
(* to the moment it is finished and scored, under the concurrent HTTP      *)
(* requests of the candidate's app and of the administrators.              *)
(*                                                                         *)
(* Every request is one PostgreSQL transaction at READ COMMITTED           *)
(* (core/database.py).  A transaction is cut where another transaction can *)
(* get in between: the unlocked read of the attempt row, the statement     *)
(* that takes the row lock, the queries that score the answers, and the    *)
(* commit.  Buffered writes become visible at the commit; the row image a  *)
(* request read is kept in seen[r] and may be stale by the time it is used.*)
(*                                                                         *)
(* The attempt has objective questions only (coding submissions are in     *)
(* CodeJobs) and one sign-in session uses it, seen within the last 15      *)
(* seconds, so AttemptService.claim writes nothing.                        *)
(***************************************************************************)
EXTENDS Naturals, FiniteSets

CONSTANTS
    Requests,        \* HTTP requests that can be served at the same time
    Questions,       \* the paper
    SingleAnswer,    \* the questions of a SINGLE_ANSWER_TYPES type
    Options,         \* the options of each question
    Key,             \* the correct options of each question
    EventIds,        \* client_event_id values of FOCUS_REGAINED reports
    Duration,        \* expires_at, counted from started_at = 0
    TabSwitchLimit,  \* TAB_SWITCH_LIMIT
    MaxTime,         \* bound: the last instant of the clock
    MaxSaves,        \* bound: save-answer requests
    MaxCrashes,      \* bound: transactions lost to a crash or an exception
    None

ASSUME ConstantsAssumption ==
    /\ SingleAnswer \subseteq Questions
    /\ Key \in [Questions -> SUBSET Options]
    /\ Duration \in Nat \ {0}
    /\ TabSwitchLimit \in Nat \ {0}
    /\ MaxTime \in Nat
    /\ MaxSaves \in Nat
    /\ MaxCrashes \in Nat
    /\ None \notin Requests

\* None is no string, no instant and no set of questions.
ASSUME NoneAssumption ==
    /\ None \notin Nat
    /\ None \notin {"NOT_STARTED", "ACTIVE", "ENDED", "ADMIN", "TAB_SWITCH_LIMIT"}
    /\ \A Q \in SUBSET Questions : Q # None

VARIABLES
    now,        \* the server's clock
    att,        \* the committed assessment_attempts row
    session,    \* the committed proctoring session's status; None: not proctored
    events,     \* client event ids recorded in the proctoring log
    row,        \* row[q]: the attempt_answers row of q exists
    sel,        \* sel[q]: its attempt_answer_options rows
    result,     \* the attempt_results row: the questions marked correct
    rowLock,    \* the request holding the attempt row's lock
    keyShare,   \* requests holding it FOR KEY SHARE (foreign key of an insert)
    creator,    \* creator[q]: the request with an uncommitted insert of row[q]
    tx,         \* tx[r]: the transaction of request r, uncommitted
    saves, crashes         \* counters behind MaxSaves and MaxCrashes

attVars  == <<att, session, events, result>>
ansVars  == <<row, sel, keyShare, creator>>
counters == <<saves, crashes>>
vars == <<now, attVars, ansVars, rowLock, tx, counters>>

-----------------------------------------------------------------------------
Statuses == {"IN_PROGRESS", "SUBMITTED", "TIME_EXPIRED"}
TerminalStatuses == {"SUBMITTED", "TIME_EXPIRED"}
HoldReasons == {"TAB_SWITCH_LIMIT", "ADMIN"}
SessionStatuses == {"NOT_STARTED", "ACTIVE", "ENDED"}

AttemptRow ==
    [status      : Statuses,
     submittedAt : Nat \cup {None},
     finalizedAt : Nat \cup {None},
     held        : HoldReasons \cup {None},
     switches    : Nat,
     endedBy     : {"ADMIN", None}]

NewAttempt ==
    [status |-> "IN_PROGRESS", submittedAt |-> None, finalizedAt |-> None,
     held |-> None, switches |-> 0, endedBy |-> None]

\* Handlers that read the attempt without a lock, and those that SELECT ... FOR UPDATE.
UnlockedOps  == {"poll", "save"}
ForUpdateOps == {"submit", "activate", "focus", "hold", "release", "end"}

SelectionRow == [opt : Options, by : Nat]

Tx ==
    [pc     : {"idle", "read", "loaded", "locked", "finishing", "scored"},
     op     : UnlockedOps \cup ForUpdateOps,
     seen   : AttemptRow,                    \* the attempt row as it was read
     fin    : TerminalStatuses,              \* the status about to be written
     stamp  : Nat,                           \* finalized_at about to be written
     scored : {None} \cup SUBSET Questions,  \* the result about to be stored
     target : Questions \cup {None},         \* the question being answered
     loaded : SUBSET SelectionRow,           \* its selections as they were read
     tag    : Nat]                           \* identifies the rows a save inserts

NoTx ==
    [pc |-> "idle", op |-> "poll", seen |-> NewAttempt, fin |-> "SUBMITTED", stamp |-> 0,
     scored |-> None, target |-> None, loaded |-> {}, tag |-> 0]

Init ==
    /\ now = 0
    /\ att = NewAttempt
    /\ session \in {None, "NOT_STARTED"}
    /\ events = {}
    /\ row = [q \in Questions |-> FALSE]
    /\ sel = [q \in Questions |-> {}]
    /\ result = None
    /\ rowLock = None
    /\ keyShare = {}
    /\ creator = [q \in Questions |-> None]
    /\ tx = [r \in Requests |-> NoTx]
    /\ saves = 0
    /\ crashes = 0

At(r, label) == tx[r].pc = label

\* The response is sent: nothing of the transaction is kept.
Close(r) == tx' = [tx EXCEPT ![r] = NoTx]

Active(a) == a.status = "IN_PROGRESS"

\* Mutant: only the requests that lock the attempt apply the clock.
DueWhenLocked(r) == Active(tx[r].seen) /\ now >= Duration /\ tx[r].op \in ForUpdateOps

\* settle() finds the attempt it read past its deadline.
Due(r) == Active(tx[r].seen) /\ now >= Duration

\* The questions score_attempt marks correct: a non-empty selection equal to the key.
Score ==
    {q \in Questions :
        LET chosen == {x.opt : x \in sel[q]}
        IN  chosen # {} /\ chosen = Key[q]}

\* ensure_result: the stored result if there is one, else the committed answers are scored.
Evaluated == IF result # None THEN result ELSE Score

Tick ==
    /\ now < MaxTime
    /\ now' = now + 1
    /\ UNCHANGED <<attVars, ansVars, rowLock, tx, counters>>

-----------------------------------------------------------------------------
(* Requests that read the attempt without locking it.                      *)

\* get_for_candidate: the row as last committed.
Read(r, o) ==
    /\ At(r, "idle")
    /\ o = "save" => saves < MaxSaves
    /\ saves' = IF o = "save" THEN saves + 1 ELSE saves
    /\ tx' = [tx EXCEPT ![r] = [@ EXCEPT !.pc = "read", !.op = o, !.seen = att, !.tag = saves']]
    /\ UNCHANGED <<now, attVars, ansVars, rowLock, crashes>>

\* _open_attempt and require_active_if_proctored, on what the request read.
MayAnswer(r) ==
    /\ Active(tx[r].seen)
    /\ tx[r].seen.held = None
    /\ session # "NOT_STARTED"

\* A poll that found the clock still running, or a refused save: the response is sent.
Return(r) ==
    /\ At(r, "read")
    /\ ~Due(r)
    /\ tx[r].op = "save" => ~MayAnswer(r)
    /\ Close(r)
    /\ UNCHANGED <<now, attVars, ansVars, rowLock, counters>>

\* _answer_row: the answer row with its selections, inserted the first time.  The insert's
\* foreign key takes the attempt row FOR KEY SHARE, which waits for a FOR UPDATE holder,
\* and waits for another uncommitted insert of the same row (then it reads that one).
LoadAnswer(r, q) ==
    /\ At(r, "read")
    /\ tx[r].op = "save"
    /\ ~Due(r)
    /\ MayAnswer(r)
    /\ \/ /\ row[q]
          /\ UNCHANGED <<keyShare, creator>>
       \/ /\ ~row[q]
          /\ creator[q] = None
          /\ rowLock # None => tx[rowLock].op \in UnlockedOps
          /\ keyShare' = keyShare \cup {r}
          /\ creator' = [creator EXCEPT ![q] = r]
    /\ tx' = [tx EXCEPT ![r] = [@ EXCEPT !.pc = "loaded", !.target = q, !.loaded = sel[q]]]
    /\ UNCHANGED <<now, attVars, row, sel, rowLock, counters>>

\* The insert r has not committed is over: its key share and its claim on the row are gone.
DropInsert(r) ==
    /\ keyShare' = keyShare \ {r}
    /\ creator' = [q \in Questions |-> IF creator[q] = r THEN None ELSE creator[q]]

\* replace_selections: the rows read are deleted, the new ones inserted.  An option another
\* request left behind violates uq_attempt_answer_option and the transaction rolls back.
CommitSave(r, chosen) ==
    LET q    == tx[r].target
        kept == sel[q] \ tx[r].loaded
        new  == {[opt |-> o, by |-> tx[r].tag] : o \in chosen}
    IN  /\ At(r, "loaded")
        /\ q \in SingleAnswer => Cardinality(chosen) <= 1
        /\ IF \A x \in kept : x.opt \notin chosen
           THEN /\ sel' = [sel EXCEPT ![q] = kept \cup new]
                /\ row' = [row EXCEPT ![q] = TRUE]
           ELSE UNCHANGED <<sel, row>>
        /\ DropInsert(r)
        /\ Close(r)
        /\ UNCHANGED <<now, attVars, rowLock, counters>>

-----------------------------------------------------------------------------
(* Finishing: settle(), submit() and end() share the same tail.            *)

\* SELECT ... FOR UPDATE, with the row as it stands once the lock is granted.
Lock(r, o) ==
    /\ At(r, "idle")
    /\ rowLock = None
    /\ keyShare = {}
    /\ rowLock' = r
    /\ tx' = [tx EXCEPT ![r] = [@ EXCEPT !.pc = "locked", !.op = o, !.seen = att]]
    /\ UNCHANGED <<now, attVars, ansVars, counters>>

\* settle() on an attempt out of time: the UPDATE of status and finalized_at.  A request that
\* read without a lock waits here for the row lock and does not look at the row again.
Expire(r) ==
    /\ Due(r)
    /\ \/ At(r, "locked") /\ UNCHANGED rowLock
       \/ At(r, "read") /\ rowLock = None /\ rowLock' = r
    /\ tx' = [tx EXCEPT ![r] = [@ EXCEPT !.pc = "finishing", !.fin = "TIME_EXPIRED", !.stamp = Duration]]
    /\ UNCHANGED <<now, attVars, ansVars, counters>>

\* submit() by the candidate refuses a held attempt; end() by an administrator does not.
MayFinish(r) ==
    /\ Active(tx[r].seen)
    /\ \/ tx[r].op = "submit" /\ tx[r].seen.held = None
       \/ tx[r].op = "end"

Finish(r) ==
    /\ At(r, "locked")
    /\ ~Due(r)
    /\ MayFinish(r)
    /\ tx' = [tx EXCEPT ![r] = [@ EXCEPT !.pc = "finishing", !.fin = "SUBMITTED", !.stamp = now]]
    /\ UNCHANGED <<now, attVars, ansVars, rowLock, counters>>

\* ensure_result, within the transaction that finishes the attempt.
EnsureResult(r) ==
    /\ At(r, "finishing")
    /\ tx' = [tx EXCEPT ![r] = [@ EXCEPT !.pc = "scored", !.scored = Evaluated]]
    /\ UNCHANGED <<now, attVars, ansVars, rowLock, counters>>

\* Mutant: finishing leaves the proctoring session as it is.
NotEnded(s) == s

\* end_for: the proctoring session, if there is one, ends with its attempt.
Ended(s) == IF s = None THEN None ELSE "ENDED"

\* The commit: the columns this request wrote, the session's end and the result, at once.
CommitFinish(r) ==
    LET submits == tx[r].fin = "SUBMITTED"
    IN  /\ At(r, "scored")
        /\ att' = [att EXCEPT
                    !.status = tx[r].fin,
                    !.finalizedAt = tx[r].stamp,
                    !.submittedAt = IF submits THEN tx[r].stamp ELSE @,
                    !.endedBy = IF submits /\ tx[r].op = "end" THEN "ADMIN" ELSE @]
        /\ session' = Ended(session)
        /\ result' = tx[r].scored
        /\ rowLock' = None
        /\ Close(r)
        /\ UNCHANGED <<now, events, ansVars, counters>>

-----------------------------------------------------------------------------
(* The other handlers that hold the row lock; each decides and commits.    *)

Unlock(r) ==
    /\ At(r, "locked")
    /\ ~Due(r)
    /\ rowLock' = None
    /\ Close(r)
    /\ UNCHANGED <<now, ansVars, counters>>

\* Mutant: hold() without _require_open.
HoldFinished(r) ==
    /\ tx[r].op = "hold"
    /\ tx[r].seen.held = None
    /\ att' = [att EXCEPT !.held = "ADMIN"]
    /\ UNCHANGED <<session, events, result>>
    /\ Unlock(r)

Hold(r) ==
    /\ tx[r].op = "hold"
    /\ Active(tx[r].seen)
    /\ tx[r].seen.held = None
    /\ att' = [att EXCEPT !.held = "ADMIN"]
    /\ UNCHANGED <<session, events, result>>
    /\ Unlock(r)

Release(r) ==
    /\ tx[r].op = "release"
    /\ Active(tx[r].seen)
    /\ tx[r].seen.held # None
    /\ att' = [att EXCEPT !.held = None]
    /\ UNCHANGED <<session, events, result>>
    /\ Unlock(r)

Activate(r) ==
    /\ tx[r].op = "activate"
    /\ Active(tx[r].seen)
    /\ session = "NOT_STARTED"
    /\ session' = "ACTIVE"
    /\ UNCHANGED <<att, events, result>>
    /\ Unlock(r)

\* focus_returned: counted when the window was left long enough, or for another application,
\* and the attempt is not on hold; the switch that reaches the limit holds the attempt.
TabSwitch(counted) ==
    IF counted /\ att.held = None
    THEN att' = [att EXCEPT !.switches = @ + 1,
                            !.held = IF att.switches + 1 >= TabSwitchLimit
                                     THEN "TAB_SWITCH_LIMIT" ELSE @]
    ELSE UNCHANGED att

\* The recorder's idempotency: no event with this client_event_id is stored.
NewReport(e) == e \notin events

\* record_event with a FOCUS_REGAINED report: a new client event id is recorded and counted.
FocusRegained(r, e, counted) ==
    /\ tx[r].op = "focus"
    /\ Active(tx[r].seen)
    /\ session = "ACTIVE"
    /\ NewReport(e)
    /\ events' = events \cup {e}
    /\ TabSwitch(counted)
    /\ UNCHANGED <<session, result>>
    /\ Unlock(r)

\* Refused, or a repetition that changes nothing: ended or held attempt, session not active,
\* a retried or folded event, a second hold, release, submit or activation.
NoChange(r) ==
    /\ \/ ~Active(tx[r].seen)
       \/ tx[r].op = "submit" /\ tx[r].seen.held # None
       \/ tx[r].op = "hold" /\ tx[r].seen.held # None
       \/ tx[r].op = "release" /\ tx[r].seen.held = None
       \/ tx[r].op = "activate" /\ session # "NOT_STARTED"
       \/ tx[r].op = "focus" /\ (session # "ACTIVE" \/ events # {})
    /\ UNCHANGED attVars
    /\ Unlock(r)

\* An exception escaping the handler, a lost connection or a dead process: rolled back.
Crash(r) ==
    /\ ~At(r, "idle")
    /\ crashes < MaxCrashes
    /\ crashes' = crashes + 1
    /\ rowLock' = IF rowLock = r THEN None ELSE rowLock
    /\ DropInsert(r)
    /\ Close(r)
    /\ UNCHANGED <<now, attVars, row, sel, saves>>

-----------------------------------------------------------------------------
Begin(r) ==
    \/ \E o \in UnlockedOps : Read(r, o)
    \/ \E o \in ForUpdateOps : Lock(r, o)

Continue(r) ==
    \/ Return(r)
    \/ \E q \in Questions : LoadAnswer(r, q)
    \/ \E chosen \in SUBSET Options : CommitSave(r, chosen)
    \/ Expire(r)
    \/ Finish(r)
    \/ EnsureResult(r)
    \/ CommitFinish(r)
    \/ Hold(r)
    \/ Release(r)
    \/ Activate(r)
    \/ \E e \in EventIds, counted \in BOOLEAN : FocusRegained(r, e, counted)
    \/ NoChange(r)

Next ==
    \/ Tick
    \/ \E r \in Requests : Begin(r) \/ Continue(r) \/ Crash(r)

Spec == Init /\ [][Next]_vars

\* The clock runs, a started request is carried on, and the candidate's app keeps asking for
\* the clock (useExamClock resyncs every few seconds while the exam screen is open).
Fairness ==
    /\ WF_vars(Tick)
    /\ \A r \in Requests : WF_vars(Continue(r)) /\ WF_vars(Read(r, "poll"))

FairSpec == Spec /\ Fairness

-----------------------------------------------------------------------------
(* Properties.                                                             *)

\* Every variable holds a value of its column's or record's type.
TypeOK ==
    /\ now \in Nat
    /\ att \in AttemptRow
    /\ session \in SessionStatuses \cup {None}
    /\ events \subseteq EventIds
    /\ row \in [Questions -> BOOLEAN]
    /\ sel \in [Questions -> SUBSET SelectionRow]
    /\ result \in {None} \cup SUBSET Questions
    /\ rowLock \in Requests \cup {None}
    /\ keyShare \subseteq Requests
    /\ creator \in [Questions -> Requests \cup {None}]
    /\ tx \in [Requests -> Tx]
    /\ saves \in Nat
    /\ crashes \in Nat

Finalized == att.status \in TerminalStatuses

\* Finishing is whole, whoever finishes and however it races or crashes: an attempt is
\* finalized exactly when it has a finish time, a result, and (if proctored) an ended
\* session.  Nobody can observe a finished attempt that is unscored or still on the wall.
FinishIsWhole ==
    /\ Finalized <=> att.finalizedAt # None
    /\ Finalized <=> result # None
    /\ session # None => (Finalized <=> session = "ENDED")

\* A candidate's submission never gets past a hold: an attempt the candidate submitted (no
\* administrator ended it) is not on hold, however hold, release and submit interleave.
SubmittedNotHeld ==
    att.status = "SUBMITTED" /\ att.endedBy = None => att.held = None

\* A retried FOCUS_REGAINED report never costs the candidate a second tab switch: the count
\* never exceeds the number of distinct reports.
SwitchesReported ==
    IsFiniteSet(events) /\ att.switches <= Cardinality(events)

\* No answer is stored for a proctored attempt whose devices were never confirmed, although
\* the check reads the session without a lock.
NoAnswerBeforeActivation ==
    session = "NOT_STARTED" => \A q \in Questions : ~row[q] /\ sel[q] = {}

\* The result of an attempt is fixed once: a second finisher that raced the first one keeps
\* the result it finds and never rescores.
ResultIsFixed ==
    [][result # None => result' = result]_vars

\* The tab-switch count only grows, by one, while the attempt is open and not on hold, and
\* the switch that reaches the limit holds the attempt in the same commit.
SwitchesCounted ==
    [][att'.switches # att.switches =>
         /\ att'.switches = att.switches + 1
         /\ Active(att) /\ att.held = None
         /\ att'.switches >= TabSwitchLimit => att'.held # None]_vars

\* Whatever raced, the attempt behaves as the abstract lifecycle, in which finishing is one
\* irrevocable step.
Lifecycle == INSTANCE AttemptLifecycle WITH
    Results <- SUBSET Questions,
    phase <- IF Active(att) THEN "open" ELSE "finished",
    held <- att.held # None,
    switches <- att.switches

RefinesLifecycle == Lifecycle!Spec

\* An attempt out of time is eventually finished although no background worker watches the
\* clock, as long as the candidate's app keeps asking.
ExpiredIsFinished == now >= Duration ~> Finalized

\* Documented: the first transaction to finish an attempt decides its outcome, and a racing
\* one reads the settled row rather than overwriting it.
OutcomeDecidedOnce ==
    [][Finalized => att'.status = att.status]_vars

\* Documented: a finished attempt is immutable; its answers can no longer change once it is
\* evaluated.
AnswersFrozenAtFinish ==
    [][Finalized => UNCHANGED sel]_vars

\* Documented: a question of a single-answer type holds one selection at most.
OneSelection ==
    \A q \in SingleAnswer : Cardinality({x.opt : x \in sel[q]}) <= 1
=============================================================================
