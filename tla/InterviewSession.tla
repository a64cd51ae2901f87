----------------------------- MODULE InterviewSession -----------------------------
(***************************************************************************)
(* One candidate's AI interview: InterviewSessionService, the background   *)
(* EvaluationRunner, and the policies they call (selection, adaptive).     *)
(*                                                                         *)
(* A candidate's request reads the clock when it arrives and then works    *)
(* under the session's row lock, so it is two steps.  An evaluation is     *)
(* claimed and recorded in transactions of its own, with the call to the   *)
(* provider between them.  The one path that writes the session without    *)
(* its lock, the evaluation whose runs are used up, is two steps too.      *)
(***************************************************************************)
EXTENDS Integers, Sequences, FiniteSets

CONSTANTS
    Bank,               \* the primary questions in authored order
    QuestionCount, FollowUpsEnabled, MaxFollowUps,     \* the interview's settings
    Adaptive, MinLevel, StartLevel, MaxLevel,
    Configured,         \* there is an evaluator on this server
    Signals,            \* what a validated evaluation may say
    MaxRuns,            \* MAX_RUNS
    Windows,            \* candidate requests that can be in flight together
    Runners,            \* background threads
    MaxQueued,          \* bound: times one evaluation may wait to be run
    MaxFaults,          \* bound: runs and processes lost
    None

Levels == 1..3          \* EASY, MEDIUM, HARD

Question == [suits    : BOOLEAN,    \* active, of one of the topics and of a type the interview asks
             level    : Levels,
             followUp : BOOLEAN]    \* it has an active follow-up

Signal == [score : 0..100, sure : BOOLEAN, missing : BOOLEAN]

ASSUME InterviewAssumption ==
    /\ Bank \in Seq(Question)
    /\ QuestionCount \in Nat \ {0} /\ MaxFollowUps \in 0..QuestionCount
    /\ {FollowUpsEnabled, Adaptive, Configured} \subseteq BOOLEAN
    /\ {MinLevel, StartLevel, MaxLevel} \subseteq Levels
    /\ MinLevel <= StartLevel /\ StartLevel <= MaxLevel
    /\ Signals \subseteq Signal
    /\ {MaxRuns, MaxQueued} \subseteq Nat \ {0} /\ MaxFaults \in Nat

VARIABLES
    assigned,   \* the candidate has the assignment
    sess,       \* the interview_sessions row
    items,      \* its items, by sequence
    evals,      \* their evaluations: evals[i] of items[i] once it is answered
    expired,    \* the session's deadline has passed
    waited,     \* the item whose wait for its evaluation has run out (0: none)
    queue,      \* queue[i]: how many background tasks will run evaluation i
    win,        \* win[w]: the candidate's request in window w
    run,        \* run[r]: what background thread r is doing
    faults

vars == <<assigned, sess, items, evals, expired, waited, queue, win, run, faults>>

-----------------------------------------------------------------------------
\* The plan of a session: the eligible primaries, all of them when the interview is adaptive.
Eligible ==
    {q \in DOMAIN Bank :
        /\ Bank[q].suits
        /\ Bank[q].level <= MaxLevel
        /\ Adaptive => MinLevel <= Bank[q].level}

Plan ==
    IF Adaptive THEN Eligible
    ELSE {q \in Eligible : Cardinality({p \in Eligible : p < q}) < QuestionCount}

\* At most one primary and one follow-up for each of the bank's questions.
MaxItems == 2 * Len(Bank)

Session ==
    [status  : {"ACTIVE", "COMPLETED"},
     reason  : {"ALL_ANSWERED", "TIME_EXPIRED", "ENDED_BY_CANDIDATE", None},
     used    : Nat,          \* follow_ups_used
     level   : Levels,       \* current_difficulty
     changes : Nat]          \* difficulty_changes

\* None stands for a row that is not there, and for a column without a value.
ASSUME NoneAssumption == None \notin Session \cup Signal \cup Nat

Item ==
    [question : DOMAIN Bank,    \* for a follow-up, the question it follows
     kind     : {"PRIMARY", "FOLLOW_UP"},
     state    : {"PRESENTED", "ANSWERED"},
     by       : {"PLAN", "ADAPTIVE", "FALLBACK"}]

\* A lease that was never taken may be overdue (STALE_PENDING_SECONDS), a taken one over.
Evaluation ==
    [status   : {"PENDING", "COMPLETED", "FAILED", "UNAVAILABLE"},
     signal   : Signal \cup {None},
     attempts : 0..MaxRuns,
     lease    : {"none", "overdue", "held", "over"}]

Ops == {"start", "state", "answer", "complete"}

\* A request and the clock it read: whether the deadline and the wait were over and which
\* evaluations nobody was running.
Request ==
    [op : Ops \cup {"idle"}, item : 0..MaxItems, expired : BOOLEAN, waited : 0..MaxItems,
     stale : SUBSET (1..MaxItems)]

NoRequest == [op |-> "idle", item |-> 0, expired |-> FALSE, waited |-> 0, stale |-> {}]

\* A thread: calling the provider for an evaluation, or giving one up with the session as it
\* read it.
Run == [at : {"idle", "calling", "exhausted"}, item : 0..MaxItems, copy : Session \cup {None}]

NoRun == [at |-> "idle", item |-> 0, copy |-> None]

Init ==
    /\ assigned = TRUE
    /\ sess = None
    /\ items = <<>>
    /\ evals = <<>>
    /\ expired = FALSE
    /\ waited = 0
    /\ queue = [i \in 1..MaxItems |-> 0]
    /\ win = [w \in Windows |-> NoRequest]
    /\ run = [r \in Runners |-> NoRun]
    /\ faults = 0

-----------------------------------------------------------------------------
Asked(its, kind) == {its[i].question : i \in {j \in DOMAIN its : its[j].kind = kind}}

Apart(a, b) == IF a >= b THEN a - b ELSE b - a

\* p is asked before q when the next question should be of this level.
Sooner(p, q, level) ==
    LET dp == Apart(Bank[p].level, level)
        dq == Apart(Bank[q].level, level)
    IN \/ dp < dq
       \/ dp = dq /\ Bank[p].level < Bank[q].level
       \/ dp = dq /\ Bank[p].level = Bank[q].level /\ p < q

\* next_primary
NextPrimary(its, level) ==
    LET asked == Asked(its, "PRIMARY")
        left  == Plan \ asked
    IN IF Cardinality(asked) >= QuestionCount \/ left = {} THEN None
       ELSE CHOOSE q \in left : \A p \in left \ {q} : IF Adaptive THEN Sooner(q, p, level) ELSE q < p

\* available_follow_up, after the answered item last
FollowUpAvailable(last, used) ==
    /\ last.kind = "PRIMARY"
    /\ FollowUpsEnabled
    /\ used < MaxFollowUps
    /\ Bank[last.question].followUp

Weak(sig) == sig.score < 70 \/ sig.missing          \* FOLLOW_UP_BELOW

\* adaptive.step
Clamp(level) == IF level < MinLevel THEN MinLevel ELSE IF level > MaxLevel THEN MaxLevel ELSE level

\* The level after an answer with this evaluation: RAISE_AT, LOWER_AT, MIN_CONFIDENCE.
NextLevel(kind, sig, level) ==
    IF ~Adaptive \/ kind # "PRIMARY" \/ sig = None THEN level
    ELSE IF ~sig.sure THEN level
    ELSE IF sig.score >= 80 THEN Clamp(level + 1)
    ELSE IF sig.score <= 40 THEN Clamp(level - 1)
    ELSE level

\* Mutant of SelectedBy: an evaluation that failed or is late counts as one.
SelectedByEvaluator(ev) == IF ev.status = "UNAVAILABLE" THEN "PLAN" ELSE "ADAPTIVE"

SelectedBy(ev) ==
    CASE ev.status = "COMPLETED"   -> "ADAPTIVE"
      [] ev.status = "UNAVAILABLE" -> "PLAN"
      [] OTHER                     -> "FALLBACK"

Asking(question, kind, by) ==
    [question |-> question, kind |-> kind, state |-> "PRESENTED", by |-> by]

Ended(s, reason) == [s EXCEPT !.status = "COMPLETED", !.reason = reason]

\* settle
Settle(s, late) == IF s.status = "ACTIVE" /\ late THEN Ended(s, "TIME_EXPIRED") ELSE s

\* Mutant of Waits: an evaluation that does not arrive is waited for without a limit.
WaitsForever(s, its, evs, wait) ==
    \/ s.status # "ACTIVE"
    \/ its = <<>>
    \/ \E i \in DOMAIN its : its[i].state = "PRESENTED"
    \/ evs[Len(its)].status = "PENDING"

\* Nothing to decide: the interview is over, a question is on screen or its answer is being
\* evaluated.
Waits(s, its, evs, wait) ==
    \/ s.status # "ACTIVE"
    \/ its = <<>>
    \/ \E i \in DOMAIN its : its[i].state = "PRESENTED"
    \/ evs[Len(its)].status = "PENDING" /\ wait # Len(its)

\* advance: the session and the items after it.
Advance(s, its, evs, wait) ==
    IF Waits(s, its, evs, wait) THEN [session |-> s, items |-> its]
    ELSE
    LET last    == its[Len(its)]
        ev      == evs[Len(its)]
        level   == NextLevel(last.kind, ev.signal, s.level)
        moved   == [s EXCEPT !.level = level, !.changes = IF level = s.level THEN @ ELSE @ + 1]
        follow  == FollowUpAvailable(last, s.used) /\ (ev.signal # None => Weak(ev.signal))
        primary == NextPrimary(its, level)
    IN IF follow
       THEN [session |-> [moved EXCEPT !.used = @ + 1],
             items   |-> Append(its, Asking(last.question, "FOLLOW_UP", SelectedBy(ev)))]
       ELSE IF primary # None
       THEN [session |-> moved, items |-> Append(its, Asking(primary, "PRIMARY", SelectedBy(ev)))]
       ELSE [session |-> Ended(moved, "ALL_ANSWERED"), items |-> its]

\* stale_evaluations
Stale == {i \in DOMAIN evals : evals[i].status = "PENDING" /\ evals[i].lease \in {"overdue", "over"}}

\* _schedule: background tasks, run once the response has been sent.
Enqueue(S) ==
    [i \in 1..MaxItems |-> IF i \in S /\ queue[i] < MaxQueued THEN queue[i] + 1 ELSE queue[i]]

-----------------------------------------------------------------------------
(* The candidate's requests.                                               *)

\* A request reaches the handler and reads the clock; it may then wait for the session's lock.
Arrive(w, op, i) ==
    /\ win[w].op = "idle"
    /\ op # "start" => sess # None
    /\ IF op = "answer" THEN i \in DOMAIN items ELSE i = 0
    /\ win' = [win EXCEPT ![w] = [op |-> op, item |-> i, expired |-> expired, waited |-> waited,
                                  stale |-> IF op = "state" THEN Stale ELSE {}]]
    /\ UNCHANGED <<assigned, sess, items, evals, expired, waited, queue, run, faults>>

Answered(w) == win' = [win EXCEPT ![w] = NoRequest]

\* The session or the assignment is gone.
NotFound(w) ==
    /\ IF win[w].op = "start" THEN ~assigned ELSE sess = None
    /\ win[w].op # "idle"
    /\ Answered(w)
    /\ UNCHANGED <<assigned, sess, items, evals, expired, waited, queue, run, faults>>

\* start: a new session with its first question, or the one there is; refused when there is
\* nothing to ask.
Start(w) ==
    /\ win[w].op = "start"
    /\ assigned
    /\ IF sess # None
       THEN sess' = Settle(sess, win[w].expired) /\ UNCHANGED items
       ELSE IF Plan = {} THEN UNCHANGED <<sess, items>>
       ELSE /\ sess' = [status |-> "ACTIVE", reason |-> None, used |-> 0,
                        level |-> IF Adaptive THEN StartLevel ELSE MaxLevel, changes |-> 0]
            /\ items' = <<Asking(NextPrimary(<<>>, sess'.level), "PRIMARY", "PLAN")>>
    /\ Answered(w)
    /\ UNCHANGED <<assigned, evals, expired, waited, queue, run, faults>>

\* state: applies the clock, moves on if it may, and has abandoned evaluations run again.
State(w) ==
    /\ win[w].op = "state"
    /\ sess # None
    /\ LET moved == Advance(Settle(sess, win[w].expired), items, evals, win[w].waited)
       IN sess' = moved.session /\ items' = moved.items
    /\ queue' = Enqueue(win[w].stale \cap Stale)
    /\ Answered(w)
    /\ UNCHANGED <<assigned, evals, expired, waited, run, faults>>

NewEvaluation ==
    [status |-> IF Configured THEN "PENDING" ELSE "UNAVAILABLE",
     signal |-> None, attempts |-> 0, lease |-> "none"]

\* answer: saves it if its item is the one presented, and asks for its evaluation.
Answer(w) ==
    /\ win[w].op = "answer"
    /\ sess # None
    /\ LET s == Settle(sess, win[w].expired)
           i == win[w].item
       IN IF s.status = "ACTIVE" /\ i \in DOMAIN items /\ items[i].state = "PRESENTED"
          THEN LET its   == [items EXCEPT ![i].state = "ANSWERED"]
                   evs   == Append(evals, NewEvaluation)
                   moved == IF Configured THEN [session |-> s, items |-> its]
                            ELSE Advance(s, its, evs, 0)
               IN /\ sess' = moved.session
                  /\ items' = moved.items
                  /\ evals' = evs
                  /\ queue' = IF Configured THEN Enqueue({i}) ELSE queue
          ELSE sess' = s /\ UNCHANGED <<items, evals, queue>>    \* stale, or over
    /\ Answered(w)
    /\ UNCHANGED <<assigned, expired, waited, run, faults>>

\* complete: the candidate ends the interview early.
Complete(w) ==
    /\ win[w].op = "complete"
    /\ sess # None
    /\ LET s == Settle(sess, win[w].expired)
       IN sess' = IF s.status = "ACTIVE" THEN Ended(s, "ENDED_BY_CANDIDATE") ELSE s
    /\ Answered(w)
    /\ UNCHANGED <<assigned, items, evals, expired, waited, queue, run, faults>>

-----------------------------------------------------------------------------
(* The evaluator's background runs.                                        *)

\* The evaluation's row is locked by a run that is giving it up.
RowFree(i) == \A r \in Runners : ~(run[r].at = "exhausted" /\ run[r].item = i)

\* _claim: leaves it to another run, gives it up, or takes the lease.
Claim(r, i) ==
    /\ run[r].at = "idle"
    /\ queue[i] > 0
    /\ RowFree(i)
    /\ queue' = [queue EXCEPT ![i] = @ - 1]
    /\ IF evals[i].status # "PENDING" \/ evals[i].lease = "held"
       THEN UNCHANGED <<evals, run>>
       ELSE IF evals[i].attempts >= MaxRuns
       THEN /\ run' = [run EXCEPT ![r] = [at |-> "exhausted", item |-> i, copy |-> sess]]
            /\ UNCHANGED evals
       ELSE /\ run' = [run EXCEPT ![r] = [at |-> "calling", item |-> i, copy |-> None]]
            /\ evals' = [evals EXCEPT ![i].attempts = @ + 1, ![i].lease = "held"]
    /\ UNCHANGED <<assigned, sess, items, expired, waited, win, faults>>

\* Mutant of Resolved: a result is written over whatever is there.
Overwritten(ev, sig) ==
    [ev EXCEPT !.status = IF sig = None THEN "FAILED" ELSE "COMPLETED", !.signal = sig, !.lease = "none"]

\* _finish: the evaluation with its result, or failed.
Resolved(ev, sig) == IF ev.status = "PENDING" THEN Overwritten(ev, sig) ELSE ev

\* _record: locks the session and the evaluation; the interview may move on.
Record(r, sig) ==
    /\ run[r].at = "calling"
    /\ RowFree(run[r].item)
    /\ LET i     == run[r].item
           evs   == [evals EXCEPT ![i] = Resolved(@, sig)]
           moved == Advance(Settle(sess, expired), items, evs, waited)
       IN /\ evals' = evs
          /\ IF evs = evals THEN UNCHANGED <<sess, items>>
             ELSE sess' = moved.session /\ items' = moved.items
    /\ run' = [run EXCEPT ![r] = NoRun]
    /\ UNCHANGED <<assigned, expired, waited, queue, win, faults>>

\* An UPDATE writes the columns that differ from the row as it was read, and no other.
Merge(row, read, img) ==
    [c \in DOMAIN row |-> IF img[c] # read[c] THEN img[c] ELSE row[c]]

\* _claim's other path into _finish: FAILED, and the session as the run read it moves on.
GiveUp(r) ==
    /\ run[r].at = "exhausted"
    /\ LET i     == run[r].item
           read  == run[r].copy
           evs   == [evals EXCEPT ![i] = Resolved(@, None)]
           moved == Advance(Settle(read, expired), items, evs, waited)
       IN /\ evals' = evs
          /\ sess' = Merge(sess, read, moved.session)
          /\ items' = moved.items
    /\ run' = [run EXCEPT ![r] = NoRun]
    /\ UNCHANGED <<assigned, expired, waited, queue, win, faults>>

\* A run ends with an exception or as a deadlock's victim; run swallows it.
RunFails(r) ==
    /\ faults < MaxFaults
    /\ run[r].at # "idle"
    /\ faults' = faults + 1
    /\ run' = [run EXCEPT ![r] = NoRun]
    /\ UNCHANGED <<assigned, sess, items, evals, expired, waited, queue, win>>

\* The server process restarts: its requests, tasks and runs are gone.
Crash ==
    /\ faults < MaxFaults
    /\ faults' = faults + 1
    /\ queue' = [i \in 1..MaxItems |-> 0]
    /\ win' = [w \in Windows |-> NoRequest]
    /\ run' = [r \in Runners |-> NoRun]
    /\ UNCHANGED <<assigned, sess, items, evals, expired, waited>>

-----------------------------------------------------------------------------
(* Time, and the administrator.                                            *)

Deadline ==
    /\ sess # None
    /\ ~expired
    /\ expired' = TRUE
    /\ UNCHANGED <<assigned, sess, items, evals, waited, queue, win, run, faults>>

\* evaluation_wait_seconds after the last answer.
WaitOver ==
    /\ evals # <<>> /\ Len(evals) = Len(items)
    /\ evals[Len(evals)].status = "PENDING"
    /\ waited # Len(items)
    /\ waited' = Len(items)
    /\ UNCHANGED <<assigned, sess, items, evals, expired, queue, win, run, faults>>

\* An evaluation nobody took becomes overdue, a lease runs out.
LeaseOver(i) ==
    /\ i \in DOMAIN evals
    /\ evals[i].status = "PENDING"
    /\ evals[i].lease \in {"none", "held"}
    /\ evals' = [evals EXCEPT ![i].lease = IF @ = "none" THEN "overdue" ELSE "over"]
    /\ UNCHANGED <<assigned, sess, items, expired, waited, queue, win, run, faults>>

\* unassign: the assignment goes with the session, its items and evaluations.  The runs it
\* leaves behind will find nothing.
Unassign ==
    /\ assigned
    /\ \A r \in Runners : run[r].at # "exhausted"
    /\ assigned' = FALSE
    /\ sess' = None
    /\ items' = <<>>
    /\ evals' = <<>>
    /\ waited' = 0
    /\ queue' = [i \in 1..MaxItems |-> 0]
    /\ run' = [r \in Runners |-> NoRun]
    /\ UNCHANGED <<expired, win, faults>>

Handle(w) == NotFound(w) \/ Start(w) \/ State(w) \/ Answer(w) \/ Complete(w)

Next ==
    \/ \E w \in Windows, op \in Ops, i \in 0..MaxItems : Arrive(w, op, i)
    \/ \E w \in Windows : Handle(w)
    \/ \E r \in Runners, i \in 1..MaxItems : Claim(r, i)
    \/ \E r \in Runners, sig \in Signals \cup {None} : Record(r, sig)
    \/ \E r \in Runners : GiveUp(r) \/ RunFails(r)
    \/ \E i \in 1..MaxItems : LeaseOver(i)
    \/ Crash \/ Deadline \/ WaitOver \/ Unassign

Spec == Init /\ [][Next]_vars

\* The client asks again while the answer is processed (a timer of the page), requests are
\* served and time passes.  Nothing is assumed of the evaluator or of its runs.
FairSpec ==
    /\ Spec
    /\ WF_vars(WaitOver)
    /\ \A w \in Windows : SF_vars(Arrive(w, "state", 0)) /\ WF_vars(Handle(w))

-----------------------------------------------------------------------------
TypeOK ==
    /\ assigned \in BOOLEAN
    /\ sess \in Session \cup {None}
    /\ items \in Seq(Item) /\ Len(items) <= MaxItems
    /\ evals \in Seq(Evaluation)
    /\ expired \in BOOLEAN
    /\ waited \in 0..MaxItems
    /\ queue \in [1..MaxItems -> 0..MaxQueued]
    /\ win \in [Windows -> Request]
    /\ run \in [Runners -> Run]
    /\ faults \in 0..MaxFaults

\* The paper is the one planned at the start, whoever moves the interview on: one question at
\* a time and each once, a follow-up right after its answered question, no more than
\* question_count primaries, and without adaption in the authored order.
PaperKept ==
    /\ \A i \in DOMAIN items : items[i].state = "PRESENTED" => i = Len(items)
    /\ \A i, j \in DOMAIN items :
          i # j => items[i].question # items[j].question \/ items[i].kind # items[j].kind
    /\ \A i \in DOMAIN items :
          IF items[i].kind = "PRIMARY" THEN items[i].question \in Plan
          ELSE i > 1 /\ items[i - 1].kind = "PRIMARY" /\ items[i - 1].question = items[i].question
    /\ Cardinality(Asked(items, "PRIMARY")) <= QuestionCount
    /\ ~Adaptive => \A i, j \in DOMAIN items : i < j => items[i].question <= items[j].question
    /\ Len(evals) = Cardinality({i \in DOMAIN items : items[i].state = "ANSWERED"})

\* Every question says truly why it was asked: ADAPTIVE only with a completed evaluation of
\* the answer before it, which was weak if it is a follow-up and does not change any more;
\* PLAN only where no evaluator was configured.
AskedOnEvidence ==
    \A i \in DOMAIN items \ {1} :
        LET ev == evals[i - 1]
        IN /\ items[i].by = "ADAPTIVE" =>
                 /\ ev.status = "COMPLETED"
                 /\ items[i].kind = "FOLLOW_UP" => Weak(ev.signal)
           /\ items[i].by = "PLAN" => ev.status = "UNAVAILABLE"

\* An evaluation settles once: neither a second run, nor a late result, nor giving it up
\* changes one that is no longer PENDING, and no run takes back what another one started.
EvaluationSettlesOnce ==
    [][\A i \in DOMAIN evals \cap DOMAIN evals' :
          /\ evals[i].status # "PENDING" => evals'[i] = evals[i]
          /\ evals[i].attempts <= evals'[i].attempts]_vars

\* sessions.py: "ACTIVE -> COMPLETED, one direction"; moving on happens "only under the
\* session lock".  What has ended stays as it ended, and asks nothing more.
EndedOnce ==
    [][sess # None /\ sess' # None /\ sess.status = "COMPLETED" =>
          sess' = sess /\ items' = items]_vars

\* However the evaluator fails, an answered question is followed by the next one or the end.
Processing == sess # None /\ sess.status = "ACTIVE" /\ Len(evals) = Len(items)

MovesOn == Processing ~> ~Processing
=============================================================================
