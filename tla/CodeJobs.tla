------------------------------- MODULE CodeJobs -------------------------------
(***************************************************************************)
(* The code execution queue of the AssessX backend: candidates request     *)
(* runs and submissions, runners claim them under a lease and report, and  *)
(* a finished attempt is scored once no submission of it is pending        *)
(* (services/coding/execution.py, services/evaluation.py, runner/).        *)
(*                                                                         *)
(* Every HTTP request is one PostgreSQL transaction at READ COMMITTED.     *)
(* The rows it wrote are kept, locked and invisible to the others, in      *)
(* tx[p].rows until it commits.  A transaction is cut at the statements    *)
(* that read or may wait: the claim query, the reads of ensure_result, the *)
(* updates of the pending submissions, the scoring query, the insert of    *)
(* the result (it waits for a concurrent insert of the same attempt) and   *)
(* the commit.                                                             *)
(*                                                                         *)
(* Time is relative: a lease, the age of a job and the time since an       *)
(* attempt ended saturate where the code stops telling instants apart.     *)
(* An attempt is finished once here; two finishers of one attempt are in   *)
(* ExamAttempt, and so is the hold, which only refuses requests.           *)
(***************************************************************************)
EXTENDS Integers, FiniteSets

CONSTANTS
    Attempts, Questions,
    Clients,         \* requests of candidates and administrators served at once
    Workers,         \* the runners, by RUNNER_ID
    Keys,            \* idempotency keys; a request may also carry none
    MaxInFlight,     \* MAX_IN_FLIGHT_PER_ATTEMPT
    MaxRuns,         \* MAX_RUNS_PER_ATTEMPT
    MaxSubmissions,  \* coding_max_submissions, per question
    RunRate,         \* RUNS_PER_MINUTE
    SubmitRate,      \* SUBMITS_PER_MINUTE
    RateWindow,      \* the 60 seconds of both, in ticks
    QueueCap,        \* QUEUE_CAP
    Lease,           \* runner_lease_seconds, in ticks
    MaxClaims,       \* runner_max_claims
    ClaimTries,      \* jobs one claim request looks at
    Duration,        \* the length of an attempt, in ticks
    EvalWait,        \* EVALUATION_WAIT, in ticks
    MaxJobs,         \* bound: rows of code_executions
    MaxFaults,       \* bound: lost transactions, lost replies and runner restarts
    None

ASSUME ConstantsAssumption ==
    /\ Clients \cap Workers = {}
    /\ {MaxRuns, MaxSubmissions, RunRate, SubmitRate, RateWindow, QueueCap} \subseteq Nat
    /\ {MaxInFlight, Lease, MaxClaims, ClaimTries, Duration, EvalWait} \subseteq Nat \ {0}
    /\ {MaxJobs, MaxFaults} \subseteq Nat
    /\ None \notin Keys \cup Workers \cup Attempts

VARIABLES
    job,       \* job[j]: the committed row of code_executions, oldest first
    finished,  \* the attempts whose committed status is terminal
    over,      \* over[a]: ticks since the end of a's time, or since it was submitted
    result,    \* result[a]: the submissions counted by the committed attempt_results row
    work,      \* work[w]: the job runner w works on and the call it owes for it
    tx,        \* tx[p]: the transaction of p
    faults

vars == <<job, finished, over, result, work, tx, faults>>

-----------------------------------------------------------------------------
Jobs  == 1..MaxJobs
Procs == Clients \cup Workers
Kinds == {"RUN", "SUBMIT"}
InFlight == {"QUEUED", "RUNNING"}
Statuses == InFlight \cup {"COMPLETED", "FAILED"}

JobRow ==
    [kind : Kinds, att : Attempts, ques : Questions, key : Keys \cup {None},
     age : 0..RateWindow + 1, status : Statuses, worker : Workers \cup {None},
     lease : 0..Lease, claims : 0..MaxClaims]

NewJob(kind, a, q, key) ==
    [kind |-> kind, att |-> a, ques |-> q, key |-> key, age |-> 0,
     status |-> "QUEUED", worker |-> None, lease |-> 0, claims |-> 0]

Work == [job : Jobs, call : {"result", "fail"}]

Tx ==
    [pc : {"idle", "claim", "consider", "fail", "score", "insert", "commit"},
     op : {"request", "finish", "read", "claim", "report"},
     rows : [Jobs -> JobRow \cup {None}],   \* rows of code_executions it wrote
     att : Attempts \cup {None},            \* the attempt ensure_result works on
     holds : Attempts \cup {None},          \* the attempt locked FOR UPDATE
     pend : SUBSET Jobs,                    \* pending submissions still to be failed
     counted : SUBSET Jobs,                 \* what the scoring query returned
     res : [Attempts -> {None} \cup SUBSET Jobs],   \* rows of attempt_results it inserted
     tries : 0..ClaimTries]                 \* iterations left to a claim

NoTx ==
    [pc |-> "idle", op |-> "read", rows |-> [j \in Jobs |-> None], att |-> None,
     holds |-> None, pend |-> {}, counted |-> {}, res |-> [a \in Attempts |-> None],
     tries |-> 0]

\* None is no row of any table and nothing a runner works on.
ASSUME NoneAssumption ==
    /\ None \notin JobRow
    /\ \A S \in SUBSET Jobs : S # None
    /\ None \notin Work

Init ==
    /\ job = [j \in Jobs |-> None]
    /\ finished = {}
    /\ over = [a \in Attempts |-> -Duration]
    /\ result = [a \in Attempts |-> None]
    /\ work = [w \in Workers |-> None]
    /\ tx = [p \in Procs |-> NoTx]
    /\ faults = 0

At(p, label) == tx[p].pc = label

\* What p's transaction sees: its own writes over the committed rows.
View(p) == [j \in Jobs |-> IF tx[p].rows[j] # None THEN tx[p].rows[j] ELSE job[j]]
Ended(p) == finished \cup (IF tx[p].op = "finish" THEN {tx[p].holds} ELSE {})
Scored(p) == {a \in Attempts : result[a] # None \/ tx[p].res[a] # None}

\* No transaction holds attempt a FOR UPDATE.
Unheld(a) == \A p \in Procs : tx[p].holds # a

\* No other transaction wrote job j.
Unlocked(p, j) == \A o \in Procs \ {p} : tx[o].rows[j] = None

Rows(v) == {j \in Jobs : v[j] # None}

\* The oldest of a set of jobs; none if it is empty.
Oldest(S) == {j \in S : \A i \in S : j <= i}

\* The submissions of attempt a whose status is in S.
Submissions(v, a, S) ==
    {j \in Rows(v) : v[j].kind = "SUBMIT" /\ v[j].att = a /\ v[j].status \in S}

-----------------------------------------------------------------------------
(* Time *)

Older(r) ==
    [r EXCEPT !.age = IF @ > RateWindow THEN @ ELSE @ + 1,
              !.lease = IF r.status = "RUNNING" /\ @ > 0 THEN @ - 1 ELSE @]

Tick ==
    /\ over' = [a \in Attempts |-> IF over[a] < EvalWait THEN over[a] + 1 ELSE EvalWait]
    /\ job' = [j \in Jobs |-> IF job[j] = None THEN None ELSE Older(job[j])]
    /\ tx' = [p \in Procs |->
                [tx[p] EXCEPT !.rows =
                    [j \in Jobs |-> IF @[j] = None THEN None ELSE Older(@[j])]]]
    /\ UNCHANGED <<finished, result, work, faults>>

-----------------------------------------------------------------------------
(* Requests of the candidates *)

OfAttempt(a) == {j \in Rows(job) : job[j].att = a}
InFlightOf(a) == {j \in OfAttempt(a) : job[j].status \in InFlight}
OfKind(a, kind) == {j \in OfAttempt(a) : job[j].kind = kind}
Recent(a, kind) == {j \in OfKind(a, kind) : job[j].age <= RateWindow}
Queued == {j \in Rows(job) : job[j].status = "QUEUED"}
RateOf(kind) == IF kind = "RUN" THEN RunRate ELSE SubmitRate

\* A row of a already carries the key: the original is returned.
Existing(a, key) == key # None /\ \E j \in OfAttempt(a) : job[j].key = key

\* Mutant: the rule of one job per question is forgotten.
GuardPerAttempt(a, q, kind) ==
    /\ Cardinality(InFlightOf(a)) < MaxInFlight
    /\ Cardinality(Recent(a, kind)) < RateOf(kind)

\* request_submit's limit and _guard.
Guard(a, q, kind) ==
    /\ kind = "SUBMIT" =>
          Cardinality({j \in OfKind(a, kind) : job[j].ques = q}) < MaxSubmissions
    /\ \A j \in InFlightOf(a) : job[j].ques # q
    /\ Cardinality(InFlightOf(a)) < MaxInFlight
    /\ kind = "RUN" => Cardinality(OfKind(a, kind)) < MaxRuns
    /\ Cardinality(Recent(a, kind)) < RateOf(kind)
    /\ Cardinality(Queued) < QueueCap

Taken(j) == job[j] # None \/ \E p \in Procs : tx[p].rows[j] # None

\* The row added next: newer than every row, committed or not.
NextJobs ==
    {j \in Jobs : /\ \A i \in Jobs : i >= j => ~Taken(i)
                  /\ j = 1 \/ Taken(j - 1)}

\* _context: the attempt is locked, in progress and inside its time.
Accepts(a) == Unheld(a) /\ a \notin finished /\ over[a] < 0

Request(c, a, q, kind, key, j) ==
    /\ At(c, "idle")
    /\ Accepts(a)
    /\ ~Existing(a, key)
    /\ Guard(a, q, kind)
    /\ j \in NextJobs
    /\ tx' = [tx EXCEPT ![c] = [NoTx EXCEPT !.pc = "commit", !.op = "request", !.holds = a,
                                            !.rows[j] = NewJob(kind, a, q, key)]]
    /\ UNCHANGED <<job, finished, over, result, work, faults>>

\* Submitting, or settling an attempt out of time: ensure_result in the same transaction.
Finish(c, a) ==
    /\ At(c, "idle")
    /\ Unheld(a)
    /\ a \notin finished
    /\ tx' = [tx EXCEPT ![c] = [NoTx EXCEPT !.pc = "consider", !.op = "finish",
                                            !.holds = a, !.att = a]]
    /\ UNCHANGED <<job, finished, over, result, work, faults>>

\* Asking for the result of a finished attempt that has none yet.
ReadResult(c, a) ==
    /\ At(c, "idle")
    /\ a \in finished
    /\ result[a] = None
    /\ tx' = [tx EXCEPT ![c] = [NoTx EXCEPT !.pc = "consider", !.op = "read", !.att = a]]
    /\ UNCHANGED <<job, finished, over, result, work, faults>>

-----------------------------------------------------------------------------
(* ensure_result, in the transaction of a finish, a read, a report or a claim *)

\* Back to the caller: a claim goes on with its loop, the others commit.
After(p) == IF tx[p].op = "claim" THEN "claim" ELSE "commit"

\* Mutant: pending submissions are waited for without an end.
NeverEnough(a) == FALSE

\* EVALUATION_WAIT has passed since finalized_at.
WaitedEnough(a) == over[a] >= EvalWait

\* Mutant: only queued submissions count as pending.
PendingQueued(p) == Submissions(View(p), tx[p].att, {"QUEUED"})

\* pending_submissions, as p's transaction sees them.
Pending(p) == Submissions(View(p), tx[p].att, InFlight)

\* Nothing to do: the attempt is open, has its result, or its submissions are waited for.
Leave(p) ==
    LET a == tx[p].att IN
    /\ At(p, "consider")
    /\ \/ a \notin Ended(p)
       \/ a \in Scored(p)
       \/ (Pending(p) # {} /\ ~WaitedEnough(a))
    /\ tx' = [tx EXCEPT ![p].pc = After(p)]
    /\ UNCHANGED <<job, finished, over, result, work, faults>>

Consider(p) ==
    LET a == tx[p].att IN
    /\ At(p, "consider")
    /\ a \in Ended(p) \ Scored(p)
    /\ Pending(p) = {} \/ WaitedEnough(a)
    /\ tx' = [tx EXCEPT ![p].pc = IF Pending(p) = {} THEN "score" ELSE "fail",
                        ![p].pend = Pending(p)]
    /\ UNCHANGED <<job, finished, over, result, work, faults>>

\* One UPDATE of the flush: it waits for the row's lock, then overwrites what is there.
FailPending(p, j) ==
    /\ At(p, "fail")
    /\ j \in Oldest(tx[p].pend)
    /\ Unlocked(p, j)
    /\ tx' = [tx EXCEPT ![p].rows[j] = [View(p)[j] EXCEPT !.status = "FAILED"],
                        ![p].pend = @ \ {j},
                        ![p].pc = IF tx[p].pend = {j} THEN "score" ELSE "fail"]
    /\ UNCHANGED <<job, finished, over, result, work, faults>>

\* Mutant: the scoring query sees only what other transactions committed.
ScoreCommitted(p) ==
    /\ At(p, "score")
    /\ tx' = [tx EXCEPT ![p].counted = Submissions(job, tx[p].att, {"COMPLETED"}),
                        ![p].pc = "insert"]
    /\ UNCHANGED <<job, finished, over, result, work, faults>>

\* coding_submissions: the judged ones.
Score(p) ==
    /\ At(p, "score")
    /\ tx' = [tx EXCEPT ![p].counted = Submissions(View(p), tx[p].att, {"COMPLETED"}),
                        ![p].pc = "insert"]
    /\ UNCHANGED <<job, finished, over, result, work, faults>>

\* Somebody else's result of a is committed: the insert violates its unique constraint.
HasWinner(a) == result[a] # None

InsertResult(p) ==
    LET a == tx[p].att IN
    /\ At(p, "insert")
    /\ \A o \in Procs \ {p} : tx[o].res[a] = None
    /\ tx' = [tx EXCEPT ![p].res[a] = IF HasWinner(a) THEN @ ELSE tx[p].counted,
                        ![p].counted = {},
                        ![p].pc = After(p)]
    /\ UNCHANGED <<job, finished, over, result, work, faults>>

-----------------------------------------------------------------------------
(* Runners *)

\* Mutant: a job is not taken over when its lease runs out.
WaitingQueued(w) ==
    {j \in Rows(View(w)) : View(w)[j].status = "QUEUED" /\ Unlocked(w, j)}

\* Jobs the claim query may return: waiting, or left by a runner whose lease ran out.
Waiting(w) ==
    {j \in Rows(View(w)) :
        LET r == View(w)[j] IN
        /\ r.status = "QUEUED" \/ (r.status = "RUNNING" /\ r.lease = 0)
        /\ Unlocked(w, j)}

Claiming(w) == At(w, "claim") \/ (At(w, "idle") /\ work[w] = None)
TriesLeft(w) == IF At(w, "claim") THEN tx[w].tries ELSE ClaimTries

Exhausted(j) == job[j].claims >= MaxClaims

\* claim() hands out the oldest waiting job.
Claim(w, j) ==
    /\ Claiming(w)
    /\ TriesLeft(w) > 0
    /\ j \in Oldest(Waiting(w))
    /\ ~Exhausted(j)
    /\ tx' = [tx EXCEPT ![w].pc = "commit", ![w].op = "claim", ![w].tries = 0,
                        ![w].rows[j] = [job[j] EXCEPT !.status = "RUNNING", !.worker = w,
                                                      !.lease = Lease, !.claims = @ + 1]]
    /\ UNCHANGED <<job, finished, over, result, work, faults>>

\* A row that _finish_failed wrote, and the transaction after it.
Judged(r, status) == [r EXCEPT !.status = status, !.lease = 0]
EvaluateIfSubmit(j, t) ==
    [t EXCEPT !.pc = IF job[j].kind = "SUBMIT" THEN "consider" ELSE @,
              !.att = IF job[j].kind = "SUBMIT" THEN job[j].att ELSE @]

\* claim() gives up a job claimed too often and looks at the next one.
GiveUp(w, j) ==
    /\ Claiming(w)
    /\ TriesLeft(w) > 0
    /\ j \in Oldest(Waiting(w))
    /\ Exhausted(j)
    /\ tx' = [tx EXCEPT ![w] =
                EvaluateIfSubmit(j,
                    [@ EXCEPT !.pc = "claim", !.op = "claim", !.tries = TriesLeft(w) - 1,
                              !.rows[j] = Judged(job[j], "FAILED")])]
    /\ UNCHANGED <<job, finished, over, result, work, faults>>

\* Nothing (more) to hand out: 204.
NoJob(w) ==
    /\ At(w, "claim")
    /\ Waiting(w) = {} \/ tx[w].tries = 0
    /\ tx' = [tx EXCEPT ![w].pc = "commit", ![w].tries = 0]
    /\ UNCHANGED <<job, finished, over, result, work, faults>>

\* Mutant: a report is accepted as long as the job is not finished.
HeldByAnyone(j, w) == job[j].status = "RUNNING"

\* _running: the job is RUNNING and claimed_by this runner.
HeldBy(j, w) == job[j].status = "RUNNING" /\ job[j].worker = w

\* complete() with a judged report or an error, or fail().
Report(w, status) ==
    /\ At(w, "idle")
    /\ work[w] # None
    /\ LET j == work[w].job IN
       /\ status = "FAILED" \/ work[w].call = "result"
       /\ Unlocked(w, j)
       /\ HeldBy(j, w)
       /\ tx' = [tx EXCEPT ![w] =
                   EvaluateIfSubmit(j,
                       [NoTx EXCEPT !.pc = "commit", !.op = "report",
                                    !.rows[j] = Judged(job[j], status)])]
    /\ UNCHANGED <<job, finished, over, result, work, faults>>

\* 409: the job is not held by this runner any more.
Refused(w) ==
    /\ At(w, "idle")
    /\ work[w] # None
    /\ Unlocked(w, work[w].job)
    /\ ~HeldBy(work[w].job, w)
    /\ work' = [work EXCEPT ![w] = None]
    /\ UNCHANGED <<job, finished, over, result, tx, faults>>

-----------------------------------------------------------------------------
(* The end of a transaction, and failures *)

\* The job the response to a claim carries, if any.
Answered(w) ==
    LET jobs == {j \in Jobs : tx[w].rows[j] # None /\ tx[w].rows[j].status = "RUNNING"}
    IN  IF tx[w].op = "claim" /\ jobs # {}
        THEN [job |-> CHOOSE j \in jobs : TRUE, call |-> "result"]
        ELSE None

Commit(p) ==
    /\ At(p, "commit")
    /\ job' = View(p)
    /\ result' = [a \in Attempts |-> IF tx[p].res[a] # None THEN tx[p].res[a] ELSE result[a]]
    /\ finished' = Ended(p)
    /\ over' = [a \in Attempts |->
                  IF a \in finished' \ finished /\ over[a] < 0 THEN 0 ELSE over[a]]
    /\ work' = IF p \in Workers THEN [work EXCEPT ![p] = Answered(p)] ELSE work
    /\ tx' = [tx EXCEPT ![p] = NoTx]
    /\ UNCHANGED faults

\* A result call that raised is followed by a fail call; a call answered with an error is not.
OwesFailure(p, answer) ==
    work' = IF p \in Workers
            THEN [work EXCEPT ![p] =
                    IF answer = "raised" /\ @ # None /\ @.call = "result"
                    THEN [@ EXCEPT !.call = "fail"] ELSE None]
            ELSE work

Rollback(p) ==
    /\ tx' = [tx EXCEPT ![p] = NoTx]
    /\ UNCHANGED <<job, finished, over, result>>

\* The process or the connection dies, or the handler raises.
Crash(p, answer) ==
    /\ ~At(p, "idle")
    /\ faults < MaxFaults
    /\ faults' = faults + 1
    /\ Rollback(p)
    /\ OwesFailure(p, answer)

\* The runner restarts, or the response to its claim is lost.
Restart(w) ==
    /\ At(w, "idle")
    /\ work[w] # None
    /\ faults < MaxFaults
    /\ faults' = faults + 1
    /\ work' = [work EXCEPT ![w] = None]
    /\ UNCHANGED <<job, finished, over, result, tx>>

\* p waits for a row that o wrote and has not committed.
WaitsFor(p, o) ==
    \/ (At(p, "fail") /\ \E j \in Oldest(tx[p].pend) : tx[o].rows[j] # None)
    \/ (At(p, "insert") /\ tx[o].res[tx[p].att] # None)

\* PostgreSQL aborts one transaction of a cycle; the server answers with an error.
DeadlockVictim(p) ==
    /\ \E Q \in SUBSET Procs :
        /\ p \in Q
        /\ \A x \in Q : \E y, z \in Q \ {x} : WaitsFor(x, y) /\ WaitsFor(z, x)
    /\ Rollback(p)
    /\ OwesFailure(p, "error")
    /\ UNCHANGED faults

-----------------------------------------------------------------------------
Evaluate(p) ==
    \/ Leave(p)
    \/ Consider(p)
    \/ \E j \in Jobs : FailPending(p, j)
    \/ Score(p)
    \/ InsertResult(p)

\* One iteration of claim() that finds a job.
Look(w) == \E j \in Jobs : Claim(w, j) \/ GiveUp(w, j)

\* What the server and PostgreSQL do by themselves once a request is running.
Serve(p) ==
    \/ Evaluate(p)
    \/ Commit(p)
    \/ DeadlockVictim(p)
    \/ (p \in Workers /\ At(p, "claim") /\ (Look(p) \/ NoJob(p)))

Ask(c, a) ==
    \/ \E q \in Questions, kind \in Kinds, key \in Keys \cup {None}, j \in Jobs :
            Request(c, a, q, kind, key, j)
    \/ Finish(c, a)
    \/ ReadResult(c, a)

Poll(w) == At(w, "idle") /\ Look(w)

Answer(w) ==
    \/ \E status \in {"COMPLETED", "FAILED"} : Report(w, status)
    \/ Refused(w)

Next ==
    \/ Tick
    \/ \E c \in Clients, a \in Attempts : Ask(c, a)
    \/ \E p \in Procs : Serve(p)
    \/ \E w \in Workers : Poll(w) \/ Answer(w) \/ Restart(w)
    \/ \E p \in Procs, answer \in {"raised", "error"} : Crash(p, answer)

Spec == Init /\ [][Next]_vars

(***************************************************************************)
(* Fairness.  The server finishes the requests it started, and the app     *)
(* asks for a result it does not have every four seconds (useResults.ts).  *)
(* A runner polls, and reports the job it works on, unless it is restarted.*)
(* PostgreSQL gives a released row to a transaction that waits for it:     *)
(* strong fairness, without which deadlocks could be repeated for ever.    *)
(***************************************************************************)
ServerFairness ==
    /\ WF_vars(Tick)
    /\ \A p \in Procs : WF_vars(Serve(p)) /\ SF_vars(\E j \in Jobs : FailPending(p, j))
    /\ \A a \in Attempts : WF_vars(\E c \in Clients : ReadResult(c, a))

RunnerFairness == \A w \in Workers : WF_vars(Poll(w)) /\ WF_vars(Answer(w))

\* Runners may stop for good.
ServerSpec == Spec /\ ServerFairness

FairSpec == ServerSpec /\ RunnerFairness

-----------------------------------------------------------------------------
(* Properties *)

\* Every variable has its type.
TypeOK ==
    /\ job \in [Jobs -> JobRow \cup {None}]
    /\ finished \subseteq Attempts
    /\ over \in [Attempts -> -Duration..EvalWait]
    /\ result \in [Attempts -> {None} \cup SUBSET Jobs]
    /\ work \in [Workers -> Work \cup {None}]
    /\ tx \in [Procs -> Tx]
    /\ faults \in 0..MaxFaults

\* Whatever requests of one attempt run at the same time, it has one unfinished job per
\* question and MaxInFlight in all (_guard under the lock of _context).
InFlightBounded ==
    \A a \in Attempts :
        /\ Cardinality(InFlightOf(a)) <= MaxInFlight
        /\ \A i, j \in InFlightOf(a) : job[i].ques = job[j].ques => i = j

\* The submission limit of a question and the rates and the limit of an attempt hold for the
\* rows that exist, not only for those a request happened to see.
QuotasHold ==
    \A a \in Attempts :
        /\ Cardinality(OfKind(a, "RUN")) <= MaxRuns
        /\ \A kind \in Kinds : Cardinality(Recent(a, kind)) <= RateOf(kind)
        /\ \A q \in Questions :
              Cardinality({j \in OfKind(a, "SUBMIT") : job[j].ques = q}) <= MaxSubmissions

\* A request sent again after its response was lost makes no second job.
OneJobPerKey ==
    \A i, j \in Rows(job) :
        job[i].key # None /\ job[i].key = job[j].key /\ job[i].att = job[j].att => i = j

\* The limits of an attempt and the keys of its requests hold for the rows that exist, whatever
\* requests of it run at the same time (_guard, _existing).
LimitsHold == InFlightBounded /\ QuotasHold /\ OneJobPerKey

\* No row is added to an attempt once it is finished: what ensure_result waits for only shrinks.
NoJobAfterFinish ==
    [][\A j \in Jobs : job[j] = None /\ job'[j] # None => job'[j].att \notin finished]_vars

\* A verdict comes from the runner that holds the job, from the check in _running to the
\* commit, although a lease may run out and another runner claim the job in between.
ReportedByHolder ==
    \A w \in Workers, j \in Jobs :
        tx[w].rows[j] # None /\ tx[w].rows[j].status = "COMPLETED" =>
            job[j].status = "RUNNING" /\ job[j].worker = w

\* A runner loses its job only when its lease has run out (claim's condition).
LeaseRespected ==
    [][\A j \in Jobs :
        job[j] # None /\ job[j].status = "RUNNING" /\ job'[j].status \in InFlight
            /\ job'[j].claims # job[j].claims => job[j].lease = 0]_vars

\* A finished job is not run again, and one failed as a system error gets no verdict.
FinishedStays ==
    [][\A j \in Jobs : job[j] # None /\ job[j].status \notin InFlight =>
        job'[j].status \in {job[j].status, "FAILED"}]_vars

\* A result exists only when no submission of its attempt can still be judged.
ResultWaits ==
    \A a \in Attempts : result[a] # None => Submissions(job, a, InFlight) = {}

\* Every submission that has a verdict is in the result of its attempt.
JudgedIsCounted ==
    \A a \in Attempts : result[a] # None =>
        Submissions(job, a, {"COMPLETED"}) \subseteq result[a]

\* A result is never recalculated: the loser of a race keeps the winner's row.
ResultKept ==
    [][\A a \in Attempts : result[a] # None => result'[a] = result[a]]_vars

\* With every runner gone, a finished attempt still gets its result: the app's polling fails
\* what is pending after EVALUATION_WAIT.
ResultProduced == \A a \in Attempts : a \in finished ~> result[a] # None

\* While runners run, every job ends: leases run out and claims are bounded.
JobsFinish ==
    RunnerFairness => \A j \in Jobs : job[j] # None ~> job[j] # None /\ job[j].status \notin InFlight

\* docs/CODING-ASSESSMENT-PLAN.md: a submission failed as a system error is not in the result.
SystemErrorNotCounted ==
    \A a \in Attempts : result[a] # None =>
        \A j \in result[a] : job[j].status # "FAILED"
=============================================================================
