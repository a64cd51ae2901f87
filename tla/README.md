# A TLA+ verification of AssessX

AssessX runs proctored online exams: candidates sit an exam in a desktop app, administrators
watch and control it live, coding answers are judged by a runner, and results are produced the
moment an attempt ends. This directory holds TLA+ models of the parts of it where
concurrency, time and failure decide whether that is correct, the TLC configurations that check
them on small instances, and TLAPS proofs of theorems that hold for every instance.

## Inventory

Paths are under `src/backend/app/` unless they start otherwise.

| Part | State it keeps | Operations | Interacts with |
| --- | --- | --- | --- |
| Exam attempts (`services/attempts.py`) | the attempt row (status, deadline, owner), answers, selections | start or resume, read with the clock applied, save an answer, submit, expire | every other part; PostgreSQL row locks |
| Exam control (`services/attempt_control.py`) | hold, tab-switch count, messages on the attempt row | hold, release, end, message, count a tab switch | locks the attempt row |
| Proctoring sessions (`services/proctoring.py`) | session status, device states | open, activate, end, device state, event | ends with its attempt, records events |
| Proctoring events (`services/proctoring_events.py`) | an append-only log, client event ids, AI episodes | record from the client or the server | focus reports count tab switches |
| Evaluation (`services/evaluation.py`, `results.py`) | one result row per attempt | score, ensure a result exists | called by whoever finishes an attempt, by reports of runners and by readers |
| Code execution (`services/coding/execution.py`, `src/runner/`) | job rows: status, claim, lease | request run or submission, claim, report, fail, validate a problem version | the runner polls over HTTP; a report may produce a result |
| Coding drafts and problems (`services/coding/`) | drafts with a revision, problem versions | save, restore, validate | execution, the candidate's editor |
| Evidence clips, secondary camera (`services/evidence_clips/`, `secondary_camera.py`) | clip rows and files, pairings | request, upload, fail, delete; pair, replace | proctoring events, retention |
| Live monitoring and calls (`realtime/`, `services/monitoring.py`) | sockets, subscriptions, calls | publish, offer, answer, hang up | administrators' consoles |
| Interviews (`services/interview/`) | session, questions, answers, report | start, answer, adapt, finish, review | an external language model |
| Review and risk (`services/review/`, `services/risk/`) | cases, decisions, computed risk | open, decide, revise; fold the event log | proctoring events, results |
| Sign-in (`services/auth.py`, `mfa.py`, `challenges.py`) | sessions, passwords, reset codes, challenges, throttles | sign in and out, change or reset a password, deactivate, step up | every request |
| Web sockets (`realtime/security.py`, `api/v1/ws.py`) | tickets, slots of a user, the guard of each socket | issue and redeem a ticket, admit, check again, close | sign-in, live monitoring, calls |
| Assessments (`services/assessments.py`, `assignments.py`) | exams, questions, assignments | write, publish, assign, archive, delete | attempts, problem library |
| Audit and security events (`audit_chain.py`, `services/security_events.py`) | hash chain; events, alerts | append, verify; record, evaluate, acknowledge, purge | whatever is audited, every refused request |
| Retention (`services/retention.py`) | nothing of its own | delete what is too old, miss the backup | evidence, events, sign-ins |
| Desktop app, web site, infrastructure (`src/apps/`, `src/infrastructure/`) | screens, retry queues | polling, reporting, backups | HTTP API |

Each HTTP request is one transaction at READ COMMITTED: `core/database.py` commits just before
the response starts and rolls back on any exception. Two requests interact through the rows they
lock, the unique indexes they insert into and what they read before the other commits. There is
no scheduler and no worker on the server: everything that time should do (expiry, evaluation
after the wait, reclaiming a job) is done by the next request that looks.

What is hard, and the property each part must have:

* several requests finish one attempt at once, on rows read before the lock: finishing must be
  whole, decided once, and fix one result;
* checks made on an unlocked read and used after it: answers must not change once the attempt is
  finished or held, nor exist before the devices were confirmed;
* reports and requests that are retried: no second tab switch, no second job;
* limits counted over committed rows: they must hold for the rows that exist;
* leases that run out under a runner that is still working: one verdict, from the holder;
* a finish, a report and a reader that evaluate the same attempt: no judged submission is lost
  and the result appears;
* administrators' requests that decide on rows another one is changing: papers, published versions
  and reviews must stay what candidates and decisions rest on;
* two windows, or a page and its own late answers: no code is lost that nobody saw, and the page
  does not call stored what is not;
* a store of files beside the database, and sockets that end later than they seem to: no video that
  nobody knows of, no camera sent to nobody;
* what is derived from rows (risk, marks, the audit chain): it must be what it is described as,
  whatever order the rows came in;
* sessions, sockets and alerts that follow from a row another request is changing: no session
  outlives a password that was replaced, no socket its session, and no burst of refusals goes without its alert;
* crashes of a transaction, a runner or a connection at any point: nothing is half done, nothing
  waits for ever.

## Modules

| Module | What it is |
| --- | --- |
| `ExamAttempt`, `MCExamAttempt` | one attempt under concurrent requests: read, save, submit, expire, hold, release, end, activate, focus reports, crashes |
| `AttemptLifecycle` | the abstract attempt: open, held, finished in one irrevocable step; no transactions |
| `AttemptStart` | the attempts of one candidate at one assessment: starting or resuming, and the sign-in that owns one |
| `SignIn` | one candidate's sessions, passwords and reset codes, and what ends them |
| `SocketAccess` | the web sockets of one user: tickets, slots, and the guard that looks at the session again |
| `SecurityEvents` | security events, the rules that raise alerts, acknowledgement, purge and the missing backup |
| `CodeJobs`, `MCCodeJobs` | the execution queue and the evaluation of coding submissions: requests, claims, leases, reports, faults, deadlocks |
| `Scoring` | what a report and an attempt are worth: the judge, marks, totals, analytics and the candidate's progress, as operators over the rows |
| `DraftState`, `CodeDrafts` | the code of one question in two windows: revisions, autosave, local backup |
| `ProblemLibrary` | the versions of a coding problem: edit, validate, publish, copy, pin, delete |
| `ExamAuthoring` | writing, publishing, assigning and archiving an exam while a candidate starts it |
| `AuditChain` | the audit log, its hash chain and what a tampered row does to it |
| `AttemptReview` | the review of an attempt with its audit records, on `AuditChain` |
| `EvidenceClips` | clip rows and video files: decision, upload, reading, deletion, retention, purge |
| `RiskEngine` | signals, windows, score, episodes and evidence items, as operators over the event log |
| `EventPipeline` | from the app's queue of reports to the log, on `RiskEngine` |
| `InterviewSession` | one interview: start, answers, evaluation runs, adaption, follow-ups, deadline, completion |
| `InterviewPaper`, `InterviewAuthoring` | questions, publication and assignment of an interview, and the paper a session gets |
| `InterviewReview`, `MCInterviewReview` | the human review beside a running interview, on `InterviewSession` |
| `InterviewCalls`, `MCInterviewCalls` | the video call of a live interview: sockets, sides, negotiation |
| `LiveMonitoring` | the live video of one candidate for one administrator |
| `ExamClient` | the exam page: answer queue, clock, hold, submission |
| `AccountAccess`, `CodingQuestion`, `CodingResult`, `AIInterview`, `Administration`, `Evidence`, `DesktopApp`, `Liveness` | compositions that TLC runs: parts that share no state stand side by side and a constant of the behaviour, `scene`, says which runs |
| `ExamAttemptProofs`, `AccountAccessProofs`, `CodeJobsProofs`, `CodeDraftsProofs`, `EvidenceProofs`, `InterviewProofs`, `AdministrationProofs`, `DesktopAppProofs` | theorems |

The models overlap where the code does: an attempt that `AttemptStart` opens is the one
`ExamAttempt` follows to its end; `Finish` of `CodeJobs` is the moment at which that model commits
it, seen by the coding jobs; `Scoring` says what the set of submissions that `CodeJobs` counts is
worth; `ExamClient` takes the server of `ExamAttempt` as one step per request, and the hold on
clips in `EvidenceClips` is the review of `AttemptReview`.

### ExamAttempt

`att` is the row of `assessment_attempts`, `session` the proctoring session's status, `events`
the client event ids in the log, `row` and `sel` the answers and their selections, `result` the
set of questions marked correct. `rowLock` is the holder of the row's `FOR UPDATE` lock,
`keyShare` the inserts that lock it through a foreign key, `creator` an uncommitted answer row.
`tx[r]` is the transaction of request `r`: where it stands, the row as it read it, and what it is
about to write.

A request is cut where another transaction can get in between. `Read` is an unlocked read of the
attempt and `Lock` the `SELECT ... FOR UPDATE`. `Expire` and `Finish` are the first UPDATE of a
finishing request, which waits for the row; `EnsureResult` is the scoring and `CommitFinish` the
commit, in which status, session and result appear together. `LoadAnswer` and `CommitSave` are the
two halves of `save_answer`. `Hold`, `Release`, `Activate` and `FocusRegained` lock, check and
commit. `Crash` rolls any request back. An unlocked request that finishes writes over the row it
finds, with the values of the row it read: that is `settle` on the polling route, and why
`OutcomeDecidedOnce` fails (Findings).

The model has objective questions, one sign-in session (so the ownership rule writes nothing), and
one attempt.

### CodeJobs

`job[j]` is a row of `code_executions`, the smaller `j` the older; `finished`, `over` and `result`
are what evaluation reads of an attempt; `work[w]` is the job runner `w` works on and the call it
owes for it. `tx[p].rows` and `tx[p].res` are the rows a transaction wrote, invisible to the
others and locked until `Commit`. `View(p)` is what `p` reads: its own writes over the committed
ones.

`Request` is `request_run` and `request_submit` with `_context`, `_existing` and `_guard`, under
the attempt's lock. `Finish` is the submission or the expiry, `ReadResult` the result route; both,
and every report or given-up job of a submission, run `ensure_result`, which is the steps `Leave`
(nothing to do), `Consider`, `FailPending` (one UPDATE, waiting for the row's lock and then
overwriting), `Score` and `InsertResult` (waiting for a concurrent insert, keeping a committed
winner). `Claim`, `GiveUp` and `NoJob` are the iterations of `claim`, with `SKIP LOCKED`. `Report`
is `complete` and `fail`; `Refused` the 409. `Crash`, `Restart` and `DeadlockVictim` are lost
transactions, lost runners and PostgreSQL's way out of a cycle of waits; after a result call that
raised, the worker owes a `fail` call, as `worker.py` does.

Time is relative. `over[a]` counts up to the end of `a`'s time and on to `EvalWait`, a lease counts
down to 0 (run out), an age up to just past `RateWindow`. So the state space is finite with time
always able to pass, and liveness is checked without a last instant.

Not in this model: the hold (it only refuses requests), a second finisher of the same attempt (in
`ExamAttempt`; its `ensure_result` finds the result), validation jobs (`ProblemLibrary`), and what a
verdict is worth (`Scoring`): here a result is the set of submissions it counts.

### AttemptStart

`rows` are the committed attempts, oldest first, with the columns that starting and owning depend
on (`owner` is `auth_session_id`, `seen` is `bound_seen_at`); `valid` are the sign-ins that have not
ended. `tx[r].read` is the row as request `r` read it and `tx[r].img` as it has changed it:
SQLAlchemy's UPDATE writes the columns in which they differ (`Merge`), so that a stale image does
not undo what it did not touch.

`Start` looks for the open attempt. If there is one, `Settle` or `Claim` follow, as they do for
`Access`, which is every other request for an attempt: reading (no lock) or submitting
(`FOR UPDATE`). If there is none, or it has just expired, `NotStartable`, `CountAttempts` and
`Insert` follow, each with what is committed by then. `Insert` waits for uncommitted rows that a
unique index has to know of; a `Duplicate` leads to `ResumeWinner`, or to `NoWinner` when the other
attempt is over already. `InUseElsewhere` is the refusal of a second sign-in. A refused request
commits too.

Not in this model: the hold, which makes a submission commit without finishing (`Submit` allows it
at any time), opening the proctoring session (same savepoint, same transaction) and the audit rows.
One sign-in stays valid: with none there are no requests.

### SignIn

`account` is the candidate's row, with its passwords numbered in the order they were set: `password`
is the one the stored hash is of, `last`, a ghost, the one set last, and `outdated` says that the
hash has the parameters of an earlier version. `session[s]` and `code[c]` the rows of a session and of a reset code. `req[r]` is a transaction: it
reads what it decides on (`SignIn`, `BySession`, `Everywhere`, `Redeem`, `Issue`, `SetActive`),
takes the row lock if it writes that row (`Lock`, which also lists the sessions it ends), and
commits or is rolled back. A sign-in that reads an outdated hash is a `"rehash"`: it locks the row
and writes the hash of the password it verified, over whatever was committed since its read
(`services/auth.py:159-160`). `Upgrade` is a server with new hash parameters taking over. `Written` and `WrittenCode` are the columns a commit writes.

A sign-in verifies the password on a row that it does not lock, so a change that commits beside it
does not see its session. The ghost `beside` marks these sessions, and codes that were issued at the
same time; `AccessFollows` is about all others. A rehash beside a change or a reset undoes it: the
stored password is the earlier one again (`LastSetStands`, Findings), while the session that set the
new one lives on. So `AccessFollows` promises a live session the account's password or the one set
last. Throttles, the security check, challenges and MFA are left out: they refuse a request before
it starts, or change no row that the property is about.

### SocketAccess

`ticket[s]` says whether there is a ticket of session `s` and whether this process has spent it,
`socket[k]` where the handler of connection `k` stands, `slots` how many the user holds. A handler
runs from one `await` to the next: `Connect` redeems and admits, `Accept` greets, `Check` is the
guard's look at the session, `Leave` the end of the loop. Time is relative: `due` counts down to the
next check, and `late`, a ghost, counts how long a socket has been open without its session.

A handler that ends between its admission and the `try` block keeps its slot until the process
restarts (`AcceptFails`), so slots may exceed open sockets: the limit errs on the side of refusing. A
socket of the legacy token has no session to be checked against.

### SecurityEvents

`events` and `alerts` are the committed rows, `rec[p]` the transaction in which `p` records an event:
flush (`Record`), then for each rule in turn the count (`CountEvents`) and the look for a recent
alert (`Raise`), then the commit. `ack[a]` is an alert as an administrator's request read it,
`trail` the audit records, `backup` the heartbeat and `cutoff` how far back the last purge reached.

Two threads that record at the same time do not see each other's events. The ghost `beside` of an
event names these; `Answered` counts without them, and `Spaced` allows two alerts between them.
The rules of the run have one of each kind: distinct subjects, events of one subject, any event of
the backup. Several dimensions of grouping (address and account) are one set of subjects. The
delivery of alerts and the lists of the console are left out.

### Scoring

The rows of a finished attempt are chosen at the start and judged one report at a time
(`Judge` is `judge` with the limits, the outputs and the status the runner may claim). Everything
else is computed from them, as in the code: `ScoreAttempt` the result, `AnalyticsBest` what
administrators see, `Progress` what the candidate sees. `ScoredByDefinition` compares all of them
with a definition that never chooses a best submission: marks are the largest that any counted
submission reaches, rounded down.

### CodeDrafts

`draft` is the row with its revision, `backup` the entry in local storage, `page[p]` one mount of
the hook `useCodingQuestion`: what it shows, what it believes is stored, and the save under way.
A text is a number, so that a text typed later is a larger one. `Read` and
`ReceiveRead` are the two ends of loading, `Save` is the server's side of a save (a stale revision
is refused), `Stored`, `Refused` and `Fail` its answer, `Leave` and `Die` end a page, which another
visit may follow while a save is still on its way; `Lock` is the end of the attempt.

### ProblemLibrary, ExamAuthoring and InterviewAuthoring

These services read rows without locks, decide, flush and commit later, so a request is two steps.
`open` (or `tx`) is the requests in between; what they flushed makes others wait only where they
write the same row. Ghost fields (`crossed`, `overlapped`) record that a request was decided on
rows another one was changing: the invariants say what holds without such an overlap, and the
findings what happens with one. In `ProblemLibrary` a solution stands for every field of a
version, an expected output for its tests; in `InterviewAuthoring` a question has a topic, a type
and a difficulty, and the plan of a session is the first `question_count` eligible questions.

### AuditChain and AttemptReview

A record's hash is modelled by what it is computed from: the contents of all rows up to it, which
assumes that SHA-256 does not collide. The trigger takes an advisory lock for the rest of the
transaction, `pending` is the row of the transaction that has it. `AttemptReview` inserts every
record through `AuditChain`; a request reads under its locks, inserts its record and commits, with
the attempt reporting events and a rollback possible at any point.

### EvidenceClips

Rows are transactional, the store is not: a put or a delete of a video counts at once and is not
undone. `req[r]` is a request in progress and what it has not committed; the actions follow the code from
the read of the newest clip over put, row and commit to the file that a failed request leaves
behind. The maintenance run (`MaintenanceStarts` to `MaintenanceCommits`)
closes overdue clips, deletes videos past retention unless a review holds them, and purges an
old attempt. Audit records, and the savepoint around the clip decision,
are left out; `ReadClip` stands for showing, playing and verifying a clip.

### RiskEngine and EventPipeline

`queue` is the app's queue, of limited length, `wire` the one request on its way, `log` the rows.
The server recognises a client event id, folds a repeat of the newest row of its type, and keeps
the episodes of observations; the deadline ends the session with the attempt, on whichever request
comes first. The score is exact in the model: points are multiples of four and halve per tick, so
`RiskByDefinition` can compare the single pass of the engine with the sum it is described as.
Device events, AI status, metadata validation and risk bands are left out.

### InterviewSession and InterviewReview

`sess` is the session's row, `items` and `evals` its questions and evaluations, `run[r]` what a
background thread does between its claim and its record, `win[w]` the candidate's request that
the server has begun to handle: the code reads the clock first and takes the row's lock later. An evaluation is a
signal (strong, weak, follow-up worthy); texts and prompts are left out. `InterviewReview` adds
administrators: looking at the report, which they may do long before they decide, and deciding
under the locks.

### InterviewCalls and LiveMonitoring

The server is one event loop, so a message is handled in one step; a socket keeps the order of its
messages and may break, which the server notices later than the client. Offers and answers carry
the number of their negotiation. The watchdog of a side fires only when nothing is under way that
could still connect it (`Calm`), which is what its timeout of several seconds stands for. ICE,
media state, chat and notes are left out; tickets are in `SocketAccess`.

### ExamClient

The server handles a request in one step; requests of the page overtake each other in the slots
that carry them. `mine` is a ghost: the paper on screen sent this answer and has not given it up.
The page follows the server through three reads (attempt, clock, session), each of which may be stale
when it arrives.

`over` is a history variable, written by `Watch` beside every action: whether the candidate has seen
the end of the exam, on this start of the app or an earlier one, and whether that screen has given way
to a failed reload while an answer from before the end was still to come (`"crossed"`). `EndIsKept`
says that the paper does not come back in any state after the end was seen, short of that crossing;
`NeverBackToPaper` says it without the exception, and does not hold (Findings).

## Runs

| Run | Shows | Bounds |
| --- | --- | --- |
| `exam` | finishing is whole; the attempt implements `AttemptLifecycle`, where finishing is one irrevocable step | three requests of any kind, a save, two reports against a limit of one, one crash, the deadline |
| `coding_question` | the limits of concurrent requests hold for the rows that exist, a retried key makes no second job; what a page shows as saved is stored, and a save replaces only code that was shown | one attempt, three questions, two requests, one key, three jobs against two in flight; two pages, three edits, four saves, one failure |
| `jobs_result` | verdicts come from the holder of a job, a result waits for and counts what is judged, and is worth what its definition says | two submissions, two runners, two other requests, two claims per job, one fault; two judged submissions of two tests with weights 1 and 2, an objective question with two options |
| `account_access` | one attempt is open, no stale write reopens one; a live session is of the account's password or the one set last, and of an active user, one reset code is open, sockets keep to the limit and end within an interval of their session; alerts answer the events | two requests, two sign-ins, two attempts, an exam of two ticks, an owner silent after one; two codes, a change of the password; three sockets for two slots, a check every two ticks; two subjects, two events, three hours, a rule of each kind |
| `interview_paper` | every session sees the published paper; each question was asked for the reason it records | one candidate, two requests, two topics, two edits; two questions, three levels, a follow-up, one run at a time, one crash |
| `interview_review` | the figures of a decision stand, nobody decides over a decision they have not seen | one question and its follow-up, two runs of one evaluation, one administrator, two decisions |
| `evidence` | one video per clip, clips are spaced, a review holds its videos; order, identity, risk and the evidence of events | two clip events, two requests, a crash, two ticks; three reports of three kinds, a queue of two, a broken connection or a restart, the deadline at tick two |
| `administration` | the audit chain verifies and replays to the review, decisions follow each other; the paper of an exam is well formed and settles; a validation is of the version as it stands, a published version stays | two administrators, six records, two events; three questions, one candidate; two versions, one job, two edits, two requests at once |
| `liveness` | a result, an end of every job, an end of every attempt out of time, a next question after every answer | two submissions and one runner with a fault; two requests and a crash; one question and its follow-up |
| `interview_calls` | whoever reconnects or is replaced, each side knows whether the other is there, and both see each other or were told that video failed | one candidate, two administrators, two sockets each and three connects, two offers of two attempts, one failure |
| `desktop_app` | what is shown as saved is stored, the end of an exam is heard, and once seen the paper does not come back; video comes back, a camera is not sent to nobody, presence is the candidate's socket | two calls in flight, two selections, one hold, one failure, one retry; two sockets a side, one view, two offers, one fault |
| `nothing_lost` (violation) | a disagreement with a comment; see Findings | three focus reports in one window |

Why these bounds. Two requests show every race of two transactions, and a request that has ended
starts again, so that a start can be overtaken by another one's start *and* finish; `exam` has
three so that a third transaction reads what two racing ones left. Two submissions are needed for
a deadlock of two evaluations and for a choice of the best one; two attempts for a number that is
taken by an attempt already over; two clips for a cooldown; three reports for a fold that spans a
return; two sockets a side for an old one whose end arrives after the new one's start. Counters of
failures, crashes, restarts and edits are bounds of the model (`MaxFaults`, `MaxCrashes`, ...); no
property depends on their number, and the theorems hold for any. Interchangeable values are
symmetry sets in runs without liveness. Runs whose behaviour ends at a bound (a number of edits,
connects or reports used up) have `CHECK_DEADLOCK FALSE`; `exam` and `jobs_result` can always
go on, and are checked for deadlock.

### Fairness

Only `liveness` states fairness, for each scene its own.

* Exam: the clock runs, a started request goes on, and the app keeps polling (`useExamClock.ts`
  asks again while the exam screen is open). Nothing else on the server finishes an attempt.
* Jobs: the server carries on what it started, and somebody keeps asking for a result that is
  missing. The app asks every four seconds while it is told "being evaluated" (`useResults.ts`);
  after an error it stops, and it is then the candidate opening the result again, or an
  administrator listing the results, on whom this rests. `JobsFinish` is conditional: if runners
  poll and report, every job ends. `FailPending` is strongly fair: PostgreSQL hands a released row
  to a transaction that waits for it. With weak fairness alone TLC finds two evaluations that
  deadlock again and again while a third waits.
* Interview: the page reads the state again while the session is ACTIVE (strongly fair, because a
  submission in between may occupy the page) and the server handles what arrived. Nothing is
  assumed of the evaluator: a question is followed by the next one or the end even if no
  evaluation ever returns.

## Findings

With a run:

* `NothingLost`: `useEventReporter.ts:51-52` says that nothing is lost to a dropped connection,
  but the server compares a report with the newest one of its type by the time it *arrives*
  (`proctoring_events.py:432`). A departure, a return and a second departure that were queued
  reach it within one window, the third is folded into the first, and the evidence ends with the
  candidate back.

Found with TLC while modelling. The definitions are in the modules, each with its comment; the
runs are given to what holds.

* `OutcomeDecidedOnce` (`ExamAttempt`): the polling route reads the attempt without a lock
  (`services/attempts.py:216`), and its expiry overwrites a submission committed meanwhile
  (`repositories/attempts.py:39`).
* `AnswersFrozenAtFinish`, `OneSelection` (`ExamAttempt`): `save_answer` checks the status on an
  unlocked read, so an answer can change after the attempt was scored; two saves delete the
  selections they read and both insert.
* `SystemErrorNotCounted` (`CodeJobs`): at the end of the evaluation wait a submission completed
  meanwhile is turned into a system error while the result counts it.
* `LastSetStands` (`SignIn`): a sign-in reads the user without a lock, and if the stored hash has the
  parameters of an earlier version it writes the hash of the password it verified
  (`services/auth.py:159-160`). A change or a reset that commits in between is overwritten: the old
  password is stored again, although `change_password` and `redeem_reset_code` say that they set a
  new one (`services/auth.py:276`, `:344`).
* `NeverBackToPaper` (`ExamClient`): `useExam.ts:106-111` says that a response read before the
  submission must not put the candidate back on the exam, but a reload that fails replaces the
  finished attempt by an error without a look at it (`useExam.ts:135-138`), and `keepFinished` then
  has nothing to keep. TLC's trace (three calls, two failures): a submission fails, and the reload
  this causes is answered before the end; a second submission is accepted, a refused save asks for
  another reload, the end is shown, that reload fails, and the first one arrives.
* `StartResumes` (`AttemptStart`): of two starts that found no open attempt, the second counts the
  first one's and is told that the attempts are used up, although it should have resumed; with one
  attempt allowed (the default) a double click can end like this.
* `OneBest` (`Scoring`): the candidate's page picks the best submission by tests passed
  (`drafts.py:120`), the marks by weight, so the page can show one submission and the result count
  another. The analytics read the rows unordered; which of two equally good submissions they show
  is arbitrary, where `docs/CODING-ASSESSMENT-PLAN.md:301` says the earliest.
* `BasisSeen` (`InterviewReview`): a decision is recorded with the figures of the moment, which
  the administrator's page may not have shown.
* `EndedOnce` (`InterviewSession`): giving up an evaluation whose runs are used up moves the
  interview on without the session's lock (`interview/runner.py:126-130`), where `sessions.py:21-22`
  says only under it: a session that has ended meanwhile is written again.
* `VideosReachable` (`EvidenceClips`): a reader that finds a clip overdue, on an unlocked read,
  closes it over an upload that made it READY meanwhile (`evidence_clips/service.py:434`); the
  retention looks for READY clips (`:376-382`) and never deletes that video, against
  `docs/EVIDENCE-CLIPS.md:147`.
* `DraftUnassigned` (`ExamAuthoring`): an exam that is reverted or unpublished while another request
  assigns it is an assigned draft (against `assessments.py:341-342`).
* `InputsValidated` (`ProblemLibrary`): `execution.py:590` says that only a validation of the
  version as it still stands counts, but an edit of a test's input does not change `updated_at`:
  a run claimed before it validates the version after it.
* `NewerCodeKept` (`DraftState`): `drafts.py:4-5` says that newer code is never silently
  overwritten, but a save that failed is sent again with the revision of the newest draft, which the
  page has taken meanwhile. `writeLocalDraft` overwrites a newer backup of the other window, too
  (`useCodingQuestion.ts:86`).
* `VideoReturns` (`LiveMonitoring`): `ws.py:200-201` says that live video resumes without the view
  being opened again; devices that were away when the app was asked are not published on their
  return.
* `EndedIsEmpty` (`InterviewCalls`): a socket that was let in before the interview ended joins the
  call after it, and stays (`realtime/calls.py:90`).

Smaller ones, seen in the models or on the way:

* A finish and the report of the last submission do not see each other, so the result waits for
  somebody to ask, which `ResultProduced` covers. Requests of different attempts share no lock, so
  `QUEUE_CAP` (`execution.py:274`) is a test and not a bound. A claim on the reading route rests
  on an unlocked read: two sign-ins can both take over from a silent one.
* An observation whose end is recorded between the deadline and the settling of the attempt is
  shown as NO_END_RECORDED, although `proctoring_events.py:474` leaves no episode without a
  duration. The app's own window and the server's fold repeats of different lengths; a queue at
  its limit drops its oldest report; a restart forgets when the focus was lost.
* Two validations of one version can be started at once (`execution.py:437`). A publication that
  overlaps an edit publishes what was not validated (`problems.py:4-7`). An added test can leave a
  gap in the positions.
* Nothing locks the row of an interview, so "every session must see one paper"
  (`interview/service.py:3-4`) needs publications not to overlap edits, nor unpublications
  assignments; a follow-up added while its primary changes stays out of step with it.
* An interview evaluation that was abandoned at the end of a session stays PENDING: only reads of
  an ACTIVE session schedule it again (`sessions.py:312`).
* An assignment of several candidates that fails half way commits the earlier ones without their
  audit record (`assignments.py:110-135`, `interview/service.py:417-456`). Removing an assignment
  deletes its attempts and results.
* The exam page: a save that was given up can arrive after its retry (`useExam.ts:166-167`); the
  submission does not wait for saves in flight (`ExamRunner.tsx:209`); a stale session sets the hold to false
  (`useAttemptControl.ts:40`); control messages are sent before the commit (`notify.py:28-37`).
* Live video: CONNECTION_READY is sent before the handler's `try` (`ws.py:118`, `:199`), so a break
  there leaks the slot and the presence; the wall is told of transactions that may roll back.


## Proofs

A theorem holds for every value of the constants that its assumptions allow. None of the invariants
below is inductive as it stands; each module has an inductive invariant that implies them, which TLC
checked before it was proved, a lemma for each action that preserves it, and the theorems that follow.

`ExamAttemptProofs` proves, for any number of requests, questions, options and event ids, any
deadline, any limit and any number of crashes, from `ConstantsAssumption` (the paper and the
numbers are what they should be) and `NoneAssumption` (the sentinel is no other value):

* `TypeCorrect`, `FinishingIsWhole`, `SubmissionRespectsHold`, `RetriesCountOnce`,
  `ActivationComesFirst`: `Spec => []Inv` for invariants of the module (`exam` checks
  the first of them);
* `ResultNeverReplaced`, `SwitchesAreCounted`: the action properties;
* `ImplementsLifecycle`: every step is a step of `AttemptLifecycle` or a stutter.

None of the invariants is inductive. `IInv` adds what the transactions in progress guarantee:

* `LockInv`: a request past its lock is the holder, so there is one;
* `FreshInv`: a locked request's image of the row is still the committed row, which is what makes
  checks on it sound; unlocked requests have no such guarantee;
* `FinishingInv`: SUBMITTED is about to be written only by a submit or an end that `MayFinish`
  allowed;
* `ScoredInv`: at the commit the result about to be stored is the stored one, if there is one;
* `LoadedInv`: a save past its checks implies an active or ended session.

`FinishIsWhole` needs `LockInv` and `ScoredInv`: two finishers may both pass, but the second one
writes the same fields as a whole and keeps the result. `SubmittedNotHeld` needs `FreshInv` and
`FinishingInv`: `submit` decides on a fresh image. Each preservation lemma goes through the actions
one by one. The refinement follows from `FinishIsWhole` and the action lemmas: the first
`CommitFinish` is the abstract `Finish`, a second one changes nothing the abstraction sees.

`CodeJobsProofs` proves, for any number of attempts, questions, requests, runners and jobs and any
limits, lease and wait, from `ConstantsAssumption` and `NoneAssumption`: `TypeCorrect`,
`VerdictFromHolder`, `ResultIsFinal`, `NoVerdictIsLost`, `NothingAddedAfterFinish`,
`LeaseIsRespected`, `FinishedIsFinal`, `ResultIsKept`. The hard ones are `ResultWaits` and
`JudgedIsCounted`: a transaction scores what it sees and stores it later, while reports, claims and
other evaluations commit. Its `IInv` says of each transaction

* whose rows it has locked (`AllApart`: no two have the same) and what an uncommitted row says of
  the committed one (`Written`, `Replaces`: a verdict replaces a RUNNING row, a claim one that was
  waiting);
* while it evaluates (`Evaluating`, `Settled`), that nothing is pending in what it sees. That
  stays so because a new row needs the attempt's lock on an unfinished attempt, and a verdict can
  replace only a RUNNING row, which would be pending;
* at the insert (`Counting`), that it counts exactly the judged submissions it sees;
* while it reports (`Holding`), that the job is still the one the runner holds.

The last part of that module proves `LimitsAreKept`, that is `InFlightIsBounded`, `QuotasAreKept` and
`RetriesMakeNoSecondJob`. What
`_guard` counted is true at that moment only; `PromiseInv` says that it stays true until the commit,
because every other request of the attempt waits for the same lock and all other steps only lower
the counts. The cap on the queue is left out of `PromiseInv`: it does not stay true.

`AccountAccessProofs` proves, for any number of requests, sign-ins and attempts and any times, from
`ConstantsAssumption`: `TypeCorrect`, `OneIsOpen`, `MaximumIsKept`, `SubmissionIsTheOwners`,
`FinishedForGood`. Its `IInv` says of each transaction (`Sound`)

* `ImageSound`: its image has the number and deadline of the row and opens nothing that was read
  finished, which with `Merge` is why stale writes do no harm;
* `NewSound`: the new number is at most one more than the number of rows, however stale the count;
* `InsertSound`: once the unique indexes have let an insert through, its number is the next and
  nothing else is open, until it commits; other inserts wait for it and no step reopens an attempt;
* `SubmitSound`: a submission has the lock and the committed row, so `claim` decided on the truth;

and `Apart` that locks and pending inserts exclude each other. `MaximumIsKept` needs both unique
indexes: attempts are numbered without gaps, so a number that is free and not too large is the next.

With `AccessConstants` (the rules fit the retention, limits are numbers, the sentinel is no session)
it goes on to the other scenes of `AccountAccess`: `AccessDoesFollow`, for any number of sessions,
codes, passwords, connections and slots, and `AlertsDoAnswer`, for any number of threads, subjects,
events and hours and the rules of the module. `AccessInv` is

* `SignInInv`: a sign-in under way was verified against the account's password or the one set last, or
  is marked as beside a change; one that will write its hash again was verified against the password
  the account has, if that is outdated or was put back (`OpeningFits`, in `RequestFits`), and all
  such hashes are of one password, so that a second rehash brings back no third one; a request that
  has locked the account to end sessions will end every one that is valid, unless it is marked,
  because nobody else can open one unmarked; an issue voids every code that is open, or knows of the
  other one (`RequestsApart`);
* `SocketInv`: the open sockets are finitely many, at most as many as slots, at most the limit; and
  a socket is as late as the time since its last check at most (`SocketFits`);
* `AlarmInv`: a recorder has dealt with the rules it has passed (`Dealt`, in `RecFits`), its alerts
  keep their distance from the committed ones, no committed event counts the one under way, and
  two recorders know of each other (`RecsApart`). `EventsFit` and `AlertsLast` are about the purge:
  it takes an alert away only when the event it answers is past looking back.

The step that needs it all is a commit: the event was counted over what was committed when its rule
was evaluated, and the property counts over what is committed now. `CountedAlike` closes the gap:
whatever came later was recorded beside it.

`CodeDraftsProofs` proves, for any number of pages, edits, saves and failures, `DraftsSafe` (the
types), `SavedIsTrue` (what a page shows as saved is the server's row) and `OnlySeenCodeIsReplaced`
(a save replaces code only if its author was shown it). The invariant `DraftsInv` is: the history
of what each text was written over grows and is transitive (`HistoryInv`), each page's revision and
pending save are of a text it was shown (`PageInv`, `PhaseInv`), and a backup is newer than what was
stored when it was written (`BackupInv`). `PageInv` holds while no save was sent again with the
revision of a draft its text had not seen (`crossed`), which is the finding `NewerCodeKept`; the two
theorems are about the rest.

`EvidenceProofs` proves, for any number of events, requests and crashes and any times, from
`NoneIsNothing` and `ClipConstants`: `ClipsSafe`, `EveryVideoIsNamed`, `ClipsStaySpaced`,
`ReviewHolds` and `ClipTypesHold`. `ClipInv` says of each kind of request what it still owes the
store or the rows (`Writing`, `Storing`, `Reporting`, `Maintaining`), and `Apart` that two of them
have not locked the same row; a video that no row names belongs to a request in progress or to the
orphans.

Its last part proves `EventsStayInOrder`, from `PolicyFits`, for any queue, limits, breaks and
restarts. `OrderInv` adds to the property that the queue is in the order of observation and that a
request on its way, however late, carries nothing newer than the oldest report that waits
(`CarriedInOrder`): the app only ever sends its head, and heads only grow. So what is recorded is
either there already or is the next. Steps of the app and of the server are each one lemma
(`AppKeeps`, `LogKeeps`); that closing rows are rows of the server rests on a bijection
(`ClosingIs`).

`InterviewProofs` proves, for any bank of questions and settings, any number of windows, runs,
administrators and faults, from `InterviewAssumption` (the numbers are what they should be),
`NoneAssumption` and `ReviewAssumption`: `SessionInvariant`, `SessionTypes`, `ReasonsAreTrue`,
`PaperIsKept`, `SettledForGood`, `ReviewInvariant`, `BasisIsKept` and `DecisionsAreSeen`. A
candidate's request, an evaluation that arrives and one that is given up all move the interview on
with `Advance`, so most is said once, of `Advance` on any session and rows. `SessionInv` is

* `Fits`: the answered items are those with an evaluation, and only the last may be unanswered. So
  the evaluation a question was chosen on is that of the item before it;
* `Reasons`: `AskedOnEvidence` of the rows. It stays, because `Advance` decides only on an evaluation
  that has settled, and a settled one is never written again (`EvaluationStep`);
* `Paper`: the questions asked are apart and planned; without adaption they are the beginning of the
  plan. `PaperLength` gets the bound on the number of items from it, by an injection into the bank;
* `RunsHold`: a thread's evaluation is there, and one about to be given up is PENDING and nobody
  else's, which is why giving up with an old copy of the session overwrites nothing.

`ReviewInv` adds that an interview with a decision has ended and settled. `Frozen` says that such
an interview does not change, whatever requests and runs are still under way; `BasisStands` follows.
`PaperKept` and `EvaluationSettlesOnce` are proved though no run checks them.

Its last part is about the paper (`InterviewAuthoring`): with no assumption on the constants and
whatever the plan of a session is, `SessionsSeeOnePaper` and `DecisionsStand`: as long as no publication overlapped an edit
(`overlapped`), a published interview's questions do not change, so every session has the same
paper. `PaperInv` adds that of two requests that clash one waits for the other (`OneWaits`) and that what
an open request decided still follows from the rows (`StillSo`).

`AdministrationProofs` proves, from `AuditConstants` (the sentinel is no transaction), `ChainVerifies` (the chain
of every reachable log verifies), `RowsInOrder`, and, as facts about `Verifies` for any log,
`RemovalShows` and `AlterationShows`: a log from which a row was removed, or in which a row was
changed, does not verify. `AuditInv` is that one transaction has the lock, and that the log, with
its pending row, is chained and numbered. `RemovalShows` is stated for a removed row that another
follows; for the last row it is false, as it is of the code.

It goes on to the review of an attempt, with `ReviewConstants`: `DecisionsFollow`, `TrailIsTrue`,
`EvidenceIsWhole`, for any number of administrators and decisions, and `ReviewKeepsChain`: every step
of a review is a step of the audit log or leaves it alone. `ReviewInv` says of a request that has
the row's lock that what it read is still what is committed, and what its pending record will say;
of the trail, that replaying it gives the review. `EvidenceIsWhole` is `BasisComplete`, which no run
checks.

Then the writing of an exam, for any number of administrators, candidates, questions and texts:

* `PaperDoesSettle`: a request that began after an attempt exists writes no questions
  (`PlainLate`), because `_require_editable` sees that attempt. It can still change the status.
* `PaperIsWellFormed`: the paper of a sole administrator is good, and is still good once the open
  request has committed (`WellFormedInv`, of `GoodNow` and `GoodThen`). Most of the work is in the
  requests that renumber: moving, deleting and copying questions leave positions 0, 1, ...

And the library of problems, for any number of versions, jobs, edits and requests:

* `PublishedDoesStand`: an edit under way is of a draft, or its version was published meanwhile and
  is marked as crossed (`EditsCross`); `LibraryShape` are the types, and that requests name versions
  that are there, although a deletion renumbers them.
* `ValidatedDoesStand`: a live job that nothing crossed is of the solution the version has, and an
  edit under way will outdate it (`JobFits`); a verdict under way keeps to its job (`VerdictFits`), and
  a validation on the row to the version (`ValidationFits`). `OnwardKeeps` is about every step except a
  commit, where each kind of request is a case of its own.

`DesktopAppProofs` proves the properties of the run `desktop_app`, from `LiveConstants` and
`ClientConstants` (the sentinel is nothing else, and the bounds are numbers), for any number of sockets,
offers, requests, edits and faults.

For the live video: `VideoDoesResume`, `CameraIsFreed`, `PresenceIsHonest`. What is to be shown speaks
of settled states, and the difficulty is everything that is on its way before. `Comes` says what a
queue of messages will come to once it has arrived; `VideoInv` says of both ends what will be true
then: the hub counts an administrator as watching exactly when the view is open (`WatchFits`), the
candidate's app publishes only while somebody watches (`PublishFits`), and, as long as its devices
were never away, it publishes whenever somebody watches, and a viewer without a connection has an
offer coming (`VideoFits`). It rests on `SocketsFit`
(the sockets of a side are used one after the other) and `HubFits` (the hub knows the candidate's
open socket, or one whose end it has not noticed).

For the exam page: `ShownIsStored` and `EndIsHeard`, which is `PaperIsLeft` together with what `EndInv`
says. `ClientInv` is

* `SavesFit`: the paper on screen has one save under way at most, which carries the selection on
  screen or sends that one next, and whose answer, once there, is of what the server has;
* `AnswersFit`: an answer under way says that the exam is over only if it is, and it stays over;
* `ClockFits`: the clock of a paper has stopped only if the exam is over, so the load that was sent
  then will say so.

Most steps drop requests, give them up or send one that is no save (`Fades`, `NewCall`), and the
lemmas `SavesKept`, `AnswersKept` and `EndKept` are about all of these.

`EndInv` says what having seen the end means afterwards: the attempt is over; and as long as no reload
has crossed an earlier answer, the page is off the paper and, unless the end is on screen (where
`keepFinished` guards it), no answer to a load from before the end is on its way. `EndIsKept` alone is
not inductive: from an error or while loading, the paper stays away only because no such answer is on
its way (`OutdatedBefore`), because a load that is still to be served is answered as finished once the
attempt is over (`NoneOutdated`), and because a restart drops the answers that were read
(`RestartsAfresh`).

## Only model-checked

* `ResultProduced`, `JobsFinish`, `ExpiredIsFinished` and `MovesOn` are liveness properties, which
  the prover cannot reach.
* `RiskByDefinition`, `EvidenceStands` and `ScoredByDefinition` are about folds over rows: their
  proof is an induction over data, which needs theorems with an operator parameter that the
  installed provers cannot instantiate.
* `CallSettles` is a safety property that could be proved and is not. It speaks of what a call comes
  to when nothing is under way, and needs an invariant like `VideoInv` for three pages and any number
  of sockets a side.

## Not modelled

`PROJECT.json` gives every component's status.

* Secondary camera (`secondary_camera.py`): nothing about it that is worth a run holds. A socket
  that leaves removes a newer one's entry, an offer that comes before the desktop is ready is
  dropped, a pairing code is checked and used in two steps, and a heartbeat sets any status.
* Sign-in: throttles, the security check, challenges and MFA.
  Runners share one `RUNNER_ID` if they are configured alike (`worker.py:85`); the models give each
  its own.
* The monitoring wall and proctor messages: lists without a rule of their own.
* The sandbox, the kiosk shell, detectors on camera frames, the language model and its prompts,
  backups and the web site: the operating system, numerical code or pure I/O.
* Formatting, wording, pagination and the validation of single fields, everywhere.
