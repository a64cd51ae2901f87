------------------------------ MODULE AttemptStart ------------------------------
(***************************************************************************)
(* The attempts of one candidate at one assessment: starting or resuming   *)
(* one (AttemptService.start_or_resume), and the sign-in that owns it      *)
(* (AttemptService.claim), under concurrent requests of several sign-ins.  *)
(*                                                                         *)
(* A request is a transaction at READ COMMITTED, cut at its reads, at the  *)
(* statements that wait for another transaction and at its commit.  The    *)
(* rows carry what starting and owning depend on; what else finishing an   *)
(* attempt does is in ExamAttempt.                                         *)
(***************************************************************************)
EXTENDS Naturals, Sequences

CONSTANTS
    Requests,       \* HTTP requests that can be served at the same time
    Sessions,       \* the candidate's sign-ins (rows of auth_sessions)
    MaxAttempts,    \* assessments.max_attempts
    Duration,       \* assessments.duration_minutes
    TakeoverAfter,  \* EXAM_TAKEOVER_AFTER_SECONDS
    SeenInterval,   \* _SEEN_INTERVAL
    MaxTime,        \* bound: the last instant of the clock
    None

ASSUME ConstantsAssumption ==
    /\ {MaxAttempts, Duration, TakeoverAfter} \subseteq Nat \ {0}
    /\ {SeenInterval, MaxTime} \subseteq Nat

VARIABLES
    now,      \* the server's clock
    rows,     \* the committed assessment_attempts rows, oldest first
    valid,    \* the sign-ins that have not ended
    tx        \* tx[r]: the transaction of request r, uncommitted

vars == <<now, rows, valid, tx>>

-----------------------------------------------------------------------------
Statuses == {"IN_PROGRESS", "SUBMITTED", "TIME_EXPIRED"}

Row ==
    [number  : Nat \ {0},
     status  : Statuses,
     expires : Nat,
     owner   : Sessions,    \* auth_session_id
     seen    : Nat]         \* bound_seen_at

\* Starting, reading or changing an attempt next to its row, and submitting it.
Ops == {"start", "access", "submit"}

\* Where a request stands: it holds an image of an attempt, may use it, found none that is
\* open, has built a new one, was refused one, lost the race for one, has an uncommitted
\* insert, or only has to commit.
Places == {"idle", "read", "claimed", "startable", "numbered", "exhausted", "lost",
           "inserted", "done"}

Tx ==
    [at     : Places,
     op     : Ops,
     by     : Sessions \cup {None},
     id     : Nat,                 \* the position in rows of the attempt it read; 0: none
     locked : BOOLEAN,             \* it holds that row's lock
     read   : Row \cup {None},     \* the row as it was read
     img    : Row \cup {None},     \* the row as the request has changed it
     new    : Row \cup {None}]     \* the row it inserts

NoTx ==
    [at |-> "idle", op |-> "access", by |-> None, id |-> 0, locked |-> FALSE,
     read |-> None, img |-> None, new |-> None]

\* A sign-in may end, but one stays: without any there is no request.
Init ==
    /\ now = 0
    /\ rows = <<>>
    /\ valid = Sessions
    /\ tx = [r \in Requests |-> NoTx]

-----------------------------------------------------------------------------
IsOpen(row) == row.status = "IN_PROGRESS"

Due(row) == row.expires <= now

\* The rows no other transaction has locked.
Free(r, i) == \A p \in Requests \ {r} : ~(tx[p].locked /\ tx[p].id = i)

\* The handlers that SELECT ... FOR UPDATE.
TakesLock(op) == op = "submit"

\* claim: the owning sign-in is valid and was heard from within the window.
OwnerActive(row) == row.owner \in valid /\ now - row.seen < TakeoverAfter

\* An UPDATE writes the columns that differ from the row as it was read, and no other.
Merge(row, read, img) ==
    [c \in DOMAIN row |-> IF img[c] # read[c] THEN img[c] ELSE row[c]]

Go(r, place) == tx' = [tx EXCEPT ![r].at = place]

-----------------------------------------------------------------------------
Tick ==
    /\ now < MaxTime
    /\ now' = now + 1
    /\ UNCHANGED <<rows, valid, tx>>

SignOut(s) ==
    /\ s \in valid
    /\ valid # {s}
    /\ valid' = valid \ {s}
    /\ UNCHANGED <<now, rows, tx>>

\* Request r of sign-in s has read attempt i.
Seen(r, s, o, i) ==
    tx' = [tx EXCEPT ![r] = [NoTx EXCEPT !.at = "read", !.op = o, !.by = s, !.id = i,
                                         !.locked = TakesLock(o),
                                         !.read = rows[i], !.img = rows[i]]]

\* start_or_resume: the open attempt, if there is one, read without a lock.
Start(r, s) ==
    /\ tx[r].at = "idle"
    /\ s \in valid
    /\ \/ \E i \in DOMAIN rows : IsOpen(rows[i]) /\ Seen(r, s, "start", i)
       \/ /\ \A i \in DOMAIN rows : ~IsOpen(rows[i])
          /\ tx' = [tx EXCEPT ![r] = [NoTx EXCEPT !.at = "startable", !.op = "start", !.by = s]]
    /\ UNCHANGED <<now, rows, valid>>

\* get_attempt reads the row, get_attempt_for_update and submit wait for its lock.
Access(r, s) ==
    /\ tx[r].at = "idle"
    /\ s \in valid
    /\ \E o \in Ops \ {"start"}, i \in DOMAIN rows :
          /\ TakesLock(o) => Free(r, i)
          /\ Seen(r, s, o, i)
    /\ UNCHANGED <<now, rows, valid>>

\* settle: the UPDATE waits for the row, then writes TIME_EXPIRED whatever it says by now.
Settle(r) ==
    /\ tx[r].at = "read"
    /\ IsOpen(tx[r].img) /\ Due(tx[r].img)
    /\ Free(r, tx[r].id)
    /\ tx' = [tx EXCEPT ![r].at = IF tx[r].op = "start" THEN "startable" ELSE "done",
                        ![r].locked = TRUE,
                        ![r].img.status = "TIME_EXPIRED"]
    /\ UNCHANGED <<now, rows, valid>>

\* A finished attempt can be read from anywhere; submitting it again changes nothing.
Finished(r) ==
    /\ tx[r].at = "read"
    /\ ~IsOpen(tx[r].img)
    /\ Go(r, "done")
    /\ UNCHANGED <<now, rows, valid>>

\* claim: the attempt is open in another sign-in (AttemptInUseElsewhere).
InUseElsewhere(r) ==
    /\ tx[r].at = "read"
    /\ IsOpen(tx[r].img) /\ ~Due(tx[r].img)
    /\ tx[r].img.owner # tx[r].by
    /\ OwnerActive(tx[r].img)
    /\ Go(r, "done")
    /\ UNCHANGED <<now, rows, valid>>

\* Mutant of Claimed: a sign-in that takes over gets the whole time again.
ClaimedAnew(row, s) ==
    [row EXCEPT !.owner = s, !.seen = now,
                !.expires = IF row.owner = s THEN @ ELSE now + Duration]

\* The owner is noted as seen, at intervals; a sign-in that takes over is noted too.
Claimed(row, s) ==
    [row EXCEPT !.owner = s,
                !.seen = IF row.owner = s /\ now - row.seen < SeenInterval THEN @ ELSE now]

\* claim: the owner goes on, or another sign-in takes over from one that is not active.
Claim(r) ==
    /\ tx[r].at = "read"
    /\ IsOpen(tx[r].img) /\ ~Due(tx[r].img)
    /\ tx[r].img.owner = tx[r].by \/ ~OwnerActive(tx[r].img)
    /\ tx' = [tx EXCEPT ![r].at = IF tx[r].op = "submit" THEN "claimed" ELSE "done",
                        ![r].img = Claimed(tx[r].img, tx[r].by)]
    /\ UNCHANGED <<now, rows, valid>>

\* submit: finished, unless the attempt is on hold (the hold is in ExamAttempt).
Submit(r) ==
    /\ tx[r].at = "claimed"
    /\ \/ tx' = [tx EXCEPT ![r].at = "done", ![r].img.status = "SUBMITTED"]
       \/ Go(r, "done")
    /\ UNCHANGED <<now, rows, valid>>

-----------------------------------------------------------------------------
\* _check_startable: not published, or outside the availability window.
NotStartable(r) ==
    /\ tx[r].at = "startable"
    /\ Go(r, "done")
    /\ UNCHANGED <<now, rows, valid>>

NewRow(used, s) ==
    [number |-> used + 1, status |-> "IN_PROGRESS", expires |-> now + Duration,
     owner |-> s, seen |-> now]

\* Every attempt ever made counts.
CountAttempts(r) ==
    /\ tx[r].at = "startable"
    /\ IF Len(rows) >= MaxAttempts
       THEN Go(r, "exhausted")
       ELSE tx' = [tx EXCEPT ![r].at = "numbered", ![r].new = NewRow(Len(rows), tx[r].by)]
    /\ UNCHANGED <<now, rows, valid>>

\* The attempts that r sees as open: the one it has just expired is not.
OpenFor(r) == {i \in DOMAIN rows : IsOpen(rows[i]) /\ ~(tx[r].locked /\ tx[r].id = i)}

\* A unique index waits for an insert, or for the finish of an open attempt, that is
\* still uncommitted.
MustWait(r) ==
    \E p \in Requests \ {r} :
        \/ tx[p].at = "inserted"
        \/ tx[p].locked /\ ~IsOpen(tx[p].img) /\ tx[p].id \in OpenFor(r)

\* uq_attempt_assessment_candidate_number
NumberTaken(r) == \E i \in DOMAIN rows : rows[i].number = tx[r].new.number

\* uq_attempt_one_active_per_candidate
OpenTaken(r) == OpenFor(r) # {}

\* Either index alone is a mutant of the two.
Duplicate(r) == NumberTaken(r) \/ OpenTaken(r)

Insert(r) ==
    /\ tx[r].at = "numbered"
    /\ ~MustWait(r)
    /\ Go(r, IF Duplicate(r) THEN "lost" ELSE "inserted")
    /\ UNCHANGED <<now, rows, valid>>

\* The savepoint is rolled back and the winner's attempt returned, not claimed.
ResumeWinner(r) ==
    /\ tx[r].at = "lost"
    /\ OpenFor(r) # {}
    /\ Go(r, "done")
    /\ UNCHANGED <<now, rows, valid>>

\* The winner's attempt is over already: the IntegrityError is raised again.
NoWinner(r) ==
    /\ tx[r].at = "lost"
    /\ OpenFor(r) = {}
    /\ tx' = [tx EXCEPT ![r] = NoTx]
    /\ UNCHANGED <<now, rows, valid>>

-----------------------------------------------------------------------------
Written(r) ==
    IF tx[r].id = 0 THEN rows
    ELSE [rows EXCEPT ![tx[r].id] = Merge(@, tx[r].read, tx[r].img)]

\* A refusal commits as well: what settle and claim wrote before it is kept.
Commit(r) ==
    /\ tx[r].at \in {"done", "exhausted", "inserted"}
    /\ tx[r].read # tx[r].img => Free(r, tx[r].id)
    /\ rows' = IF tx[r].at = "inserted" THEN Append(Written(r), tx[r].new) ELSE Written(r)
    /\ tx' = [tx EXCEPT ![r] = NoTx]
    /\ UNCHANGED <<now, valid>>

Crash(r) ==
    /\ tx[r].at # "idle"
    /\ tx' = [tx EXCEPT ![r] = NoTx]
    /\ UNCHANGED <<now, rows, valid>>

Step(r) ==
    \/ \E s \in Sessions : Start(r, s) \/ Access(r, s)
    \/ Settle(r) \/ Finished(r) \/ InUseElsewhere(r) \/ Claim(r) \/ Submit(r)
    \/ NotStartable(r) \/ CountAttempts(r) \/ Insert(r) \/ ResumeWinner(r) \/ NoWinner(r)
    \/ Commit(r) \/ Crash(r)

Next == Tick \/ (\E s \in Sessions : SignOut(s)) \/ (\E r \in Requests : Step(r))

Spec == Init /\ [][Next]_vars

-----------------------------------------------------------------------------
\* Type invariant: the constraints on the columns, and what a request carries where.
TypeOK ==
    /\ now \in Nat
    /\ rows \in Seq(Row)
    /\ valid \subseteq Sessions
    /\ tx \in [Requests -> Tx]

\* At most one attempt is open, however many starts race, with attempts that expire or are
\* submitted between a start's read and its insert (start_or_resume, the partial index).
OneOpenAttempt ==
    \A i, j \in DOMAIN rows : IsOpen(rows[i]) /\ IsOpen(rows[j]) => i = j

\* The attempts are numbered 1, 2, ... in the order they were made and are never more than
\* the maximum, although the count they are numbered from is stale when they are inserted.
AttemptsNumbered ==
    \A i \in DOMAIN rows : rows[i].number = i /\ i <= MaxAttempts

\* When a submission is about to commit, the committed attempt is still open and either its
\* owner is the sign-in that submits or that owner has ended or gone silent: what settle,
\* claim and submit decided on holds until the commit (get_for_candidate_locked).
SubmittedByUser ==
    \A r \in Requests :
        tx[r].op = "submit" /\ tx[r].at = "done" /\ tx[r].img.status = "SUBMITTED"
            /\ IsOpen(tx[r].read) =>
            LET row == rows[tx[r].id]
            IN  IsOpen(row) /\ (row.owner = tx[r].by \/ ~OwnerActive(row))

\* No attempt is removed, renumbered, given another deadline or opened again, although
\* requests write rows they read, still open, before somebody finished them.
NeverReopened ==
    [][\A i \in DOMAIN rows :
          /\ i \in DOMAIN rows'
          /\ rows'[i].number = rows[i].number
          /\ rows'[i].expires = rows[i].expires
          /\ IsOpen(rows'[i]) => IsOpen(rows[i])]_vars

-----------------------------------------------------------------------------
\* What start_or_resume says of a double click, and what does not hold: a start is never
\* told that the attempts are used up while the candidate holds an open one.
StartResumes ==
    \A r \in Requests : tx[r].at = "exhausted" => OpenFor(r) = {}
=============================================================================
