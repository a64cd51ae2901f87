----------------------------- MODULE AttemptReview -----------------------------
(***************************************************************************)
(* The human review of one proctored attempt (services/review/service.py,  *)
(* repositories/reviews.py): administrators start it, mark evidence, add   *)
(* notes, complete it with an outcome and revise the outcome, while the    *)
(* attempt may still be running and reporting events.  Each action writes  *)
(* its audit record in its own transaction, through AuditChain.            *)
(*                                                                         *)
(* A request reads under the locks its service takes and decides what it   *)
(* will write (one step), inserts its audit record once it has the chain's *)
(* lock (a second), and commits or is rolled back (a third).               *)
(***************************************************************************)
EXTENDS AuditChain, FiniteSets, SequencesExt

CONSTANTS Outcomes,    \* outcomes an administrator may record
          MaxEvents,   \* bound of the reported proctoring events
          MaxRecords   \* bound of the audit records

VARIABLES attempt,    \* "OPEN" or "FINAL"
          events,     \* evidence recorded in the attempt's proctoring session
          review,     \* the row of attempt_reviews
          decisions,  \* its rows of review_decisions, by revision
          mark,       \* the current mark of one evidence item
          page,       \* the version each administrator's page showed
          work        \* what each open request has decided to write

reviewVars == <<auditVars, attempt, events, review, decisions, mark, page, work>>
rowVars == <<attempt, events, review, decisions, mark>>

Marks == {"CONFIRMED", "DISMISSED"}
Acts == {"STARTED", "NOTED", "MARKED", "COMPLETED", "REVISED"}
Review == [status : {"IN_REVIEW", "REVIEWED"}, outcome : Outcomes \cup {None}, version : Nat]
Decision == [outcome : Outcomes, evidence : Nat, seen : Nat]

\* What an audit record says: the action and the facts it leaves in `details`.
Said(act, version, outcome) == [act |-> act, version |-> version, outcome |-> outcome]
Records == [act : Acts, version : 0..MaxRecords, outcome : Outcomes \cup Marks \cup {None}]

ASSUME ReviewConstants ==
    /\ IsFiniteSet(Writers)
    /\ MaxEvents \in Nat /\ MaxRecords \in Nat
    /\ None \notin Acts \cup Review
    /\ Records \subseteq Content

\* A request that only adds a record, or nothing: op, and the record it will leave.
Work(op, said) == [op |-> op, said |-> said, attempt |-> None, closed |-> 0, row |-> None,
                   decision |-> None]
NoWork == Work(None, None)

Open(w) == work[w].op # None
ReviewLocked == \E w \in Writers : work[w].op \in {"MARKED", "COMPLETED", "REVISED"}
AttemptLocked == \E w \in Writers : work[w].op = "COMPLETED"
Starting == \E w \in Writers : work[w].op = "STARTED"

ReviewInit ==
    /\ AuditInit
    /\ attempt = "OPEN" /\ events = 0
    /\ review = None /\ decisions = <<>> /\ mark = None
    /\ page = [w \in Writers |-> 0]
    /\ work = [w \in Writers |-> NoWork]

\* A request decides what it will write.
Decides(w, new) ==
    /\ ~Open(w) /\ nextSeq + Cardinality({v \in Writers : Open(v)}) <= MaxRecords
    /\ work' = [work EXCEPT ![w] = new]
    /\ UNCHANGED <<auditVars, rowVars, page>>

\* An administrator's page shows the review as it is committed.
View(w) ==
    /\ ~Open(w) /\ review # None
    /\ page[w] # review.version
    /\ page' = [page EXCEPT ![w] = review.version]
    /\ UNCHANGED <<auditVars, rowVars, work>>

(***************************************************************************)
(* The operations.                                                         *)
(***************************************************************************)

\* Two starts at once: the second insert waits for the first one's transaction, and is dropped by
\* the unique attempt_id when that commits.
Start(w) ==
    /\ review = None /\ ~Starting
    /\ Decides(w, Work("STARTED", Said("STARTED", 1, None)))

\* A note is added on an unlocked reading of the review.
AddNote(w) ==
    /\ review # None
    /\ Decides(w, Work("NOTED", Said("NOTED", 0, None)))

\* A plausible slip: the review is read without its lock.
ReadUnlocked == TRUE

LockedByNone == ~ReviewLocked

Expected(status) ==
    /\ LockedByNone
    /\ review # None /\ review.status = status

\* A mark equal to the current one writes nothing.
Mark(w, m) ==
    /\ Expected("IN_REVIEW") /\ events > 0
    /\ mark # m
    /\ Decides(w, Work("MARKED", Said("MARKED", 0, m)))

Decided(w, op, outcome, evidence) ==
    [Work(op, Said(op, review.version + 1, outcome)) EXCEPT
        !.row = [status |-> "REVIEWED", outcome |-> outcome, version |-> review.version + 1],
        !.decision = [outcome |-> outcome, evidence |-> evidence, seen |-> page[w]]]

\* The attempt's row is locked first and its clock applied: when its time is over this finishes it,
\* and an observation still open is closed as an event.
Settles(after, closed) ==
    \/ after = attempt /\ closed = 0
    \/ attempt = "OPEN" /\ after = "FINAL" /\ closed \in 0..1 /\ events + closed <= MaxEvents

Finalized(after) == after = "FINAL"

Complete(w, outcome) ==
    /\ Expected("IN_REVIEW") /\ review.version = page[w]
    /\ ~AttemptLocked
    /\ \E after \in {"OPEN", "FINAL"}, closed \in 0..1 :
          /\ Settles(after, closed) /\ Finalized(after)
          /\ Decides(w, [Decided(w, "COMPLETED", outcome, events + closed) EXCEPT
                            !.attempt = after, !.closed = closed])

\* A revision needs another outcome; it does not lock the attempt.
Revise(w, outcome) ==
    /\ Expected("REVIEWED") /\ review.version = page[w]
    /\ outcome # review.outcome
    /\ Decides(w, Decided(w, "REVISED", outcome, events))

(***************************************************************************)
(* The end of a request.                                                   *)
(***************************************************************************)

RecordAudit(w) ==
    /\ Open(w) /\ pending[w] = {}
    /\ Insert(w, work[w].said)
    /\ UNCHANGED <<rowVars, page, work>>

Deciding(op) == op \in {"COMPLETED", "REVISED"}

CommitRequest(w) ==
    LET op == work[w].op
    IN  /\ Open(w) /\ pending[w] # {}
        /\ Commit(w)
        /\ review' = CASE op = "STARTED" -> [status |-> "IN_REVIEW", outcome |-> None, version |-> 1]
                       [] Deciding(op)   -> work[w].row
                       [] OTHER          -> review
        /\ decisions' = IF Deciding(op) THEN Append(decisions, work[w].decision) ELSE decisions
        /\ mark' = IF op = "MARKED" THEN work[w].said.outcome ELSE mark
        /\ attempt' = IF op = "COMPLETED" THEN work[w].attempt ELSE attempt
        /\ events' = IF op = "COMPLETED" THEN events + work[w].closed ELSE events
        /\ page' = IF Deciding(op) THEN [page EXCEPT ![w] = review'.version] ELSE page
        /\ work' = [work EXCEPT ![w] = NoWork]

\* An exception, a lost connection or a dead process.
RollbackRequest(w) ==
    /\ Open(w)
    /\ Rollback(w)
    /\ work' = [work EXCEPT ![w] = NoWork]
    /\ UNCHANGED <<rowVars, page>>

(***************************************************************************)
(* The attempt, whose requests hold its row from start to commit.          *)
(***************************************************************************)

ReportEvent ==
    /\ attempt = "OPEN" /\ ~AttemptLocked /\ events < MaxEvents
    /\ events' = events + 1
    /\ UNCHANGED <<auditVars, attempt, review, decisions, mark, page, work>>

\* Submitted, ended or out of time; an observation still open is closed as an event.
FinishAttempt ==
    /\ attempt = "OPEN" /\ ~AttemptLocked
    /\ attempt' = "FINAL"
    /\ events' \in {events, events + 1} \cap 0..MaxEvents
    /\ UNCHANGED <<auditVars, review, decisions, mark, page, work>>

ReviewNext ==
    \/ \E w \in Writers :
          \/ View(w) \/ Start(w) \/ AddNote(w)
          \/ RecordAudit(w) \/ CommitRequest(w) \/ RollbackRequest(w)
          \/ \E m \in Marks : Mark(w, m)
          \/ \E outcome \in Outcomes : Complete(w, outcome) \/ Revise(w, outcome)
    \/ ReportEvent \/ FinishAttempt

ReviewSpec == ReviewInit /\ [][ReviewNext]_reviewVars

(***************************************************************************)
(* Properties.                                                             *)
(***************************************************************************)

\* The committed audit records of some actions.
Trail(acts) == {r \in log : r.content.act \in acts}

\* Of two administrators deciding at once the second is refused: every decision was made on a page
\* that showed all earlier ones, the review carries the last, and its version counts them
\* (_expect under get_locked in complete and revise).
DecidedInTurn ==
    /\ \A i \in DOMAIN decisions :
          /\ decisions[i].seen = i
          /\ i > 1 => decisions[i].outcome # decisions[i - 1].outcome
    /\ review # None =>
          /\ review.version = Len(decisions) + 1
          /\ review.outcome = IF decisions = <<>> THEN None ELSE Last(decisions).outcome

\* The audit log tells the story of the review: replayed in the order of its chain it gives the
\* review as it is, with no action missing, invented or out of order and no mark after the decision.
TrailTells ==
    LET starts == Trail({"STARTED"})
        deciding == Trail({"COMPLETED", "REVISED"})
        marks == Trail({"MARKED"})
    IN  /\ starts = {} <=> review = None
        /\ \A p, q \in starts : p = q
        /\ \A i \in DOMAIN decisions : \E r \in deciding :
              r.content = Said(IF i = 1 THEN "COMPLETED" ELSE "REVISED", i + 1, decisions[i].outcome)
        /\ \A r \in deciding : \E i \in DOMAIN decisions : r.content.version = i + 1
        /\ \A p, q \in deciding : p.seq < q.seq => p.content.version < q.content.version
        /\ \A p, q \in deciding : p # q => p.content.version # q.content.version
        /\ \A p \in starts, q \in deciding \cup marks : p.seq < q.seq
        /\ \A p \in marks, q \in deciding : p.seq < q.seq
        /\ IF marks = {} THEN mark = None ELSE \E r \in marks : Newest(marks, r) /\ mark = r.content.outcome

\* Every decision, the revisions included, rests on the whole evidence of a finished attempt: no
\* event is recorded after the first decision counted them.
BasisComplete ==
    \A i \in DOMAIN decisions : attempt = "FINAL" /\ decisions[i].evidence = events

ReviewTypeOK ==
    /\ attempt \in {"OPEN", "FINAL"} /\ events \in 0..MaxEvents
    /\ review \in {None} \cup Review
    /\ decisions \in Seq(Decision)
    /\ mark \in Marks \cup {None}
    /\ page \in [Writers -> Nat]
=============================================================================
