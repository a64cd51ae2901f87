---------------------------- MODULE CodeJobsProofs ----------------------------
(***************************************************************************)
(* Proofs about CodeJobs, for any number of attempts, requests, runners    *)
(* and jobs, any limits, leases and waits, and any number of faults.       *)
(***************************************************************************)
EXTENDS CodeJobs, FiniteSetTheorems, TLAPS

-----------------------------------------------------------------------------
(* The inductive invariant: what a running transaction p may rely on. *)

\* A request that has not begun, or has ended, leaves nothing behind.
Idle(p) == tx[p].pc = "idle" => tx[p] = NoTx

ClaimOnly(p) == tx[p].pc = "claim" => tx[p].op = "claim"

Evaluates(p) == tx[p].pc \in {"consider", "fail", "score", "insert"} => tx[p].att # None

\* The attempt p holds is not finished until p, finishing it, lets it go.
Holding(p) ==
    /\ tx[p].op = "finish" => tx[p].holds # None
    /\ tx[p].holds \notin finished

\* What an uncommitted row of code_executions says of the committed one.
Replaces(p, new, old) ==
    /\ new.status \in InFlight => tx[p].pc = "commit"
    /\ old = None =>
          new.status = "QUEUED" /\ tx[p].op = "request" /\ new.att = tx[p].holds
    /\ old # None =>
          /\ new.kind = old.kind /\ new.att = old.att /\ new.ques = old.ques
          /\ new.key = old.key /\ new.age = old.age
          /\ new.status # "FAILED" => old.status \in InFlight
          /\ new.status # "FAILED" /\ old.status = "RUNNING" /\ new.claims # old.claims =>
                old.lease = 0
          /\ new.status = "COMPLETED" => old.status = "RUNNING" /\ old.worker = p

Written(p) == \A j \in Jobs : tx[p].rows[j] # None => Replaces(p, tx[p].rows[j], job[j])

PendExists(p) == \A j \in tx[p].pend : job[j] # None

\* p has decided that no submission of a is pending.
Settled(p, a) ==
    \/ tx[p].res[a] # None
    \/ tx[p].att = a /\ tx[p].pc \in {"score", "insert"}

\* As far as p can see, nothing of the attempt it evaluates is pending but what it is about
\* to fail; and what it sees is what will be there when it commits.
Evaluating(p) ==
    \A a \in Attempts :
        /\ Settled(p, a) =>
              a \in Ended(p) /\ Submissions(View(p), a, InFlight) = {}
        /\ tx[p].att = a /\ tx[p].pc = "fail" =>
              a \in Ended(p) /\ Submissions(View(p), a, InFlight) \subseteq tx[p].pend

\* What is about to be stored counts every judged submission.
Counting(p) ==
    \A a \in Attempts :
        /\ tx[p].att = a /\ tx[p].pc = "insert" =>
              Submissions(View(p), a, {"COMPLETED"}) \subseteq tx[p].counted
        /\ tx[p].res[a] # None =>
              result[a] = None /\ Submissions(View(p), a, {"COMPLETED"}) \subseteq tx[p].res[a]

TxInv(p) ==
    /\ Idle(p)
    /\ ClaimOnly(p)
    /\ Evaluates(p)
    /\ Holding(p)
    /\ Written(p)
    /\ PendExists(p)
    /\ Evaluating(p)
    /\ Counting(p)

\* Two transactions write no common row and lock no common attempt.
Apart(p, o) ==
    /\ \A j \in Jobs : tx[p].rows[j] = None \/ tx[o].rows[j] = None
    /\ \A a \in Attempts : tx[p].res[a] = None \/ tx[o].res[a] = None
    /\ tx[p].holds = None \/ tx[p].holds # tx[o].holds

AllApart == \A p, o \in Procs : p # o => Apart(p, o)

\* A runner works on a job that exists.
WorkInv == \A w \in Workers : work[w] # None => job[work[w].job] # None

ResultOfFinished == \A a \in Attempts : result[a] # None => a \in finished

IInv ==
    /\ TypeOK
    /\ \A p \in Procs : TxInv(p)
    /\ AllApart
    /\ WorkInv
    /\ ResultOfFinished
    /\ ResultWaits
    /\ JudgedIsCounted

-----------------------------------------------------------------------------
(* Types *)

USE DEF At, Statuses, InFlight, Kinds, Procs

LEMMA NoTxType == NoTx \in Tx
<1>1. None \in JobRow \cup {None} /\ None \in {None} \cup SUBSET Jobs
  OBVIOUS
<1>2. ClaimTries \in Nat
  BY ConstantsAssumption DEF ConstantsAssumption
<1> QED
  BY <1>1, <1>2 DEF NoTx, Tx

\* A request that only changes its own transaction keeps the table of them well typed.
LEMMA TxStep ==
    ASSUME TypeOK, NEW p \in Procs, NEW t \in Tx, tx' = [tx EXCEPT ![p] = t],
           UNCHANGED <<job, finished, over, result, work, faults>>
    PROVE  TypeOK'
BY DEF TypeOK

LEMMA NewJobType ==
    ASSUME NEW a \in Attempts, NEW q \in Questions, NEW kind \in Kinds, NEW key \in Keys \cup {None}
    PROVE  NewJob(kind, a, q, key) \in JobRow
BY ConstantsAssumption DEF ConstantsAssumption, NewJob, JobRow

LEMMA OlderType ==
    ASSUME NEW r \in JobRow
    PROVE  /\ Older(r) \in JobRow
           /\ Older(r).kind = r.kind /\ Older(r).att = r.att /\ Older(r).key = r.key
           /\ Older(r).ques = r.ques
           /\ Older(r).age = IF r.age > RateWindow THEN r.age ELSE r.age + 1
           /\ Older(r).status = r.status /\ Older(r).worker = r.worker
           /\ Older(r).claims = r.claims
           /\ r.lease = 0 => Older(r).lease = 0
<1> USE ConstantsAssumption DEF ConstantsAssumption
<1> DEFINE age == IF r.age > RateWindow THEN r.age ELSE r.age + 1
           lease == IF r.status = "RUNNING" /\ r.lease > 0 THEN r.lease - 1 ELSE r.lease
<1>1. age \in 0..RateWindow + 1 /\ lease \in 0..Lease
  BY DEF JobRow
<1>2. Older(r) = [r EXCEPT !.age = age, !.lease = lease]
  BY DEF Older
<1>3. /\ r.lease = 0 => lease = 0
      /\ age = IF r.age > RateWindow THEN r.age ELSE r.age + 1
  OBVIOUS
<1> HIDE DEF age, lease
<1> QED
  BY <1>1, <1>2, <1>3 DEF JobRow

LEMMA ViewType ==
    ASSUME TypeOK, NEW p \in Procs
    PROVE  /\ View(p) \in [Jobs -> JobRow \cup {None}]
           /\ \A j \in Jobs : View(p)[j] = IF tx[p].rows[j] # None THEN tx[p].rows[j] ELSE job[j]
BY DEF TypeOK, View, Tx

LEMMA SubmissionsIn ==
    ASSUME NEW v \in [Jobs -> JobRow \cup {None}], NEW a, NEW S
    PROVE  \A j : j \in Submissions(v, a, S) <=>
              /\ j \in Jobs
              /\ v[j] # None
              /\ v[j].kind = "SUBMIT"
              /\ v[j].att = a
              /\ v[j].status \in S
BY DEF Submissions, Rows

\* A row that a transaction writes, and the transaction that has written it.
LEMMA RowStep ==
    ASSUME NEW t \in Tx, NEW j \in Jobs, NEW r \in JobRow
    PROVE  [t EXCEPT !.rows[j] = r] \in Tx
BY DEF Tx

LEMMA JudgedType ==
    ASSUME NEW r \in JobRow, NEW status \in {"COMPLETED", "FAILED"}
    PROVE  Judged(r, status) \in JobRow
<1>1. 0 \in 0..Lease
  BY ConstantsAssumption DEF ConstantsAssumption
<1> QED
  BY <1>1 DEF Judged, JobRow

\* A transaction that has not begun may be given any of the values it starts with.
LEMMA NoTxFields ==
    ASSUME NEW pc \in {"claim", "consider", "commit"},
           NEW op \in {"request", "finish", "read", "claim", "report"},
           NEW att \in Attempts \cup {None}, NEW holds \in Attempts \cup {None}
    PROVE  [NoTx EXCEPT !.pc = pc, !.op = op, !.holds = holds, !.att = att] \in Tx
BY NoTxType DEF Tx

LEMMA EvaluateIfSubmitType ==
    ASSUME NEW j \in Jobs, NEW t \in Tx, job[j] \in JobRow
    PROVE  EvaluateIfSubmit(j, t) \in Tx
<1>1. job[j].att \in Attempts
  BY DEF JobRow
<1> QED
  BY <1>1 DEF EvaluateIfSubmit, Tx

\* A job that a claim may look at exists, and the claim sees the committed row.
LEMMA WaitingJob ==
    ASSUME IInv, NEW w \in Workers, NEW j \in Waiting(w), Claiming(w)
    PROVE  /\ j \in Jobs
           /\ job[j] \in JobRow /\ job[j] # None
           /\ tx[w].rows[j] = None
           /\ View(w)[j] = job[j]
           /\ job[j].status \in InFlight
           /\ job[j].status = "RUNNING" => job[j].lease = 0
           /\ \A o \in Procs \ {w} : tx[o].rows[j] = None
<1>1. TypeOK /\ TxInv(w) /\ w \in Procs
  BY DEF IInv
<1>2. /\ j \in Jobs /\ View(w)[j] # None
      /\ View(w)[j].status = "QUEUED" \/ (View(w)[j].status = "RUNNING" /\ View(w)[j].lease = 0)
      /\ Unlocked(w, j)
  BY DEF Waiting, Rows
<1>3. tx[w].rows[j] = None
  <2>1. SUFFICES ASSUME tx[w].rows[j] # None
                 PROVE  FALSE
    OBVIOUS
  <2>2. View(w)[j] = tx[w].rows[j]
    BY <1>1, <1>2, <2>1, ViewType
  <2>3. tx[w].pc = "commit"
    BY <1>1, <1>2, <2>1, <2>2 DEF TxInv, Written, Replaces
  <2> QED
    BY <2>3 DEF Claiming
<1>4. View(w)[j] = job[j]
  BY <1>1, <1>2, <1>3, ViewType
<1> QED
  BY <1>1, <1>2, <1>3, <1>4 DEF TypeOK, Unlocked

LEMMA ClaimedRow ==
    ASSUME IInv, NEW w \in Workers, NEW j \in Jobs, Claim(w, j)
    PROVE  [job[j] EXCEPT !.status = "RUNNING", !.worker = w, !.lease = Lease,
                          !.claims = @ + 1] \in JobRow
<1>1. job[j] \in JobRow
  BY WaitingJob DEF Claim, Oldest
<1>2. job[j].claims + 1 \in 0..MaxClaims /\ Lease \in 0..Lease
  BY <1>1, ConstantsAssumption DEF Claim, Exhausted, JobRow, ConstantsAssumption
<1> QED
  BY <1>1, <1>2 DEF JobRow

LEMMA TypeStep ==
    ASSUME IInv, [Next]_vars
    PROVE  TypeOK'
<1>0. TypeOK
  BY DEF IInv
<1> USE <1>0
<1>1. CASE UNCHANGED vars
  BY <1>1 DEF vars, TypeOK
<1>2. CASE Tick
  <2>1. job' \in [Jobs -> JobRow \cup {None}]
    BY <1>2, OlderType DEF Tick, TypeOK
  <2>2. over' \in [Attempts -> -Duration..EvalWait]
    BY <1>2, ConstantsAssumption DEF Tick, TypeOK, ConstantsAssumption
  <2>3. ASSUME NEW p \in Procs
        PROVE  tx'[p] \in Tx
    <3> DEFINE rows == [j \in Jobs |-> IF tx[p].rows[j] = None THEN None
                                       ELSE Older(tx[p].rows[j])]
    <3>1. tx[p] \in Tx
      BY DEF TypeOK
    <3>2. rows \in [Jobs -> JobRow \cup {None}]
      BY <3>1, OlderType DEF Tx
    <3>3. tx'[p] = [tx[p] EXCEPT !.rows = rows]
      BY <1>2 DEF Tick
    <3> HIDE DEF rows
    <3> QED
      BY <3>1, <3>2, <3>3 DEF Tx
  <2>4. tx' \in [Procs -> Tx]
    BY <1>2, <2>3 DEF Tick
  <2> QED
    BY <1>2, <2>1, <2>2, <2>4 DEF Tick, TypeOK
<1>3. ASSUME NEW c \in Clients, NEW a \in Attempts, NEW q \in Questions, NEW kind \in Kinds,
             NEW key \in Keys \cup {None}, NEW j \in Jobs, Request(c, a, q, kind, key, j)
      PROVE  TypeOK'
  <2> DEFINE r == NewJob(kind, a, q, key)
             t == [NoTx EXCEPT !.pc = "commit", !.op = "request", !.holds = a, !.rows[j] = r]
  <2>1. r \in JobRow
    BY NewJobType
  <2>2. t \in Tx
    BY <2>1, NoTxType DEF Tx
  <2>3. tx' = [tx EXCEPT ![c] = t]
    BY <1>3 DEF Request
  <2> HIDE DEF r, t
  <2> QED
    BY <1>3, <2>2, <2>3, TxStep DEF Request
<1>4. ASSUME NEW c \in Clients, NEW a \in Attempts, Finish(c, a) \/ ReadResult(c, a)
      PROVE  TypeOK'
  <2>1. PICK t \in Tx : tx' = [tx EXCEPT ![c] = t]
    BY <1>4, NoTxType DEF Finish, ReadResult, Tx
  <2> QED
    BY <1>4, <2>1, TxStep DEF Finish, ReadResult
<1>5. ASSUME NEW p \in Procs, Leave(p) \/ Consider(p) \/ Score(p)
      PROVE  TypeOK'
  <2>1. tx[p] \in Tx /\ After(p) \in {"claim", "commit"}
    BY DEF TypeOK, After
  <2>2. Pending(p) \subseteq Jobs /\ Submissions(View(p), tx[p].att, {"COMPLETED"}) \subseteq Jobs
    BY DEF Pending, Submissions, Rows
  <2>3. PICK t \in Tx : tx' = [tx EXCEPT ![p] = t]
    <3>1. CASE Leave(p)
      BY <2>1, <3>1 DEF Leave, Tx
    <3>2. CASE Consider(p)
      BY <2>1, <2>2, <3>2 DEF Consider, Tx
    <3>3. CASE Score(p)
      BY <2>1, <2>2, <3>3 DEF Score, Tx
    <3> QED
      BY <1>5, <3>1, <3>2, <3>3
  <2> QED
    BY <1>5, <2>3, TxStep DEF Leave, Consider, Score
<1>6. ASSUME NEW p \in Procs, NEW j \in Jobs, FailPending(p, j)
      PROVE  TypeOK'
  <2> DEFINE r == [View(p)[j] EXCEPT !.status = "FAILED"]
  <2>1. tx[p] \in Tx /\ TxInv(p)
    BY DEF IInv, TypeOK
  <2>2. job[j] # None
    BY <1>6, <2>1 DEF FailPending, Oldest, TxInv, PendExists
  <2>3. View(p)[j] \in JobRow
    BY <2>2, ViewType DEF TypeOK
  <2>4. r \in JobRow
    BY <2>3 DEF JobRow
  <2>5. PICK t \in Tx : tx' = [tx EXCEPT ![p] = t]
    <3> HIDE DEF r
    <3>1. tx' = [tx EXCEPT ![p].rows[j] = r, ![p].pend = @ \ {j},
                           ![p].pc = IF tx[p].pend = {j} THEN "score" ELSE "fail"]
      BY <1>6 DEF FailPending, r
    <3> DEFINE u == [tx[p] EXCEPT !.rows[j] = r]
               t == [u EXCEPT !.pend = @ \ {j},
                              !.pc = IF tx[p].pend = {j} THEN "score" ELSE "fail"]
    <3>2. u \in Tx /\ u.pend = tx[p].pend
      BY <2>1, <2>4, RowStep DEF Tx
    <3>3. t \in Tx
      <4> HIDE DEF u
      <4> QED
        BY <3>2 DEF Tx
    <3>4. tx' = [tx EXCEPT ![p] = t]
      BY <2>1, <3>1 DEF TypeOK, Tx
    <3> QED
      BY <3>3, <3>4
  <2> QED
    BY <1>6, <2>5, TxStep DEF FailPending
<1>7. ASSUME NEW p \in Procs, InsertResult(p)
      PROVE  TypeOK'
  <2>1. tx[p] \in Tx /\ After(p) \in {"claim", "commit"}
    BY DEF TypeOK, After
  <2>2. PICK t \in Tx : tx' = [tx EXCEPT ![p] = t]
    BY <1>7, <2>1 DEF InsertResult, Tx
  <2> QED
    BY <1>7, <2>2, TxStep DEF InsertResult
<1>8. ASSUME NEW w \in Workers, NEW j \in Jobs, Claim(w, j)
      PROVE  TypeOK'
  <2> DEFINE r == [job[j] EXCEPT !.status = "RUNNING", !.worker = w, !.lease = Lease,
                                 !.claims = @ + 1]
  <2>1. tx[w] \in Tx
    BY DEF TypeOK
  <2>3. 0 \in 0..ClaimTries
    BY ConstantsAssumption DEF ConstantsAssumption
  <2>4. r \in JobRow
    BY <1>8, ClaimedRow
  <2>5. PICK t \in Tx : tx' = [tx EXCEPT ![w] = t]
    <3> HIDE DEF r
    <3>1. tx' = [tx EXCEPT ![w].pc = "commit", ![w].op = "claim", ![w].tries = 0,
                           ![w].rows[j] = r]
      BY <1>8 DEF Claim, r
    <3> DEFINE u == [tx[w] EXCEPT !.rows[j] = r]
               t == [u EXCEPT !.pc = "commit", !.op = "claim", !.tries = 0]
    <3>2. u \in Tx
      BY <2>1, <2>4, RowStep
    <3>3. t \in Tx
      <4> HIDE DEF u
      <4> QED
        BY <2>3, <3>2 DEF Tx
    <3>4. tx' = [tx EXCEPT ![w] = t]
      BY <2>1, <3>1 DEF TypeOK, Tx
    <3> QED
      BY <3>3, <3>4
  <2> QED
    BY <1>8, <2>5, TxStep DEF Claim
<1>9. ASSUME NEW w \in Workers, NEW j \in Jobs, GiveUp(w, j)
      PROVE  TypeOK'
  <2> DEFINE r == Judged(job[j], "FAILED")
             u == [tx[w] EXCEPT !.pc = "claim", !.op = "claim", !.tries = TriesLeft(w) - 1,
                                !.rows[j] = r]
  <2>1. tx[w] \in Tx
    BY DEF TypeOK
  <2>2. job[j] \in JobRow
    BY <1>9, WaitingJob DEF GiveUp, Oldest
  <2>3. r \in JobRow
    BY <2>2, JudgedType
  <2>4. TriesLeft(w) - 1 \in 0..ClaimTries
    BY <1>9, <2>1, ConstantsAssumption DEF GiveUp, TriesLeft, Tx, ConstantsAssumption
  <2>5. u \in Tx
    <3> HIDE DEF r
    <3> QED
      BY <2>1, <2>3, <2>4 DEF Tx
  <2>6. tx' = [tx EXCEPT ![w] = EvaluateIfSubmit(j, u)]
    BY <1>9 DEF GiveUp
  <2> HIDE DEF u
  <2> QED
    BY <1>9, <2>2, <2>5, <2>6, EvaluateIfSubmitType, TxStep DEF GiveUp
<1>10. ASSUME NEW w \in Workers, NoJob(w)
       PROVE  TypeOK'
  <2>1. tx[w] \in Tx /\ 0 \in 0..ClaimTries
    BY ConstantsAssumption DEF TypeOK, ConstantsAssumption
  <2>2. PICK t \in Tx : tx' = [tx EXCEPT ![w] = t]
    BY <1>10, <2>1 DEF NoJob, Tx
  <2> QED
    BY <1>10, <2>2, TxStep DEF NoJob
<1>11. ASSUME NEW w \in Workers, NEW status \in {"COMPLETED", "FAILED"}, Report(w, status)
       PROVE  TypeOK'
  <2> DEFINE j == work[w].job
             r == Judged(job[j], status)
             u == [NoTx EXCEPT !.pc = "commit", !.op = "report", !.rows[j] = r]
  <2>1. j \in Jobs /\ job[j] # None
    BY <1>11 DEF Report, IInv, WorkInv, TypeOK, Work
  <2>2. job[j] \in JobRow
    BY <2>1 DEF TypeOK
  <2>3. r \in JobRow
    BY <2>2, JudgedType
  <2>4. u \in Tx
    <3> HIDE DEF r, j
    <3> QED
      BY <2>1, <2>3, NoTxType DEF Tx
  <2>5. tx' = [tx EXCEPT ![w] = EvaluateIfSubmit(j, u)]
    BY <1>11 DEF Report
  <2> HIDE DEF u, j
  <2> QED
    BY <1>11, <2>1, <2>2, <2>4, <2>5, EvaluateIfSubmitType, TxStep DEF Report
<1>12. ASSUME NEW w \in Workers, Refused(w) \/ Restart(w)
       PROVE  TypeOK'
  BY <1>12, ConstantsAssumption DEF Refused, Restart, TypeOK, ConstantsAssumption
<1>13. ASSUME NEW p \in Procs, Commit(p)
       PROVE  TypeOK'
  <2>1. job' \in [Jobs -> JobRow \cup {None}]
    BY <1>13, ViewType DEF Commit
  <2>2. finished' \subseteq Attempts
    BY <1>13 DEF Commit, Ended, IInv, TxInv, Holding, TypeOK, Tx
  <2>3. over' \in [Attempts -> -Duration..EvalWait]
    BY <1>13, ConstantsAssumption DEF Commit, TypeOK, ConstantsAssumption
  <2>4. result' \in [Attempts -> {None} \cup SUBSET Jobs]
    <3>1. tx[p].res \in [Attempts -> {None} \cup SUBSET Jobs]
      BY DEF TypeOK, Tx
    <3> QED
      BY <1>13, <3>1 DEF Commit, TypeOK
  <2>5. work' \in [Workers -> Work \cup {None}]
    <3>1. p \in Workers => Answered(p) \in Work \cup {None}
      BY DEF Answered, Work
    <3> QED
      BY <1>13, <3>1 DEF Commit, TypeOK
  <2>6. tx' \in [Procs -> Tx]
    BY <1>13, NoTxType DEF Commit, TypeOK
  <2> QED
    BY <1>13, <2>1, <2>2, <2>3, <2>4, <2>5, <2>6 DEF Commit, TypeOK
<1>14. ASSUME NEW p \in Procs, NEW answer \in {"raised", "error"},
              Crash(p, answer) \/ DeadlockVictim(p)
       PROVE  TypeOK'
  <2>1. work' \in [Workers -> Work \cup {None}]
    BY <1>14 DEF Crash, DeadlockVictim, OwesFailure, TypeOK, Work
  <2>2. faults' \in 0..MaxFaults
    BY <1>14, ConstantsAssumption DEF Crash, DeadlockVictim, TypeOK, ConstantsAssumption
  <2>3. tx' \in [Procs -> Tx]
    BY <1>14, NoTxType DEF Crash, DeadlockVictim, Rollback, TypeOK
  <2> QED
    BY <1>14, <2>1, <2>2, <2>3 DEF Crash, DeadlockVictim, Rollback, TypeOK
<1> QED
  BY <1>1, <1>2, <1>3, <1>4, <1>5, <1>6, <1>7, <1>8, <1>9, <1>10, <1>11, <1>12, <1>13, <1>14
     DEF Next, Ask, Serve, Evaluate, Look, Poll, Answer

-----------------------------------------------------------------------------
(* Steps of one transaction that commit nothing. *)

\* A transaction that another one's step does not touch keeps what it relies on.
LEMMA OthersKeep ==
    ASSUME NEW o \in Procs, TxInv(o), UNCHANGED <<job, finished, result>>, tx'[o] = tx[o]
    PROVE  TxInv(o)'
<1>1. View(o)' = View(o) /\ Ended(o)' = Ended(o)
  BY DEF View, Ended
<1>2. ASSUME NEW a, NEW S
      PROVE  Submissions(View(o), a, S)' = Submissions(View(o), a, S)
  BY <1>1 DEF Submissions, Rows
<1>3. Evaluating(o)' /\ Counting(o)'
  BY <1>1, <1>2 DEF TxInv, Evaluating, Counting, Settled
<1>4. Idle(o)' /\ ClaimOnly(o)' /\ Evaluates(o)' /\ Holding(o)' /\ Written(o)' /\ PendExists(o)'
  BY DEF TxInv, Idle, ClaimOnly, Evaluates, Holding, Written, Replaces, PendExists
<1> QED
  BY <1>3, <1>4 DEF TxInv

LEMMA LocalStep ==
    ASSUME IInv, TypeOK', NEW p \in Procs, UNCHANGED <<job, finished, result>>,
           \A o \in Procs \ {p} : tx'[o] = tx[o],
           TxInv(p)', \A o \in Procs \ {p} : Apart(p, o)', WorkInv'
    PROVE  IInv'
<1>1. \A o \in Procs : TxInv(o)'
  BY OthersKeep DEF IInv
<1>2. AllApart'
  <2>1. SUFFICES ASSUME NEW x \in Procs, NEW o \in Procs, x # o
                 PROVE  Apart(x, o)'
    BY DEF AllApart
  <2>2. CASE x # p /\ o # p
    BY <2>1, <2>2 DEF IInv, AllApart, Apart
  <2>3. CASE x = p
    BY <2>1, <2>3
  <2>4. CASE o = p
    BY <2>1, <2>4 DEF Apart
  <2> QED
    BY <2>2, <2>3, <2>4
<1>3. ResultOfFinished' /\ ResultWaits' /\ JudgedIsCounted'
  BY DEF IInv, ResultOfFinished, ResultWaits, JudgedIsCounted, Submissions, Rows
<1> QED
  BY <1>1, <1>2, <1>3 DEF IInv

\* A step that rolls p's transaction back, or only changes what runners work on.
LEMMA FreshTx ==
    ASSUME NEW p \in Procs, tx'[p] = NoTx, finished \subseteq Attempts, finished' = finished
    PROVE  TxInv(p)' /\ \A o \in Procs \ {p} : Apart(p, o)'
<1>1. /\ NoTx.pc = "idle" /\ NoTx.op = "read" /\ NoTx.holds = None /\ NoTx.att = None
      /\ NoTx.pend = {} /\ NoTx.rows = [j \in Jobs |-> None]
      /\ NoTx.res = [a \in Attempts |-> None]
  BY DEF NoTx
<1>2. None \notin finished
  BY ConstantsAssumption DEF ConstantsAssumption
<1>3. Idle(p)' /\ ClaimOnly(p)' /\ Evaluates(p)' /\ Holding(p)' /\ Written(p)' /\ PendExists(p)'
  BY <1>1, <1>2 DEF Idle, ClaimOnly, Evaluates, Holding, Written, PendExists
<1>4. Evaluating(p)' /\ Counting(p)'
  BY <1>1 DEF Evaluating, Counting, Settled
<1> QED
  BY <1>1, <1>3, <1>4 DEF TxInv, Apart

\* What p sees of the submissions of a, row by row, before a step and after it.
LEMMA Seen ==
    ASSUME NEW p, NEW a, NEW S, NEW j
    PROVE  /\ j \in Submissions(View(p), a, S) <=>
                 /\ j \in Jobs
                 /\ LET r == IF tx[p].rows[j] # None THEN tx[p].rows[j] ELSE job[j]
                    IN  r # None /\ r.kind = "SUBMIT" /\ r.att = a /\ r.status \in S
           /\ j \in Submissions(View(p), a, S)' <=>
                 /\ j \in Jobs
                 /\ LET r == IF tx'[p].rows[j] # None THEN tx'[p].rows[j] ELSE job'[j]
                    IN  r # None /\ r.kind = "SUBMIT" /\ r.att = a /\ r.status \in S
BY DEF Submissions, Rows, View

\* A transaction that has evaluated nothing yet relies on nothing but what it wrote.
LEMMA StartedTx ==
    ASSUME NEW p \in Procs, tx'[p].pc \in {"consider", "commit"},
           tx'[p].pc = "consider" => tx'[p].att # None,
           tx'[p].res = [a \in Attempts |-> None], tx'[p].pend = {},
           Holding(p)', Written(p)'
    PROVE  TxInv(p)'
BY DEF TxInv, Idle, ClaimOnly, Evaluates, PendExists, Evaluating, Counting, Settled

LEMMA RequestStep ==
    ASSUME IInv, TypeOK', NEW c \in Clients, NEW a \in Attempts, NEW q \in Questions,
           NEW kind \in Kinds, NEW key \in Keys \cup {None}, NEW j \in Jobs,
           Request(c, a, q, kind, key, j)
    PROVE  IInv'
<1> DEFINE r == NewJob(kind, a, q, key)
<1>0. /\ c \in Procs /\ TypeOK /\ tx \in [Procs -> Tx]
      /\ a # None /\ UNCHANGED <<job, finished, result, work>>
      /\ \A o \in Procs \ {c} : tx'[o] = tx[o]
  BY ConstantsAssumption DEF Request, IInv, TypeOK, ConstantsAssumption
<1>1. /\ tx'[c].pc = "commit" /\ tx'[c].op = "request" /\ tx'[c].holds = a
      /\ tx'[c].rows = [i \in Jobs |-> IF i = j THEN r ELSE None]
      /\ tx'[c].res = [b \in Attempts |-> None] /\ tx'[c].pend = {}
  BY <1>0 DEF Request, NoTx
<1>2. r.status = "QUEUED" /\ r.att = a
  BY DEF NewJob
<1>3. job[j] = None /\ \A p \in Procs : tx[p].rows[j] = None
  <2>1. j >= j
    BY ConstantsAssumption DEF Jobs, ConstantsAssumption
  <2> QED
    BY <2>1 DEF Request, NextJobs, Taken
<1>4. a \notin finished /\ \A p \in Procs : tx[p].holds # a
  BY DEF Request, Accepts, Unheld
<1> HIDE DEF r
<1>5. TxInv(c)'
  <2>1. Holding(c)'
    BY <1>0, <1>1, <1>4 DEF Holding
  <2>2. Written(c)'
    BY <1>0, <1>1, <1>2, <1>3 DEF Written, Replaces
  <2> QED
    BY <1>0, <1>1, <2>1, <2>2, StartedTx
<1>6. \A o \in Procs \ {c} : Apart(c, o)'
  BY <1>0, <1>1, <1>3, <1>4 DEF Apart
<1>7. WorkInv'
  BY <1>0 DEF IInv, WorkInv
<1> QED
  BY <1>0, <1>5, <1>6, <1>7, LocalStep

LEMMA AskStep ==
    ASSUME IInv, TypeOK', NEW c \in Clients, NEW a \in Attempts, Finish(c, a) \/ ReadResult(c, a)
    PROVE  IInv'
<1>0. /\ c \in Procs /\ tx \in [Procs -> Tx] /\ a # None /\ None \notin finished
      /\ UNCHANGED <<job, finished, result, work>>
      /\ \A o \in Procs \ {c} : tx'[o] = tx[o]
  BY ConstantsAssumption DEF Finish, ReadResult, IInv, TypeOK, ConstantsAssumption
<1>1. /\ tx'[c].pc = "consider" /\ tx'[c].att = a
      /\ tx'[c].rows = [i \in Jobs |-> None]
      /\ tx'[c].res = [b \in Attempts |-> None] /\ tx'[c].pend = {}
      /\ \/ /\ tx'[c].op = "finish" /\ tx'[c].holds = a
            /\ a \notin finished /\ \A p \in Procs : tx[p].holds # a
         \/ tx'[c].op = "read" /\ tx'[c].holds = None
  <2>1. CASE Finish(c, a)
    BY <1>0, <2>1 DEF Finish, NoTx, Unheld
  <2>2. CASE ReadResult(c, a)
    BY <1>0, <2>2 DEF ReadResult, NoTx
  <2> QED
    BY <2>1, <2>2
<1>2. TxInv(c)'
  <2>1. Holding(c)' /\ Written(c)'
    BY <1>0, <1>1 DEF Holding, Written
  <2> QED
    BY <1>0, <1>1, <2>1, StartedTx
<1>3. \A o \in Procs \ {c} : Apart(c, o)'
  BY <1>0, <1>1 DEF Apart
<1>4. WorkInv'
  BY <1>0 DEF IInv, WorkInv
<1> QED
  BY <1>0, <1>2, <1>3, <1>4, LocalStep

LEMMA ReportStep ==
    ASSUME IInv, TypeOK', NEW w \in Workers, NEW status \in {"COMPLETED", "FAILED"},
           Report(w, status)
    PROVE  IInv'
<1> DEFINE j == work[w].job
           r == Judged(job[j], status)
<1>0. /\ w \in Procs /\ tx \in [Procs -> Tx] /\ None \notin finished
      /\ UNCHANGED <<job, finished, result, work>>
      /\ \A o \in Procs \ {w} : tx'[o] = tx[o]
  BY ConstantsAssumption DEF Report, IInv, TypeOK, ConstantsAssumption
<1>1. /\ j \in Jobs /\ job[j] # None /\ job[j] \in JobRow
      /\ job[j].status = "RUNNING" /\ job[j].worker = w
      /\ \A o \in Procs \ {w} : tx[o].rows[j] = None
  BY DEF Report, IInv, WorkInv, TypeOK, Work, HeldBy, Unlocked
<1>2. job[j].att # None
  BY <1>1, ConstantsAssumption DEF JobRow, ConstantsAssumption
<1>3. /\ r.kind = job[j].kind /\ r.att = job[j].att /\ r.key = job[j].key
      /\ r.ques = job[j].ques /\ r.age = job[j].age
      /\ r.status = status /\ r.claims = job[j].claims
  BY <1>1 DEF Judged, JobRow
<1>4. /\ tx'[w].pc \in {"consider", "commit"} /\ tx'[w].op = "report" /\ tx'[w].holds = None
      /\ tx'[w].pc = "consider" => tx'[w].att # None
      /\ tx'[w].rows = [i \in Jobs |-> IF i = j THEN r ELSE None]
      /\ tx'[w].res = [b \in Attempts |-> None] /\ tx'[w].pend = {}
  <2> DEFINE u == [NoTx EXCEPT !.pc = "commit", !.op = "report", !.rows[j] = r]
  <2>1. /\ u.pc = "commit" /\ u.op = "report" /\ u.holds = None
        /\ u.rows = [i \in Jobs |-> IF i = j THEN r ELSE None]
        /\ u.res = [b \in Attempts |-> None] /\ u.pend = {}
        /\ u \in Tx
    <3>1. r \in JobRow
      BY <1>1, JudgedType
    <3> HIDE DEF r, j
    <3> QED
      BY <1>1, <3>1, NoTxType DEF NoTx, Tx
  <2>2. tx'[w] = EvaluateIfSubmit(j, u)
    BY <1>0 DEF Report
  <2> HIDE DEF u, r, j
  <2> QED
    BY <1>2, <2>1, <2>2 DEF EvaluateIfSubmit, Tx
<1> HIDE DEF r, j
<1>5. TxInv(w)'
  <2>1. Holding(w)'
    BY <1>0, <1>4 DEF Holding
  <2>2. Written(w)'
    BY <1>0, <1>1, <1>3, <1>4 DEF Written, Replaces
  <2> QED
    BY <1>0, <1>4, <2>1, <2>2, StartedTx
<1>6. \A o \in Procs \ {w} : Apart(w, o)'
  BY <1>0, <1>1, <1>4 DEF Apart
<1>7. WorkInv'
  BY <1>0 DEF IInv, WorkInv
<1> QED
  BY <1>0, <1>5, <1>6, <1>7, LocalStep

\* Steps of ensure_result that only read: what p wrote and holds stays as it is.
LEMMA ReadingStep ==
    ASSUME IInv, TypeOK', NEW p \in Procs, Leave(p) \/ Consider(p) \/ Score(p)
    PROVE  IInv'
<1>0. /\ TxInv(p) /\ TypeOK /\ tx[p] \in Tx
      /\ UNCHANGED <<job, finished, result, work>>
      /\ \A o \in Procs \ {p} : tx'[o] = tx[o]
  BY DEF Leave, Consider, Score, IInv, TypeOK
<1>1. /\ tx'[p].rows = tx[p].rows /\ tx'[p].res = tx[p].res /\ tx'[p].holds = tx[p].holds
      /\ tx'[p].op = tx[p].op /\ tx'[p].att = tx[p].att
  BY <1>0 DEF Leave, Consider, Score, TypeOK, Tx
<1>2. /\ tx[p].pc \in {"consider", "score"}
      /\ tx'[p].pc \in {"claim", "commit", "fail", "score", "insert"}
      /\ tx'[p].pc = "claim" => tx[p].op = "claim"
  BY <1>0 DEF Leave, Consider, Score, TypeOK, Tx, After
<1>3. /\ tx'[p].pc = "fail" =>
            /\ tx'[p].pend = Submissions(View(p), tx[p].att, InFlight)
            /\ tx[p].att \in Ended(p)
      /\ tx'[p].pc = "score" =>
            /\ Submissions(View(p), tx[p].att, InFlight) = {}
            /\ tx[p].att \in Ended(p)
      /\ tx'[p].pc = "insert" =>
            /\ tx[p].pc = "score"
            /\ tx'[p].counted = Submissions(View(p), tx[p].att, {"COMPLETED"})
      /\ \/ tx'[p].pend = tx[p].pend
         \/ tx'[p].pend = Submissions(View(p), tx[p].att, InFlight)
  BY <1>0 DEF Leave, Consider, Score, TypeOK, Tx, After, Pending
<1>4. /\ Ended(p)' = Ended(p)
      /\ \A a, S : Submissions(View(p), a, S)' = Submissions(View(p), a, S)
  BY <1>0, <1>1 DEF Ended, Submissions, Rows, View
<1>5. TxInv(p)'
  <2>1. Idle(p)' /\ ClaimOnly(p)' /\ Evaluates(p)' /\ Holding(p)'
    BY <1>0, <1>1, <1>2 DEF TxInv, Idle, ClaimOnly, Evaluates, Holding
  <2>2. Written(p)'
    BY <1>0, <1>1, <1>2 DEF TxInv, Written, Replaces
  <2>3. PendExists(p)'
    <3>1. SUFFICES ASSUME NEW j \in Submissions(View(p), tx[p].att, InFlight)
                   PROVE  job[j] # None
      BY <1>0, <1>3 DEF TxInv, PendExists
    <3>2. tx[p].rows[j] # None => tx[p].rows[j].status \notin InFlight
      BY <1>0, <1>2, <3>1, Seen DEF TxInv, Written, Replaces
    <3> QED
      BY <3>1, <3>2, Seen
  <2>4. Evaluating(p)'
    <3>1. ASSUME NEW a \in Attempts, Settled(p, a)'
          PROVE  a \in Ended(p) /\ Submissions(View(p), a, InFlight) = {}
      <4>1. CASE Settled(p, a)
        BY <1>0, <4>1 DEF TxInv, Evaluating
      <4>2. CASE ~Settled(p, a)
        BY <1>1, <1>3, <3>1, <4>2 DEF Settled
      <4> QED
        BY <4>1, <4>2
    <3>2. ASSUME NEW a \in Attempts, tx'[p].att = a, tx'[p].pc = "fail"
          PROVE  a \in Ended(p) /\ Submissions(View(p), a, InFlight) \subseteq tx'[p].pend
      BY <1>1, <1>3, <3>2
    <3> QED
      BY <1>4, <3>1, <3>2 DEF Evaluating
  <2>5. Counting(p)'
    BY <1>0, <1>1, <1>3, <1>4 DEF TxInv, Counting
  <2> QED
    BY <2>1, <2>2, <2>3, <2>4, <2>5 DEF TxInv
<1>6. \A o \in Procs \ {p} : Apart(p, o)'
  BY <1>0, <1>1 DEF IInv, AllApart, Apart
<1>7. WorkInv'
  BY <1>0 DEF IInv, WorkInv
<1> QED
  BY <1>0, <1>5, <1>6, <1>7, LocalStep

LEMMA FailStep ==
    ASSUME IInv, TypeOK', NEW p \in Procs, NEW j \in Jobs, FailPending(p, j)
    PROVE  IInv'
<1> DEFINE r == [View(p)[j] EXCEPT !.status = "FAILED"]
<1>0. /\ TxInv(p) /\ TypeOK /\ tx[p] \in Tx
      /\ UNCHANGED <<job, finished, result, work>>
      /\ \A o \in Procs \ {p} : tx'[o] = tx[o] /\ tx[o].rows[j] = None
      /\ tx[p].pc = "fail" /\ j \in tx[p].pend
  BY SMTT(30) DEF FailPending, IInv, TypeOK, Unlocked, Oldest
<1>1. /\ tx'[p].rows = [tx[p].rows EXCEPT ![j] = r]
      /\ tx'[p].pend = tx[p].pend \ {j}
      /\ tx'[p].pc = IF tx[p].pend = {j} THEN "score" ELSE "fail"
      /\ tx'[p].res = tx[p].res /\ tx'[p].holds = tx[p].holds
      /\ tx'[p].op = tx[p].op /\ tx'[p].att = tx[p].att
  BY <1>0 DEF FailPending, TypeOK, Tx
<1>2. job[j] # None /\ job[j] \in JobRow
  BY <1>0 DEF TxInv, PendExists, TypeOK
<1>3. /\ r.status = "FAILED" /\ r # None
      /\ r.kind = job[j].kind /\ r.att = job[j].att /\ r.key = job[j].key
      /\ r.ques = job[j].ques /\ r.age = job[j].age
  <2>1. View(p)[j] \in JobRow
    BY <1>0, <1>2, ViewType DEF TypeOK
  <2>2. /\ View(p)[j].kind = job[j].kind /\ View(p)[j].att = job[j].att
        /\ View(p)[j].key = job[j].key /\ View(p)[j].ques = job[j].ques
        /\ View(p)[j].age = job[j].age
    BY <1>0, <1>2, ViewType DEF TxInv, Written, Replaces
  <2>3. r \in JobRow
    BY <2>1 DEF JobRow
  <2> QED
    BY <2>1, <2>2, <2>3, NoneAssumption DEF JobRow, NoneAssumption
<1> HIDE DEF r
<1>4. /\ tx'[p].rows[j] = r
      /\ \A i \in Jobs \ {j} : tx'[p].rows[i] = tx[p].rows[i]
  BY <1>0, <1>1 DEF Tx
<1>5. ASSUME NEW a, NEW S, "FAILED" \notin S
      PROVE  Submissions(View(p), a, S)' = Submissions(View(p), a, S) \ {j}
  <2>1. \A i : i \in Submissions(View(p), a, S)' <=> i \in Submissions(View(p), a, S) /\ i # j
    BY <1>0, <1>3, <1>4, <1>5, Seen
  <2> QED
    BY <2>1
<1>6. Ended(p)' = Ended(p)
  BY <1>0, <1>1 DEF Ended
<1>7. TxInv(p)'
  <2>1. Idle(p)' /\ ClaimOnly(p)' /\ Evaluates(p)' /\ Holding(p)' /\ PendExists(p)'
    BY <1>0, <1>1 DEF TxInv, Idle, ClaimOnly, Evaluates, Holding, PendExists
  <2>2. Written(p)'
    <3>1. SUFFICES ASSUME NEW i \in Jobs, tx'[p].rows[i] # None
                   PROVE  Replaces(p, tx[p].rows[i], job[i])' 
      BY DEF Written
    <3>2. CASE i = j
      BY <1>0, <1>2, <1>3, <1>4, <3>2 DEF Replaces
    <3>3. CASE i # j
      BY <1>0, <1>1, <1>4, <3>1, <3>3 DEF TxInv, Written, Replaces
    <3> QED
      BY <3>2, <3>3
  <2>3. Evaluating(p)'
    <3>1. ASSUME NEW a \in Attempts, Settled(p, a)'
          PROVE  a \in Ended(p) /\ Submissions(View(p), a, InFlight)' = {}
      <4>1. CASE Settled(p, a)
        BY <1>0, <1>5, <4>1 DEF TxInv, Evaluating
      <4>2. CASE ~Settled(p, a)
        BY <1>0, <1>1, <1>5, <3>1, <4>2 DEF Settled, TxInv, Evaluating
      <4> QED
        BY <4>1, <4>2
    <3>2. ASSUME NEW a \in Attempts, tx'[p].att = a, tx'[p].pc = "fail"
          PROVE  a \in Ended(p) /\ Submissions(View(p), a, InFlight)' \subseteq tx'[p].pend
      BY <1>0, <1>1, <1>5, <3>2 DEF TxInv, Evaluating
    <3> QED
      BY <1>6, <3>1, <3>2 DEF Evaluating
  <2>4. Counting(p)'
    BY <1>0, <1>1, <1>5 DEF TxInv, Counting
  <2> QED
    BY <2>1, <2>2, <2>3, <2>4 DEF TxInv
<1>8. \A o \in Procs \ {p} : Apart(p, o)'
  BY <1>0, <1>1, <1>4 DEF IInv, AllApart, Apart
<1>9. WorkInv'
  BY <1>0 DEF IInv, WorkInv
<1> QED
  BY <1>0, <1>7, <1>8, <1>9, LocalStep

LEMMA InsertStep ==
    ASSUME IInv, TypeOK', NEW p \in Procs, InsertResult(p)
    PROVE  IInv'
<1> DEFINE a == tx[p].att
<1>0. /\ TxInv(p) /\ TypeOK /\ tx[p] \in Tx
      /\ UNCHANGED <<job, finished, result, work>>
      /\ \A o \in Procs \ {p} : tx'[o] = tx[o] /\ tx[o].res[a] = None
      /\ tx[p].pc = "insert"
  BY DEF InsertResult, IInv, TypeOK
<1>1. a \in Attempts
  BY <1>0, SMTT(30) DEF TxInv, Evaluates, Tx
<1>2. /\ tx'[p].rows = tx[p].rows /\ tx'[p].holds = tx[p].holds
      /\ tx'[p].op = tx[p].op /\ tx'[p].att = tx[p].att /\ tx'[p].pend = tx[p].pend
      /\ tx'[p].pc = After(p)
      /\ tx'[p].res = [tx[p].res EXCEPT ![a] = IF HasWinner(a) THEN @ ELSE tx[p].counted]
  BY <1>0 DEF InsertResult, TypeOK, Tx
<1>3. /\ \A b \in Attempts \ {a} : tx'[p].res[b] = tx[p].res[b]
      /\ tx'[p].res[a] = IF result[a] # None THEN tx[p].res[a] ELSE tx[p].counted
  BY <1>0, <1>1, <1>2 DEF HasWinner, Tx
<1>4. /\ Ended(p)' = Ended(p)
      /\ \A b, S : Submissions(View(p), b, S)' = Submissions(View(p), b, S)
  BY <1>0, <1>2 DEF Ended, Submissions, Rows, View
<1>5. /\ Submissions(View(p), a, InFlight) = {} /\ a \in Ended(p)
      /\ Submissions(View(p), a, {"COMPLETED"}) \subseteq tx[p].counted
  BY <1>0, <1>1 DEF TxInv, Evaluating, Settled, Counting
<1> HIDE DEF a
<1>6. TxInv(p)'
  <2>1. Idle(p)' /\ ClaimOnly(p)' /\ Evaluates(p)' /\ Holding(p)' /\ PendExists(p)'
    BY <1>0, <1>2 DEF TxInv, Idle, ClaimOnly, Evaluates, Holding, PendExists, After
  <2>2. Written(p)'
    BY <1>0, <1>2 DEF TxInv, Written, Replaces
  <2>3. Evaluating(p)'
    <3>1. tx'[p].pc \in {"claim", "commit"}
      BY <1>2 DEF After
    <3>2. ASSUME NEW b \in Attempts, tx'[p].res[b] # None
          PROVE  b \in Ended(p) /\ Submissions(View(p), b, InFlight) = {}
      BY <1>0, <1>3, <1>5, <3>2 DEF TxInv, Evaluating, Settled
    <3> QED
      BY <1>4, <3>1, <3>2 DEF Evaluating, Settled
  <2>4. Counting(p)'
    <3>1. tx'[p].pc # "insert"
      BY <1>2 DEF After
    <3>2. ASSUME NEW b \in Attempts, tx'[p].res[b] # None
          PROVE  result[b] = None /\ Submissions(View(p), b, {"COMPLETED"}) \subseteq tx'[p].res[b]
      BY <1>0, <1>3, <1>5, <3>2 DEF TxInv, Counting
    <3> QED
      BY <1>0, <1>4, <3>1, <3>2 DEF Counting
  <2> QED
    BY <2>1, <2>2, <2>3, <2>4 DEF TxInv
<1>7. \A o \in Procs \ {p} : Apart(p, o)'
  BY <1>0, <1>2, <1>3 DEF IInv, AllApart, Apart
<1>8. WorkInv'
  BY <1>0 DEF IInv, WorkInv
<1> QED
  BY <1>0, <1>6, <1>7, <1>8, LocalStep

LEMMA NoJobStep ==
    ASSUME IInv, TypeOK', NEW w \in Workers, NoJob(w)
    PROVE  IInv'
<1>0. /\ w \in Procs /\ TxInv(w) /\ TypeOK /\ tx[w] \in Tx
      /\ UNCHANGED <<job, finished, result, work>>
      /\ \A o \in Procs \ {w} : tx'[o] = tx[o]
  BY DEF NoJob, IInv, TypeOK
<1>1. /\ tx'[w].rows = tx[w].rows /\ tx'[w].res = tx[w].res /\ tx'[w].holds = tx[w].holds
      /\ tx'[w].op = tx[w].op /\ tx'[w].pend = tx[w].pend /\ tx'[w].pc = "commit"
  BY <1>0 DEF NoJob, TypeOK, Tx
<1>2. /\ Ended(w)' = Ended(w)
      /\ \A a, S : Submissions(View(w), a, S)' = Submissions(View(w), a, S)
  BY <1>0, <1>1 DEF Ended, Submissions, Rows, View
<1>3. TxInv(w)'
  <2>1. Idle(w)' /\ ClaimOnly(w)' /\ Evaluates(w)' /\ Holding(w)' /\ PendExists(w)'
    BY <1>0, <1>1 DEF TxInv, Idle, ClaimOnly, Evaluates, Holding, PendExists
  <2>2. Written(w)'
    BY <1>0, <1>1 DEF TxInv, Written, Replaces
  <2>3. Evaluating(w)' /\ Counting(w)'
    BY <1>0, <1>1, <1>2 DEF TxInv, Evaluating, Counting, Settled
  <2> QED
    BY <2>1, <2>2, <2>3 DEF TxInv
<1>4. \A o \in Procs \ {w} : Apart(w, o)'
  BY <1>0, <1>1 DEF IInv, AllApart, Apart
<1>5. WorkInv'
  BY <1>0 DEF IInv, WorkInv
<1> QED
  BY <1>0, <1>3, <1>4, <1>5, LocalStep

\* A claim does not take a submission whose attempt it has evaluated: none was pending.
LEMMA ClaimStep ==
    ASSUME IInv, TypeOK', NEW w \in Workers, NEW j \in Jobs, Claim(w, j)
    PROVE  IInv'
<1> DEFINE r == [job[j] EXCEPT !.status = "RUNNING", !.worker = w, !.lease = Lease,
                               !.claims = @ + 1]
<1>0. /\ w \in Procs /\ TxInv(w) /\ TypeOK /\ tx[w] \in Tx
      /\ UNCHANGED <<job, finished, result, work>>
      /\ \A o \in Procs \ {w} : tx'[o] = tx[o]
      /\ j \in Waiting(w) /\ Claiming(w)
  BY DEF Claim, IInv, TypeOK, Oldest
<1>1. /\ job[j] \in JobRow /\ job[j] # None
      /\ tx[w].rows[j] = None
      /\ job[j].status \in InFlight
      /\ job[j].status = "RUNNING" => job[j].lease = 0
      /\ \A o \in Procs \ {w} : tx[o].rows[j] = None
  BY <1>0, WaitingJob
<1>2. /\ tx'[w].rows = [tx[w].rows EXCEPT ![j] = r]
      /\ tx'[w].res = tx[w].res /\ tx'[w].holds = tx[w].holds
      /\ tx'[w].op = "claim" /\ tx'[w].pend = tx[w].pend /\ tx'[w].pc = "commit"
  BY <1>0 DEF Claim, TypeOK, Tx
<1>3. /\ r.status = "RUNNING" /\ r # None
      /\ r.kind = job[j].kind /\ r.att = job[j].att /\ r.key = job[j].key
      /\ r.ques = job[j].ques /\ r.age = job[j].age
  <2>1. tx'[w].rows[j] = r /\ tx'[w].rows[j] \in JobRow \cup {None}
    BY <1>0, <1>2 DEF Tx, TypeOK
  <2>2. /\ r.status = "RUNNING" /\ r.kind = job[j].kind /\ r.att = job[j].att
        /\ r.key = job[j].key /\ r.ques = job[j].ques /\ r.age = job[j].age
    BY <1>1 DEF JobRow
  <2>3. r # None
    BY <1>0, ClaimedRow, NoneAssumption DEF NoneAssumption
  <2> QED
    BY <2>2, <2>3
<1> HIDE DEF r
<1>4. /\ tx'[w].rows[j] = r
      /\ \A i \in Jobs \ {j} : tx'[w].rows[i] = tx[w].rows[i]
  BY <1>0, <1>2 DEF Tx
<1>5. tx[w].op # "finish" /\ Ended(w)' = Ended(w)
  BY <1>0, <1>2 DEF Claiming, TxInv, Idle, ClaimOnly, NoTx, Ended
<1>6. ASSUME NEW a \in Attempts, tx'[w].res[a] # None
      PROVE  /\ a \in Ended(w) /\ Submissions(View(w), a, InFlight) = {}
             /\ Submissions(View(w), a, InFlight)' = {}
             /\ result[a] = None
             /\ Submissions(View(w), a, {"COMPLETED"})' \subseteq tx'[w].res[a]
  <2>1. /\ a \in Ended(w) /\ Submissions(View(w), a, InFlight) = {}
        /\ result[a] = None /\ Submissions(View(w), a, {"COMPLETED"}) \subseteq tx[w].res[a]
    BY <1>0, <1>2, <1>6 DEF TxInv, Evaluating, Settled, Counting
  <2>2. ~(job[j].kind = "SUBMIT" /\ job[j].att = a)
    BY <1>1, <2>1, Seen
  <2>3. \A i : i \in Submissions(View(w), a, InFlight)' => i \in Submissions(View(w), a, InFlight)
    BY <1>0, <1>3, <1>4, <2>2, Seen
  <2>4. \A i : i \in Submissions(View(w), a, {"COMPLETED"})'
                  => i \in Submissions(View(w), a, {"COMPLETED"})
    BY <1>0, <1>3, <1>4, <2>2, Seen
  <2> QED
    BY <1>2, <2>1, <2>3, <2>4
<1>7. TxInv(w)'
  <2>1. Idle(w)' /\ ClaimOnly(w)' /\ Evaluates(w)' /\ Holding(w)' /\ PendExists(w)'
    BY <1>0, <1>2 DEF TxInv, Idle, ClaimOnly, Evaluates, Holding, PendExists
  <2>2. Written(w)'
    <3>1. SUFFICES ASSUME NEW i \in Jobs, tx'[w].rows[i] # None
                   PROVE  Replaces(w, tx[w].rows[i], job[i])'
      BY DEF Written
    <3>2. CASE i = j
      BY <1>0, <1>1, <1>2, <1>3, <1>4, <3>2 DEF Replaces
    <3>3. CASE i # j
      BY <1>0, <1>2, <1>4, <1>5, <3>1, <3>3 DEF TxInv, Written, Replaces, Claiming, Idle, NoTx,
         ClaimOnly
    <3> QED
      BY <3>2, <3>3
  <2>3. Evaluating(w)' /\ Counting(w)'
    BY <1>0, <1>2, <1>5, <1>6 DEF Evaluating, Counting, Settled
  <2> QED
    BY <2>1, <2>2, <2>3 DEF TxInv
<1>8. \A o \in Procs \ {w} : Apart(w, o)'
  BY <1>0, <1>1, <1>2, <1>4 DEF IInv, AllApart, Apart
<1>9. WorkInv'
  BY <1>0 DEF IInv, WorkInv
<1> QED
  BY <1>0, <1>7, <1>8, <1>9, LocalStep

LEMMA GiveUpStep ==
    ASSUME IInv, TypeOK', NEW w \in Workers, NEW j \in Jobs, GiveUp(w, j)
    PROVE  IInv'
<1> DEFINE r == Judged(job[j], "FAILED")
<1>0. /\ w \in Procs /\ TxInv(w) /\ TypeOK /\ tx[w] \in Tx
      /\ UNCHANGED <<job, finished, result, work>>
      /\ \A o \in Procs \ {w} : tx'[o] = tx[o]
      /\ j \in Waiting(w) /\ Claiming(w)
  BY DEF GiveUp, IInv, TypeOK, Oldest
<1>1. /\ job[j] \in JobRow /\ job[j] # None
      /\ tx[w].rows[j] = None
      /\ \A o \in Procs \ {w} : tx[o].rows[j] = None
  BY <1>0, WaitingJob
<1>2. /\ tx'[w].rows = [tx[w].rows EXCEPT ![j] = r]
      /\ tx'[w].res = tx[w].res /\ tx'[w].holds = tx[w].holds
      /\ tx'[w].op = "claim" /\ tx'[w].pend = tx[w].pend
      /\ tx'[w].pc \in {"claim", "consider"}
      /\ tx'[w].pc = "consider" => tx'[w].att = job[j].att
  <2> DEFINE u == [tx[w] EXCEPT !.pc = "claim", !.op = "claim", !.tries = TriesLeft(w) - 1,
                                !.rows[j] = r]
  <2>1. /\ u.rows = [tx[w].rows EXCEPT ![j] = r] /\ u.res = tx[w].res
        /\ u.holds = tx[w].holds /\ u.op = "claim" /\ u.pend = tx[w].pend /\ u.pc = "claim"
    BY <1>0 DEF Tx
  <2>2. DOMAIN u = DOMAIN tx[w]
    BY <1>0 DEF Tx
  <2>3. tx'[w] = EvaluateIfSubmit(j, u)
    BY <1>0 DEF GiveUp, TypeOK
  <2> HIDE DEF u, r
  <2> QED
    BY <1>0, <2>1, <2>2, <2>3 DEF EvaluateIfSubmit, Tx
<1>3. /\ r.status = "FAILED" /\ r # None
      /\ r.kind = job[j].kind /\ r.att = job[j].att /\ r.key = job[j].key
      /\ r.ques = job[j].ques /\ r.age = job[j].age
  <2>1. r \in JobRow
    BY <1>1, JudgedType
  <2> QED
    BY <1>1, <2>1, NoneAssumption DEF Judged, JobRow, NoneAssumption
<1> HIDE DEF r
<1>4. /\ tx'[w].rows[j] = r
      /\ \A i \in Jobs \ {j} : tx'[w].rows[i] = tx[w].rows[i]
  BY <1>0, <1>2 DEF Tx
<1>5. /\ tx[w].op # "finish" /\ Ended(w)' = Ended(w)
      /\ job[j].att # None
  BY <1>0, <1>1, <1>2, ConstantsAssumption
     DEF Claiming, TxInv, Idle, ClaimOnly, NoTx, Ended, JobRow, ConstantsAssumption
<1>6. ASSUME NEW a, NEW S, "FAILED" \notin S
      PROVE  Submissions(View(w), a, S)' \subseteq Submissions(View(w), a, S)
  <2>1. \A i : i \in Submissions(View(w), a, S)' => i \in Submissions(View(w), a, S)
    BY <1>0, <1>3, <1>4, <1>6, Seen
  <2> QED
    BY <2>1
<1>7. TxInv(w)'
  <2>1. Idle(w)' /\ ClaimOnly(w)' /\ Evaluates(w)' /\ Holding(w)' /\ PendExists(w)'
    BY <1>0, <1>2, <1>5 DEF TxInv, Idle, ClaimOnly, Evaluates, Holding, PendExists
  <2>2. Written(w)'
    <3>1. SUFFICES ASSUME NEW i \in Jobs, tx'[w].rows[i] # None
                   PROVE  Replaces(w, tx[w].rows[i], job[i])'
      BY DEF Written
    <3>2. CASE i = j
      BY <1>0, <1>1, <1>3, <1>4, <3>2 DEF Replaces
    <3>3. CASE i # j
      BY <1>0, <1>2, <1>4, <1>5, <3>1, <3>3 DEF TxInv, Written, Replaces, Claiming, Idle, NoTx,
         ClaimOnly
    <3> QED
      BY <3>2, <3>3
  <2>3. Evaluating(w)' /\ Counting(w)'
    <3>1. ASSUME NEW a \in Attempts, tx'[w].res[a] # None
          PROVE  /\ a \in Ended(w) /\ Submissions(View(w), a, InFlight)' = {}
                 /\ result[a] = None
                 /\ Submissions(View(w), a, {"COMPLETED"})' \subseteq tx'[w].res[a]
      <4>1. /\ a \in Ended(w) /\ Submissions(View(w), a, InFlight) = {}
            /\ result[a] = None
            /\ Submissions(View(w), a, {"COMPLETED"}) \subseteq tx[w].res[a]
        BY <1>0, <1>2, <3>1 DEF TxInv, Evaluating, Settled, Counting
      <4>2. "FAILED" \notin InFlight /\ "FAILED" \notin {"COMPLETED"}
        OBVIOUS
      <4> QED
        BY <1>2, <1>6, <4>1, <4>2
    <3> QED
      BY <1>0, <1>2, <1>5, <3>1 DEF Evaluating, Counting, Settled
  <2> QED
    BY <2>1, <2>2, <2>3 DEF TxInv
<1>8. \A o \in Procs \ {w} : Apart(w, o)'
  BY <1>0, <1>1, <1>2, <1>4 DEF IInv, AllApart, Apart
<1>9. WorkInv'
  BY <1>0 DEF IInv, WorkInv
<1> QED
  BY <1>0, <1>7, <1>8, <1>9, LocalStep

\* A transaction that is rolled back, and a runner that forgets its job.
LEMMA LostStep ==
    ASSUME IInv, TypeOK', NEW p \in Procs,
           \/ \E answer \in {"raised", "error"} : Crash(p, answer)
           \/ DeadlockVictim(p)
    PROVE  IInv'
<1>0. /\ TypeOK /\ finished \subseteq Attempts /\ UNCHANGED <<job, finished, result>>
      /\ \A o \in Procs \ {p} : tx'[o] = tx[o]
      /\ tx'[p] = NoTx
  BY DEF Crash, DeadlockVictim, Rollback, IInv, TypeOK
<1>1. WorkInv'
  <2>1. \A w \in Workers : work'[w] # None => work[w] # None /\ work'[w].job = work[w].job
    BY <1>0 DEF Crash, DeadlockVictim, OwesFailure, TypeOK, Work
  <2> QED
    BY <1>0, <2>1 DEF IInv, WorkInv
<1> QED
  BY <1>0, <1>1, FreshTx, LocalStep

LEMMA ForgetStep ==
    ASSUME IInv, TypeOK', NEW w \in Workers, Refused(w) \/ Restart(w)
    PROVE  IInv'
<1>0. /\ w \in Procs /\ TypeOK /\ UNCHANGED <<job, finished, result, tx>>
  BY DEF Refused, Restart, IInv
<1>1. WorkInv'
  BY <1>0 DEF Refused, Restart, IInv, WorkInv, TypeOK
<1>2. TxInv(w)'
  BY <1>0, OthersKeep DEF IInv
<1>3. \A o \in Procs \ {w} : Apart(w, o)'
  BY <1>0 DEF IInv, AllApart, Apart
<1> QED
  BY <1>0, <1>1, <1>2, <1>3, LocalStep

-----------------------------------------------------------------------------
(* Time and commits, which every transaction notices. *)

\* Time changes no kind, attempt, key, status, runner or claim of a row.
LEMMA TickStep ==
    ASSUME IInv, TypeOK', Tick
    PROVE  IInv'
<1>0. TypeOK /\ UNCHANGED <<finished, result, work>>
  BY DEF IInv, Tick
<1>1. ASSUME NEW j \in Jobs
      PROVE  /\ job'[j] = None <=> job[j] = None
             /\ job[j] # None => job'[j] = Older(job[j]) /\ job[j] \in JobRow
  BY <1>0, OlderType, NoneAssumption DEF Tick, TypeOK, NoneAssumption
<1>2. ASSUME NEW p \in Procs
      PROVE  /\ \A j \in Jobs :
                   /\ tx'[p].rows[j] = None <=> tx[p].rows[j] = None
                   /\ tx[p].rows[j] # None =>
                         tx'[p].rows[j] = Older(tx[p].rows[j]) /\ tx[p].rows[j] \in JobRow
             /\ tx'[p].pc = tx[p].pc /\ tx'[p].op = tx[p].op /\ tx'[p].att = tx[p].att
             /\ tx'[p].holds = tx[p].holds /\ tx'[p].pend = tx[p].pend
             /\ tx'[p].counted = tx[p].counted /\ tx'[p].res = tx[p].res
             /\ tx[p] = NoTx => tx'[p] = NoTx
  <2> DEFINE rows == [j \in Jobs |-> IF tx[p].rows[j] = None THEN None
                                     ELSE Older(tx[p].rows[j])]
  <2>1. tx[p] \in Tx
    BY <1>0 DEF TypeOK
  <2>2. tx'[p] = [tx[p] EXCEPT !.rows = rows]
    BY DEF Tick
  <2>3. \A j \in Jobs :
          /\ rows[j] = None <=> tx[p].rows[j] = None
          /\ tx[p].rows[j] # None =>
                rows[j] = Older(tx[p].rows[j]) /\ tx[p].rows[j] \in JobRow
    BY <2>1, OlderType, NoneAssumption DEF Tx, NoneAssumption
  <2>4. tx[p] = NoTx => rows = [j \in Jobs |-> None]
    BY DEF NoTx
  <2>5. tx[p] = NoTx => tx'[p] = NoTx
    <3> HIDE DEF rows
    <3> QED
      BY <2>2, <2>4 DEF NoTx
  <2> HIDE DEF rows
  <2> QED
    BY <2>1, <2>2, <2>3, <2>5 DEF Tx
<1>3. ASSUME NEW p \in Procs, NEW a, NEW S
      PROVE  Submissions(View(p), a, S)' = Submissions(View(p), a, S)
  <2>1. ASSUME NEW j \in Jobs
        PROVE  j \in Submissions(View(p), a, S)' <=> j \in Submissions(View(p), a, S)
    <3>1. CASE tx[p].rows[j] # None
      BY <1>2, <3>1, Seen, OlderType
    <3>2. CASE tx[p].rows[j] = None
      BY <1>1, <1>2, <3>2, Seen, OlderType
    <3> QED
      BY <3>1, <3>2
  <2>2. \A j : /\ j \in Submissions(View(p), a, S)' => j \in Jobs
               /\ j \in Submissions(View(p), a, S) => j \in Jobs
    BY Seen
  <2> QED
    BY <2>1, <2>2
<1>4. ASSUME NEW a, NEW S
      PROVE  Submissions(job, a, S)' = Submissions(job, a, S)
  BY <1>1, OlderType DEF Submissions, Rows
<1>5. ASSUME NEW p \in Procs
      PROVE  TxInv(p)'
  <2>0. TxInv(p) /\ Ended(p)' = Ended(p)
    BY <1>0, <1>2 DEF IInv, Ended
  <2>1. Idle(p)' /\ ClaimOnly(p)' /\ Evaluates(p)' /\ Holding(p)'
    BY <1>0, <1>2, <2>0 DEF TxInv, Idle, ClaimOnly, Evaluates, Holding
  <2>2. PendExists(p)'
    <3>1. tx[p].pend \subseteq Jobs
      BY <1>0 DEF TypeOK, Tx
    <3> QED
      BY <1>1, <1>2, <2>0, <3>1 DEF TxInv, PendExists
  <2>3. Written(p)'
    <3>1. SUFFICES ASSUME NEW j \in Jobs, tx[p].rows[j] # None
                   PROVE  Replaces(p, tx[p].rows[j], job[j])'
      BY <1>2 DEF Written
    <3>2. Replaces(p, tx[p].rows[j], job[j])
      BY <2>0, <3>1 DEF TxInv, Written
    <3>3. CASE job[j] = None
      BY <1>1, <1>2, <3>1, <3>2, <3>3, OlderType DEF Replaces
    <3>4. CASE job[j] # None
      <4> DEFINE new == tx[p].rows[j]
                 new2 == tx'[p].rows[j]
                 old == job[j]
                 old2 == job'[j]
      <4>1. /\ new2.kind = new.kind /\ new2.att = new.att /\ new2.key = new.key
            /\ new2.ques = new.ques
            /\ new2.age = IF new.age > RateWindow THEN new.age ELSE new.age + 1
            /\ new2.status = new.status /\ new2.claims = new.claims
        BY <1>2, <3>1, OlderType
      <4>2. /\ old2.kind = old.kind /\ old2.att = old.att /\ old2.key = old.key
            /\ old2.ques = old.ques
            /\ old2.age = IF old.age > RateWindow THEN old.age ELSE old.age + 1
            /\ old2.status = old.status /\ old2.claims = old.claims
            /\ old2.worker = old.worker /\ old2 # None
            /\ old.lease = 0 => old2.lease = 0
        BY <1>1, <3>4, OlderType
      <4>3. tx'[p].pc = tx[p].pc /\ tx'[p].op = tx[p].op
        BY <1>2
      <4>4. Replaces(p, new, old)
        BY <3>2
      <4> QED
        BY <3>4, <4>1, <4>2, <4>3, <4>4 DEF Replaces
    <3> QED
      BY <3>3, <3>4
  <2>4. Evaluating(p)' /\ Counting(p)'
    BY <1>0, <1>2, <1>3, <2>0 DEF TxInv, Evaluating, Counting, Settled
  <2> QED
    BY <2>1, <2>2, <2>3, <2>4 DEF TxInv
<1>6. AllApart'
  BY <1>2 DEF IInv, AllApart, Apart
<1>7. WorkInv'
  BY <1>0, <1>1 DEF IInv, WorkInv, TypeOK, Work
<1>8. ResultOfFinished' /\ ResultWaits' /\ JudgedIsCounted'
  BY <1>0, <1>4 DEF IInv, ResultOfFinished, ResultWaits, JudgedIsCounted
<1> QED
  BY <1>5, <1>6, <1>7, <1>8 DEF IInv

\* What a commit makes of a row, as the invariant knows it.
LEMMA CommittedRow ==
    ASSUME IInv, NEW p \in Procs, Commit(p), NEW j \in Jobs
    PROVE  /\ job'[j] = IF tx[p].rows[j] # None THEN tx[p].rows[j] ELSE job[j]
           /\ tx[p].rows[j] # None => Replaces(p, tx[p].rows[j], job[j])
           /\ job[j] # None => job'[j] # None
BY DEF IInv, TxInv, Written, Commit, View

\* p's commit, as another transaction o that evaluates attempt a sees it: no submission of
\* an ended attempt appears, and one gets a verdict only if it was still pending for o.
LEMMA CommitSeen ==
    ASSUME IInv, NEW p \in Procs, NEW o \in Procs, p # o, Commit(p),
           NEW a \in Attempts, a \in Ended(o), NEW j, NEW S, S \subseteq Statuses \ {"FAILED"},
           j \in Submissions(View(o), a, S)', j \notin Submissions(View(o), a, S)
    PROVE  j \in Submissions(View(o), a, InFlight)
<1>1. tx'[o] = tx[o] /\ Apart(p, o) /\ Holding(p) /\ Holding(o)
  BY DEF Commit, IInv, TypeOK, AllApart, TxInv
<1>2. j \in Jobs /\ tx[o].rows[j] = None
  BY <1>1, Seen
<1>3. /\ job'[j] # None /\ job'[j].kind = "SUBMIT" /\ job'[j].att = a /\ job'[j].status \in S
  BY <1>1, <1>2, Seen
<1>4. tx[p].rows[j] # None /\ job'[j] = tx[p].rows[j] /\ Replaces(p, tx[p].rows[j], job[j])
  BY <1>2, <1>3, Seen, CommittedRow
<1>5. job[j] # None
  BY <1>1, <1>3, <1>4, ConstantsAssumption DEF Replaces, Holding, Apart, Ended, ConstantsAssumption
<1>6. job[j].kind = "SUBMIT" /\ job[j].att = a /\ job[j].status \in InFlight
  BY <1>3, <1>4, <1>5 DEF Replaces
<1> QED
  BY <1>2, <1>5, <1>6, Seen

LEMMA CommitStep ==
    ASSUME IInv, TypeOK', NEW p \in Procs, Commit(p)
    PROVE  IInv'
<1>0. /\ TypeOK /\ TxInv(p) /\ tx'[p] = NoTx
      /\ \A o \in Procs \ {p} : tx'[o] = tx[o] /\ TxInv(o) /\ Apart(p, o)
      /\ finished' = Ended(p) /\ finished \subseteq finished' /\ finished' \subseteq Attempts
      /\ \A a \in Attempts :
            result'[a] = IF tx[p].res[a] # None THEN tx[p].res[a] ELSE result[a]
  BY DEF Commit, Ended, IInv, AllApart, TypeOK
<1>1. /\ \A a : a \in finished' <=>
                  a \in finished \/ (tx[p].op = "finish" /\ a = tx[p].holds)
      /\ tx[p].op = "finish" => tx[p].holds # None
  BY <1>0 DEF Ended, TxInv, Holding
<1>2. ASSUME NEW o \in Procs \ {p}
      PROVE  TxInv(o)'
  <2>0. tx'[o] = tx[o] /\ TxInv(o) /\ Apart(p, o) /\ Ended(o) \subseteq Ended(o)'
    BY <1>0, <1>2 DEF Ended
  <2>1. Idle(o)' /\ ClaimOnly(o)' /\ Evaluates(o)'
    BY <2>0 DEF TxInv, Idle, ClaimOnly, Evaluates
  <2>2. Holding(o)'
    BY <1>1, <2>0 DEF TxInv, Holding, Apart
  <2>3. Written(o)'
    <3>1. SUFFICES ASSUME NEW j \in Jobs, tx[o].rows[j] # None
                   PROVE  Replaces(o, tx[o].rows[j], job[j])'
      BY <2>0 DEF Written
    <3>2. job'[j] = job[j]
      BY <2>0, <3>1, CommittedRow DEF Apart
    <3> QED
      BY <2>0, <3>1, <3>2 DEF TxInv, Written, Replaces
  <2>4. PendExists(o)'
    <3>1. tx[o].pend \subseteq Jobs
      BY <1>0 DEF TypeOK, Tx
    <3> QED
      BY <2>0, <3>1, CommittedRow DEF TxInv, PendExists
  <2>5. ASSUME NEW a \in Attempts, a \in Ended(o)
        PROVE  Submissions(View(o), a, InFlight)' \subseteq Submissions(View(o), a, InFlight)
    <3>1. InFlight \subseteq Statuses \ {"FAILED"}
      OBVIOUS
    <3>2. \A j : j \in Submissions(View(o), a, InFlight)' => j \in Submissions(View(o), a, InFlight)
      BY <1>2, <2>5, <3>1, CommitSeen
    <3> QED
      BY <3>2
  <2>6. ASSUME NEW a \in Attempts, a \in Ended(o), Submissions(View(o), a, InFlight) = {}
        PROVE  Submissions(View(o), a, {"COMPLETED"})'
                  \subseteq Submissions(View(o), a, {"COMPLETED"})
    <3>1. {"COMPLETED"} \subseteq Statuses \ {"FAILED"}
      OBVIOUS
    <3>2. \A j : j \in Submissions(View(o), a, {"COMPLETED"})'
                    => j \in Submissions(View(o), a, {"COMPLETED"})
      BY <1>2, <2>6, <3>1, CommitSeen
    <3> QED
      BY <3>2
  <2>7. Evaluating(o)'
    <3>1. ASSUME NEW a \in Attempts, Settled(o, a)'
          PROVE  a \in Ended(o)' /\ Submissions(View(o), a, InFlight)' = {}
      BY <2>0, <2>5, <3>1 DEF TxInv, Evaluating, Settled
    <3>2. ASSUME NEW a \in Attempts, tx'[o].att = a, tx'[o].pc = "fail"
          PROVE  a \in Ended(o)' /\ Submissions(View(o), a, InFlight)' \subseteq tx'[o].pend
      BY <2>0, <2>5, <3>2 DEF TxInv, Evaluating
    <3> QED
      BY <3>1, <3>2 DEF Evaluating
  <2>8. Counting(o)'
    <3>1. ASSUME NEW a \in Attempts, Settled(o, a)
          PROVE  Submissions(View(o), a, {"COMPLETED"})'
                    \subseteq Submissions(View(o), a, {"COMPLETED"})
      BY <2>0, <2>6, <3>1 DEF TxInv, Evaluating
    <3>2. ASSUME NEW a \in Attempts, tx'[o].att = a, tx'[o].pc = "insert"
          PROVE  Submissions(View(o), a, {"COMPLETED"})' \subseteq tx'[o].counted
      BY <2>0, <3>1, <3>2 DEF TxInv, Counting, Settled
    <3>3. ASSUME NEW a \in Attempts, tx'[o].res[a] # None
          PROVE  /\ result'[a] = None
                 /\ Submissions(View(o), a, {"COMPLETED"})' \subseteq tx'[o].res[a]
      BY <1>0, <2>0, <3>1, <3>3 DEF TxInv, Counting, Settled, Apart
    <3> QED
      BY <3>2, <3>3 DEF Counting
  <2> QED
    BY <2>1, <2>2, <2>3, <2>4, <2>7, <2>8 DEF TxInv
<1>3. TxInv(p)' /\ AllApart'
  <2>1. /\ NoTx.pc = "idle" /\ NoTx.op = "read" /\ NoTx.holds = None /\ NoTx.att = None
        /\ NoTx.pend = {} /\ NoTx.rows = [j \in Jobs |-> None]
        /\ NoTx.res = [a \in Attempts |-> None]
    BY DEF NoTx
  <2>2. None \notin finished'
    BY <1>0, ConstantsAssumption DEF ConstantsAssumption
  <2>3. Idle(p)' /\ ClaimOnly(p)' /\ Evaluates(p)' /\ Holding(p)' /\ Written(p)' /\ PendExists(p)'
    BY <1>0, <2>1, <2>2 DEF Idle, ClaimOnly, Evaluates, Holding, Written, PendExists
  <2>4. Evaluating(p)' /\ Counting(p)'
    BY <1>0, <2>1 DEF Evaluating, Counting, Settled
  <2>5. AllApart'
    BY <1>0, <2>1 DEF IInv, AllApart, Apart
  <2> QED
    BY <2>3, <2>4, <2>5 DEF TxInv
<1>4. WorkInv'
  <2>1. SUFFICES ASSUME NEW w \in Workers, work'[w] # None
                 PROVE  job'[work'[w].job] # None
    BY DEF WorkInv
  <2>2. CASE w = p
    <3>1. work'[w] = Answered(p) /\ Answered(p) # None
      BY <1>0, <2>1, <2>2 DEF Commit, TypeOK
    <3>2. Answered(p).job \in Jobs /\ tx[p].rows[Answered(p).job] # None
      BY <3>1 DEF Answered
    <3> QED
      BY <3>1, <3>2, CommittedRow
  <2>3. CASE w # p
    <3>1. work'[w] = work[w] /\ work[w].job \in Jobs
      BY <1>0, <2>1, <2>3 DEF Commit, TypeOK, Work
    <3> QED
      BY <2>1, <3>1, CommittedRow DEF IInv, WorkInv
  <2> QED
    BY <2>2, <2>3
<1>5. ResultOfFinished'
  BY <1>0 DEF IInv, ResultOfFinished, TxInv, Evaluating, Settled
<1>6. ASSUME NEW a \in Attempts, result'[a] # None
      PROVE  /\ Submissions(job, a, InFlight)' = {}
             /\ Submissions(job, a, {"COMPLETED"})' \subseteq result'[a]
  <2>0. \A S : Submissions(job, a, S)' = Submissions(View(p), a, S)
    BY DEF Commit, Submissions, Rows
  <2>1. CASE tx[p].res[a] # None
    BY <1>0, <2>0, <2>1 DEF TxInv, Evaluating, Settled, Counting
  <2>2. CASE tx[p].res[a] = None
    <3>1. result'[a] = result[a] /\ a \in finished
      BY <1>0, <1>6, <2>2 DEF IInv, ResultOfFinished
    <3>2. /\ Submissions(job, a, InFlight) = {}
          /\ Submissions(job, a, {"COMPLETED"}) \subseteq result[a]
      BY <1>6, <3>1 DEF IInv, ResultWaits, JudgedIsCounted
    <3>3. ASSUME NEW j, NEW S, S \subseteq Statuses \ {"FAILED"}, j \in Submissions(View(p), a, S)
          PROVE  j \in Submissions(job, a, S)
      <4>1. CASE tx[p].rows[j] = None
        BY <3>3, <4>1, Seen DEF Submissions, Rows
      <4>2. CASE tx[p].rows[j] # None
        <5>1. /\ j \in Jobs /\ tx[p].rows[j].kind = "SUBMIT" /\ tx[p].rows[j].att = a
              /\ tx[p].rows[j].status # "FAILED" /\ Replaces(p, tx[p].rows[j], job[j])
          BY <1>0, <3>3, <4>2, Seen DEF TxInv, Written
        <5>2. job[j] # None
          BY <1>0, <3>1, <5>1 DEF Replaces, TxInv, Holding
        <5>3. j \in Submissions(job, a, InFlight)
          BY <5>1, <5>2 DEF Replaces, Submissions, Rows
        <5> QED
          BY <3>2, <5>3
      <4> QED
        BY <4>1, <4>2
    <3>4. InFlight \subseteq Statuses \ {"FAILED"} /\ {"COMPLETED"} \subseteq Statuses \ {"FAILED"}
      OBVIOUS
    <3> QED
      BY <2>0, <3>1, <3>2, <3>3, <3>4
  <2> QED
    BY <2>1, <2>2
<1>7. ResultWaits' /\ JudgedIsCounted'
  BY <1>6 DEF ResultWaits, JudgedIsCounted
<1>8. \A o \in Procs : TxInv(o)'
  BY <1>2, <1>3
<1> QED
  BY <1>3, <1>4, <1>5, <1>7, <1>8 DEF IInv

-----------------------------------------------------------------------------
(* The theorems *)

LEMMA InitIInv == Init => IInv
<1> SUFFICES ASSUME Init
             PROVE  IInv
  OBVIOUS
<1>1. TypeOK
  BY NoTxType, ConstantsAssumption DEF Init, TypeOK, ConstantsAssumption
<1>2. /\ NoTx.pc = "idle" /\ NoTx.op = "read" /\ NoTx.holds = None /\ NoTx.att = None
      /\ NoTx.pend = {} /\ NoTx.rows = [j \in Jobs |-> None]
      /\ NoTx.res = [a \in Attempts |-> None]
  BY DEF NoTx
<1>3. ASSUME NEW p \in Procs
      PROVE  TxInv(p)
  <2>1. tx[p] = NoTx
    BY DEF Init
  <2> QED
    BY <1>2, <2>1 DEF Init, TxInv, Idle, ClaimOnly, Evaluates, Holding, Written, PendExists,
       Evaluating, Counting, Settled
<1>4. AllApart
  BY <1>2 DEF Init, AllApart, Apart
<1>5. WorkInv /\ ResultOfFinished /\ ResultWaits /\ JudgedIsCounted
  BY DEF Init, WorkInv, ResultOfFinished, ResultWaits, JudgedIsCounted
<1> QED
  BY <1>1, <1>3, <1>4, <1>5 DEF IInv

\* The invariant holds after every step, action by action.
LEMMA StepIInv == IInv /\ [Next]_vars => IInv'
<1> SUFFICES ASSUME IInv, [Next]_vars
             PROVE  IInv'
  OBVIOUS
<1>0. TypeOK'
  BY TypeStep
<1>1. CASE UNCHANGED vars
  <2>1. /\ \A p \in Procs : TxInv(p)'
        /\ AllApart' /\ WorkInv'
    BY <1>1, OthersKeep DEF IInv, vars, AllApart, Apart, WorkInv
  <2>2. ResultOfFinished' /\ ResultWaits' /\ JudgedIsCounted'
    BY <1>1 DEF IInv, vars, ResultOfFinished, ResultWaits, JudgedIsCounted, Submissions, Rows
  <2> QED
    BY <1>0, <2>1, <2>2 DEF IInv
<1>2. CASE Tick
  BY <1>0, <1>2, TickStep
<1>3. CASE \E c \in Clients, a \in Attempts : Ask(c, a)
  BY <1>0, <1>3, RequestStep, AskStep DEF Ask
<1>4. ASSUME NEW p \in Procs, Serve(p)
      PROVE  IInv'
  <2>1. CASE Evaluate(p)
    BY <1>0, <2>1, ReadingStep, FailStep, InsertStep DEF Evaluate
  <2>2. CASE Commit(p)
    BY <1>0, <2>2, CommitStep
  <2>3. CASE DeadlockVictim(p)
    BY <1>0, <2>3, LostStep
  <2>4. CASE p \in Workers /\ (Look(p) \/ NoJob(p))
    BY <1>0, <2>4, ClaimStep, GiveUpStep, NoJobStep DEF Look
  <2> QED
    BY <1>4, <2>1, <2>2, <2>3, <2>4 DEF Serve
<1>5. ASSUME NEW w \in Workers, Poll(w) \/ Answer(w) \/ Restart(w)
      PROVE  IInv'
  BY <1>0, <1>5, ClaimStep, GiveUpStep, ReportStep, ForgetStep DEF Poll, Look, Answer
<1>6. CASE \E p \in Procs, answer \in {"raised", "error"} : Crash(p, answer)
  BY <1>0, <1>6, LostStep
<1> QED
  BY <1>1, <1>2, <1>3, <1>4, <1>5, <1>6 DEF Next

THEOREM InvariantHolds == Spec => []IInv
<1> QED
  BY InitIInv, StepIInv, PTL DEF Spec

\* Every variable has its type: execution.py and evaluation.py leave the rows well formed.
THEOREM TypeCorrect == Spec => []TypeOK
<1>1. IInv => TypeOK
  BY DEF IInv
<1> QED
  BY <1>1, InvariantHolds, PTL

\* A verdict comes from the runner that holds the job, until it is committed (_running).
THEOREM VerdictFromHolder == Spec => []ReportedByHolder
<1>1. IInv => ReportedByHolder
  <2> SUFFICES ASSUME IInv, NEW w \in Workers, NEW j \in Jobs,
                      tx[w].rows[j] # None, tx[w].rows[j].status = "COMPLETED"
               PROVE  job[j].status = "RUNNING" /\ job[j].worker = w
    BY DEF ReportedByHolder
  <2>1. Replaces(w, tx[w].rows[j], job[j])
    BY DEF IInv, TxInv, Written
  <2> QED
    BY <2>1 DEF Replaces
<1> QED
  BY <1>1, InvariantHolds, PTL

\* A result exists only when no submission of its attempt can still be judged (ensure_result).
THEOREM ResultIsFinal == Spec => []ResultWaits
<1>1. IInv => ResultWaits
  BY DEF IInv
<1> QED
  BY <1>1, InvariantHolds, PTL

\* Every submission that has a verdict is in the result of its attempt (coding_submissions).
THEOREM NoVerdictIsLost == Spec => []JudgedIsCounted
<1>1. IInv => JudgedIsCounted
  BY DEF IInv
<1> QED
  BY <1>1, InvariantHolds, PTL

\* Rows change by the passing of time and by commits, results by commits only.
LEMMA Changes ==
    ASSUME IInv, [Next]_vars
    PROVE  \/ UNCHANGED <<job, result>>
           \/ Tick
           \/ \E p \in Procs : Commit(p)
<1>1. CASE UNCHANGED vars
  BY <1>1 DEF vars
<1>2. ASSUME NEW c \in Clients, NEW a \in Attempts, Ask(c, a)
      PROVE  UNCHANGED <<job, result>>
  <2>1. ASSUME NEW q \in Questions, NEW kind \in Kinds, NEW key \in Keys \cup {None},
               NEW j \in Jobs, Request(c, a, q, kind, key, j)
        PROVE  UNCHANGED <<job, result>>
    BY <2>1 DEF Request
  <2>2. CASE Finish(c, a) \/ ReadResult(c, a)
    BY <2>2 DEF Finish, ReadResult
  <2> QED
    BY <1>2, <2>1, <2>2 DEF Ask
<1>3. ASSUME NEW p \in Procs, Serve(p)
      PROVE  UNCHANGED <<job, result>> \/ Commit(p)
  <2>1. CASE Evaluate(p)
    BY <2>1 DEF Evaluate, Leave, Consider, FailPending, Score, InsertResult
  <2>2. CASE Look(p)
    BY <2>2 DEF Look, Claim, GiveUp
  <2>3. CASE NoJob(p) \/ DeadlockVictim(p)
    BY <2>3 DEF NoJob, DeadlockVictim, Rollback
  <2> QED
    BY <1>3, <2>1, <2>2, <2>3, SMTT(30) DEF Serve
<1>4. CASE \E w \in Workers : Poll(w) \/ Answer(w) \/ Restart(w)
  BY <1>4, ZenonT(60) DEF Poll, Look, Claim, GiveUp, Answer, Report, Refused, Restart
<1>5. CASE \E p \in Procs, answer \in {"raised", "error"} : Crash(p, answer)
  BY <1>5 DEF Crash, Rollback
<1> QED
  BY <1>1, <1>2, <1>3, <1>4, <1>5 DEF Next

\* What time makes of a row.
LEMMA TickedRow ==
    ASSUME IInv, Tick, NEW j \in Jobs
    PROVE  /\ job[j] = None => job'[j] = None
           /\ job[j] # None => job'[j].status = job[j].status /\ job'[j].claims = job[j].claims
BY OlderType DEF IInv, TypeOK, Tick

\* No row is added to a finished attempt: _context looks at the status under the lock that a
\* finish takes.
THEOREM NothingAddedAfterFinish == Spec => NoJobAfterFinish
<1>1. ASSUME IInv, [Next]_vars, NEW j \in Jobs, job[j] = None, job'[j] # None
      PROVE  job'[j].att \notin finished
  <2>1. CASE Tick
    BY <1>1, <2>1, TickedRow
  <2>2. ASSUME NEW p \in Procs, Commit(p)
        PROVE  job'[j].att \notin finished
    <3>1. job'[j] = tx[p].rows[j] /\ Replaces(p, tx[p].rows[j], job[j]) /\ Holding(p)
      BY <1>1, <2>2, CommittedRow DEF IInv, TxInv
    <3> QED
      BY <1>1, <3>1 DEF Replaces, Holding
  <2> QED
    BY <1>1, <2>1, <2>2, Changes
<1>2. IInv /\ [Next]_vars =>
        [\A j \in Jobs : job[j] = None /\ job'[j] # None => job'[j].att \notin finished]_vars
  BY <1>1
<1> QED
  BY <1>2, InvariantHolds, PTL DEF Spec, NoJobAfterFinish

\* A runner loses a job only when its lease has run out: claim's condition still holds for the
\* row it replaces when it commits.
THEOREM LeaseIsRespected == Spec => LeaseRespected
<1>1. ASSUME IInv, [Next]_vars, NEW j \in Jobs, job[j] # None, job[j].status = "RUNNING",
             job'[j].status \in InFlight, job'[j].claims # job[j].claims
      PROVE  job[j].lease = 0
  <2>1. CASE Tick
    BY <1>1, <2>1, TickedRow
  <2>2. ASSUME NEW p \in Procs, Commit(p)
        PROVE  job[j].lease = 0
    BY <1>1, <2>2, CommittedRow DEF Replaces
  <2> QED
    BY <1>1, <2>1, <2>2, Changes
<1>2. IInv /\ [Next]_vars =>
        [\A j \in Jobs :
            job[j] # None /\ job[j].status = "RUNNING" /\ job'[j].status \in InFlight
                /\ job'[j].claims # job[j].claims => job[j].lease = 0]_vars
  BY <1>1
<1> QED
  BY <1>2, InvariantHolds, PTL DEF Spec, LeaseRespected

\* A finished job is not run again: reports, claims and requests replace unfinished rows only.
THEOREM FinishedIsFinal == Spec => FinishedStays
<1>1. ASSUME IInv, [Next]_vars, NEW j \in Jobs, job[j] # None, job[j].status \notin InFlight
      PROVE  job'[j].status \in {job[j].status, "FAILED"}
  <2>1. CASE Tick
    BY <1>1, <2>1, TickedRow
  <2>2. ASSUME NEW p \in Procs, Commit(p)
        PROVE  job'[j].status \in {job[j].status, "FAILED"}
    BY <1>1, <2>2, CommittedRow DEF Replaces
  <2> QED
    BY <1>1, <2>1, <2>2, Changes
<1>2. IInv /\ [Next]_vars =>
        [\A j \in Jobs : job[j] # None /\ job[j].status \notin InFlight =>
            job'[j].status \in {job[j].status, "FAILED"}]_vars
  BY <1>1
<1> QED
  BY <1>2, InvariantHolds, PTL DEF Spec, FinishedStays

\* A result is never replaced: whoever would store a second one finds the first (ensure_result).
THEOREM ResultIsKept == Spec => ResultKept
<1>1. ASSUME IInv, [Next]_vars, NEW a \in Attempts, result[a] # None
      PROVE  result'[a] = result[a]
  <2>1. CASE Tick
    BY <2>1 DEF Tick
  <2>2. ASSUME NEW p \in Procs, Commit(p)
        PROVE  result'[a] = result[a]
    <3>1. tx[p].res[a] = None
      BY <1>1 DEF IInv, TxInv, Counting
    <3> QED
      BY <2>2, <3>1 DEF Commit
  <2> QED
    BY <1>1, <2>1, <2>2, Changes
<1>2. IInv /\ [Next]_vars => [\A a \in Attempts : result[a] # None => result'[a] = result[a]]_vars
  BY <1>1
<1> QED
  BY <1>2, InvariantHolds, PTL DEF Spec, ResultKept

-----------------------------------------------------------------------------
(* The limits.  What _guard found under the lock of the attempt stays true *)
(* until the request commits, because only the holder of that lock adds    *)
(* rows to the attempt, and every other writer moves a row towards its     *)
(* end.  The queue's cap is not among the limits: it counts rows of        *)
(* attempts the request does not hold.                                     *)

USE DEF At, Statuses, InFlight, Kinds, Procs

OfQuestion(a, q) == {j \in OfKind(a, "SUBMIT") : job[j].ques = q}

\* What request_submit and _guard check, but for the queue's length.
Allowed(a, q, kind) ==
    /\ kind = "SUBMIT" => Cardinality(OfQuestion(a, q)) < MaxSubmissions
    /\ \A j \in InFlightOf(a) : job[j].ques # q
    /\ Cardinality(InFlightOf(a)) < MaxInFlight
    /\ kind = "RUN" => Cardinality(OfKind(a, kind)) < MaxRuns
    /\ Cardinality(Recent(a, kind)) < RateOf(kind)

\* p is about to add row j.
Adds(p, j) == tx[p].rows[j] # None /\ job[j] = None

\* The row p is about to add is its only one and is still allowed.
Promise(p, j) ==
    LET r == tx[p].rows[j] IN
    /\ \A i \in Jobs : tx[p].rows[i] # None => i = j
    /\ ~Existing(r.att, r.key)
    /\ Allowed(r.att, r.ques, r.kind)

PromiseInv == \A p \in Procs, j \in Jobs : Adds(p, j) => Promise(p, j)

\* The limits of attempt a: the bodies of InFlightBounded and QuotasHold, and of OneJobPerKey
\* for the jobs of a.
Limited(a) ==
    /\ Cardinality(InFlightOf(a)) <= MaxInFlight
    /\ \A i, j \in InFlightOf(a) : job[i].ques = job[j].ques => i = j
    /\ Cardinality(OfKind(a, "RUN")) <= MaxRuns
    /\ \A kind \in Kinds : Cardinality(Recent(a, kind)) <= RateOf(kind)
    /\ \A q \in Questions : Cardinality(OfQuestion(a, q)) <= MaxSubmissions
    /\ \A i, j \in OfAttempt(a) : job[i].key # None /\ job[i].key = job[j].key => i = j

LimitsInv == \A a \in Attempts : Limited(a)

-----------------------------------------------------------------------------
(* Sets of jobs *)

LEMMA JobSets ==
    ASSUME NEW S \in SUBSET Jobs
    PROVE  /\ IsFiniteSet(S) /\ Cardinality(S) \in Nat
           /\ \A T \in SUBSET S : Cardinality(T) \in Nat /\ Cardinality(T) <= Cardinality(S)
           /\ \A j \in Jobs : \A T \in SUBSET (S \cup {j}) :
                 Cardinality(T) \in Nat /\ Cardinality(T) <= Cardinality(S) + 1
<1>1. IsFiniteSet(Jobs)
  BY FS_Interval, ConstantsAssumption DEF Jobs, ConstantsAssumption
<1>2. IsFiniteSet(S) /\ Cardinality(S) \in Nat
  BY <1>1, FS_Subset, FS_CardinalityType
<1>3. ASSUME NEW T \in SUBSET S
      PROVE  Cardinality(T) \in Nat /\ Cardinality(T) <= Cardinality(S)
  BY <1>2, FS_Subset, FS_CardinalityType
<1>4. ASSUME NEW j \in Jobs, NEW T \in SUBSET (S \cup {j})
      PROVE  Cardinality(T) \in Nat /\ Cardinality(T) <= Cardinality(S) + 1
  <2>0. /\ IsFiniteSet(S \cup {j})
        /\ Cardinality(S \cup {j}) = IF j \in S THEN Cardinality(S) ELSE Cardinality(S) + 1
    BY <1>2, FS_AddElement
  <2>1. IsFiniteSet(S \cup {j}) /\ Cardinality(S \cup {j}) <= Cardinality(S) + 1
    BY <1>2, <2>0
  <2>2. Cardinality(S \cup {j}) \in Nat
    BY <2>1, FS_CardinalityType
  <2>3. IsFiniteSet(T) /\ Cardinality(T) <= Cardinality(S \cup {j})
    BY <2>1, FS_Subset
  <2>4. Cardinality(T) \in Nat
    BY <2>3, FS_CardinalityType
  <2> QED
    BY <1>2, <2>1, <2>2, <2>3, <2>4
<1> QED
  BY <1>2, <1>3, <1>4

\* The two ways in which sets of jobs change: they shrink, or they grow by one.
LEMMA Shrinks ==
    ASSUME NEW S \in SUBSET Jobs, NEW T \in SUBSET S
    PROVE  Cardinality(T) \in Nat /\ Cardinality(S) \in Nat /\ Cardinality(T) <= Cardinality(S)
BY JobSets

LEMMA GrowsByOne ==
    ASSUME NEW S \in SUBSET Jobs, NEW j \in Jobs, NEW T \in SUBSET (S \cup {j})
    PROVE  /\ Cardinality(T) \in Nat /\ Cardinality(S) \in Nat
           /\ Cardinality(T) <= Cardinality(S) + 1
BY JobSets

LEMMA AttemptSets ==
    ASSUME NEW a, NEW kind, NEW q
    PROVE  /\ OfAttempt(a) \subseteq Jobs /\ InFlightOf(a) \subseteq Jobs
           /\ OfKind(a, kind) \subseteq Jobs /\ Recent(a, kind) \subseteq Jobs
           /\ OfQuestion(a, q) \subseteq Jobs
BY DEF OfAttempt, InFlightOf, OfKind, Recent, OfQuestion, Rows

\* A step that adds no row of attempt a but those of N, and moves the others towards their end.
Grown(a, N) ==
    \A i \in Jobs \ N :
        job'[i] # None /\ job'[i].att = a =>
            /\ job[i] # None /\ job[i].att = a
            /\ job'[i].kind = job[i].kind /\ job'[i].ques = job[i].ques
            /\ job'[i].key = job[i].key
            /\ job'[i].status \in InFlight => job[i].status \in InFlight
            /\ job'[i].age <= RateWindow => job[i].age <= RateWindow

LEMMA GrownSets ==
    ASSUME NEW a, NEW N, Grown(a, N)
    PROVE  /\ OfAttempt(a)' \subseteq OfAttempt(a) \cup N
           /\ InFlightOf(a)' \subseteq InFlightOf(a) \cup N
           /\ \A kind : OfKind(a, kind)' \subseteq OfKind(a, kind) \cup N
           /\ \A kind : Recent(a, kind)' \subseteq Recent(a, kind) \cup N
           /\ \A q : OfQuestion(a, q)' \subseteq OfQuestion(a, q) \cup N
BY DEF Grown, OfAttempt, InFlightOf, OfKind, Recent, OfQuestion, Rows

\* What is allowed stays allowed while nobody adds a row.
LEMMA StaysAllowed ==
    ASSUME NEW a, NEW q, NEW kind \in Kinds, NEW key, Grown(a, {}),
           ~Existing(a, key), Allowed(a, q, kind)
    PROVE  ~Existing(a, key)' /\ Allowed(a, q, kind)'
<1>1. /\ OfAttempt(a)' \subseteq OfAttempt(a)
      /\ InFlightOf(a)' \subseteq InFlightOf(a)
      /\ OfKind(a, kind)' \subseteq OfKind(a, kind)
      /\ Recent(a, kind)' \subseteq Recent(a, kind)
      /\ OfQuestion(a, q)' \subseteq OfQuestion(a, q)
  BY GrownSets
<1>2. \A i \in OfAttempt(a)' : job'[i].ques = job[i].ques /\ job'[i].key = job[i].key
  BY DEF Grown, OfAttempt, Rows
<1>3. ~Existing(a, key)'
  BY <1>1, <1>2 DEF Existing
<1>4. \A i \in InFlightOf(a)' : job'[i].ques # q
  BY <1>1, <1>2 DEF Allowed, InFlightOf
<1>5. /\ Cardinality(InFlightOf(a)') \in Nat
      /\ Cardinality(InFlightOf(a)') <= Cardinality(InFlightOf(a))
      /\ Cardinality(InFlightOf(a)) \in Nat
  BY <1>1, Shrinks, AttemptSets
<1>6. /\ Cardinality(OfKind(a, kind)') \in Nat /\ Cardinality(OfKind(a, kind)) \in Nat
      /\ Cardinality(OfKind(a, kind)') <= Cardinality(OfKind(a, kind))
  BY <1>1, Shrinks, AttemptSets
<1>7. /\ Cardinality(Recent(a, kind)') \in Nat /\ Cardinality(Recent(a, kind)) \in Nat
      /\ Cardinality(Recent(a, kind)') <= Cardinality(Recent(a, kind))
  BY <1>1, Shrinks, AttemptSets
<1>8. /\ Cardinality(OfQuestion(a, q)') \in Nat /\ Cardinality(OfQuestion(a, q)) \in Nat
      /\ Cardinality(OfQuestion(a, q)') <= Cardinality(OfQuestion(a, q))
  BY <1>1, Shrinks, AttemptSets
<1>9. {MaxInFlight, MaxRuns, MaxSubmissions, RateOf(kind)} \subseteq Nat
  BY ConstantsAssumption DEF ConstantsAssumption, RateOf
<1> QED
  BY <1>3, <1>4, <1>5, <1>6, <1>7, <1>8, <1>9 DEF Allowed, RateOf

LEMMA StaysLimited ==
    ASSUME NEW a, Grown(a, {}), Limited(a)
    PROVE  Limited(a)'
<1>1. \A i \in OfAttempt(a)' : job'[i].ques = job[i].ques /\ job'[i].key = job[i].key
  BY DEF Grown, OfAttempt, Rows
<1>2. OfAttempt(a)' \subseteq OfAttempt(a) /\ InFlightOf(a)' \subseteq InFlightOf(a)
  BY GrownSets
<1>3. /\ \A i, j \in InFlightOf(a)' : job'[i].ques = job'[j].ques => i = j
      /\ \A i, j \in OfAttempt(a)' : job'[i].key # None /\ job'[i].key = job'[j].key => i = j
  BY <1>1, <1>2 DEF Limited, InFlightOf
<1>4. Cardinality(InFlightOf(a)') <= MaxInFlight
  <2>1. /\ Cardinality(InFlightOf(a)') \in Nat /\ Cardinality(InFlightOf(a)) \in Nat
        /\ Cardinality(InFlightOf(a)') <= Cardinality(InFlightOf(a))
    BY <1>2, Shrinks, AttemptSets
  <2> QED
    BY <2>1, ConstantsAssumption DEF Limited, ConstantsAssumption
<1>5. Cardinality(OfKind(a, "RUN")') <= MaxRuns
  <2>1. /\ Cardinality(OfKind(a, "RUN")') \in Nat /\ Cardinality(OfKind(a, "RUN")) \in Nat
        /\ Cardinality(OfKind(a, "RUN")') <= Cardinality(OfKind(a, "RUN"))
    <3>1. OfKind(a, "RUN")' \subseteq OfKind(a, "RUN")
      BY GrownSets
    <3> QED
      BY <3>1, Shrinks, AttemptSets
  <2> QED
    BY <2>1, ConstantsAssumption DEF Limited, ConstantsAssumption
<1>6. ASSUME NEW kind \in Kinds
      PROVE  Cardinality(Recent(a, kind)') <= RateOf(kind)
  <2>1. /\ Cardinality(Recent(a, kind)') \in Nat /\ Cardinality(Recent(a, kind)) \in Nat
        /\ Cardinality(Recent(a, kind)') <= Cardinality(Recent(a, kind))
    <3>1. Recent(a, kind)' \subseteq Recent(a, kind)
      BY GrownSets
    <3> QED
      BY <3>1, Shrinks, AttemptSets
  <2>2. RateOf(kind) \in Nat /\ Cardinality(Recent(a, kind)) <= RateOf(kind)
    BY ConstantsAssumption DEF Limited, RateOf, ConstantsAssumption
  <2> QED
    BY <2>1, <2>2
<1>7. ASSUME NEW q \in Questions
      PROVE  Cardinality(OfQuestion(a, q)') <= MaxSubmissions
  <2>1. /\ Cardinality(OfQuestion(a, q)') \in Nat /\ Cardinality(OfQuestion(a, q)) \in Nat
        /\ Cardinality(OfQuestion(a, q)') <= Cardinality(OfQuestion(a, q))
    BY GrownSets, Shrinks, AttemptSets
  <2> QED
    BY <2>1, ConstantsAssumption DEF Limited, ConstantsAssumption
<1> QED
  BY <1>3, <1>4, <1>5, <1>6, <1>7 DEF Limited, RateOf

\* Adding one allowed row leaves the attempt within its limits.
LEMMA AddsOne ==
    ASSUME NEW a, NEW j \in Jobs, Grown(a, {j}), Limited(a), job[j] = None,
           job'[j].att = a, job'[j].kind \in Kinds,
           ~Existing(a, job'[j].key), Allowed(a, job'[j].ques, job'[j].kind)
    PROVE  Limited(a)'
<1> DEFINE r == job'[j]
<1>1. \A i \in OfAttempt(a)' \ {j} :
          /\ job'[i].ques = job[i].ques /\ job'[i].key = job[i].key /\ job'[i].kind = job[i].kind
          /\ i \in OfAttempt(a)
  BY DEF Grown, OfAttempt, Rows
<1>2. InFlightOf(a)' \ {j} \subseteq InFlightOf(a) /\ InFlightOf(a)' \subseteq OfAttempt(a)'
  BY GrownSets DEF InFlightOf
<1>3. \A i, k \in InFlightOf(a)' : job'[i].ques = job'[k].ques => i = k
  BY <1>1, <1>2 DEF Limited, Allowed
<1>4. \A i, k \in OfAttempt(a)' : job'[i].key # None /\ job'[i].key = job'[k].key => i = k
  BY <1>1 DEF Limited, Existing
<1>5. Cardinality(InFlightOf(a)') <= MaxInFlight
  <2>1. /\ Cardinality(InFlightOf(a)') \in Nat /\ Cardinality(InFlightOf(a)) \in Nat
        /\ Cardinality(InFlightOf(a)') <= Cardinality(InFlightOf(a)) + 1
    BY GrownSets, GrowsByOne, AttemptSets
  <2> QED
    BY <2>1, ConstantsAssumption DEF Allowed, ConstantsAssumption
<1>6. Cardinality(OfKind(a, "RUN")') <= MaxRuns
  <2>1. CASE r.kind = "RUN"
    <3>1. /\ Cardinality(OfKind(a, "RUN")') \in Nat /\ Cardinality(OfKind(a, "RUN")) \in Nat
          /\ Cardinality(OfKind(a, "RUN")') <= Cardinality(OfKind(a, "RUN")) + 1
      <4>1. OfKind(a, "RUN")' \subseteq OfKind(a, "RUN") \cup {j}
        BY GrownSets
      <4> QED
        BY <4>1, GrowsByOne, AttemptSets
    <3> QED
      BY <2>1, <3>1, ConstantsAssumption DEF Allowed, ConstantsAssumption
  <2>2. CASE r.kind # "RUN"
    <3>1. OfKind(a, "RUN")' \subseteq OfKind(a, "RUN")
      BY <1>1, <2>2 DEF OfKind
    <3>2. /\ Cardinality(OfKind(a, "RUN")') \in Nat /\ Cardinality(OfKind(a, "RUN")) \in Nat
          /\ Cardinality(OfKind(a, "RUN")') <= Cardinality(OfKind(a, "RUN"))
      BY <3>1, Shrinks, AttemptSets
    <3> QED
      BY <3>2, ConstantsAssumption DEF Limited, ConstantsAssumption
  <2> QED
    BY <2>1, <2>2
<1>7. ASSUME NEW kind \in Kinds
      PROVE  Cardinality(Recent(a, kind)') <= RateOf(kind)
  <2>0. RateOf(kind) \in Nat
    BY ConstantsAssumption DEF ConstantsAssumption, RateOf
  <2>1. CASE r.kind = kind
    <3>1. /\ Cardinality(Recent(a, kind)') \in Nat /\ Cardinality(Recent(a, kind)) \in Nat
          /\ Cardinality(Recent(a, kind)') <= Cardinality(Recent(a, kind)) + 1
      <4>1. Recent(a, kind)' \subseteq Recent(a, kind) \cup {j}
        BY GrownSets
      <4> QED
        BY <4>1, GrowsByOne, AttemptSets
    <3> QED
      BY <2>0, <2>1, <3>1 DEF Allowed
  <2>2. CASE r.kind # kind
    <3>1. Recent(a, kind)' \subseteq Recent(a, kind)
      <4>1. Recent(a, kind)' \subseteq Recent(a, kind) \cup {j}
        BY GrownSets
      <4>2. j \notin Recent(a, kind)'
        BY <2>2 DEF Recent, OfKind
      <4> QED
        BY <4>1, <4>2
    <3>2. /\ Cardinality(Recent(a, kind)') \in Nat /\ Cardinality(Recent(a, kind)) \in Nat
          /\ Cardinality(Recent(a, kind)') <= Cardinality(Recent(a, kind))
      BY <3>1, Shrinks, AttemptSets
    <3>3. Cardinality(Recent(a, kind)) <= RateOf(kind)
      BY DEF Limited
    <3> QED
      BY <2>0, <3>2, <3>3
  <2> QED
    BY <2>1, <2>2
<1>8. ASSUME NEW q \in Questions
      PROVE  Cardinality(OfQuestion(a, q)') <= MaxSubmissions
  <2>1. CASE r.kind = "SUBMIT" /\ r.ques = q
    <3>1. /\ Cardinality(OfQuestion(a, q)') \in Nat /\ Cardinality(OfQuestion(a, q)) \in Nat
          /\ Cardinality(OfQuestion(a, q)') <= Cardinality(OfQuestion(a, q)) + 1
      BY GrownSets, GrowsByOne, AttemptSets
    <3> QED
      BY <2>1, <3>1, ConstantsAssumption DEF Allowed, ConstantsAssumption
  <2>2. CASE ~(r.kind = "SUBMIT" /\ r.ques = q)
    <3>1. OfQuestion(a, q)' \subseteq OfQuestion(a, q)
      BY <1>1, <2>2 DEF OfQuestion, OfKind
    <3>2. /\ Cardinality(OfQuestion(a, q)') \in Nat /\ Cardinality(OfQuestion(a, q)) \in Nat
          /\ Cardinality(OfQuestion(a, q)') <= Cardinality(OfQuestion(a, q))
      BY <3>1, Shrinks, AttemptSets
    <3> QED
      BY <3>2, ConstantsAssumption DEF Limited, ConstantsAssumption
  <2> QED
    BY <2>1, <2>2
<1> QED
  BY <1>3, <1>4, <1>5, <1>6, <1>7, <1>8 DEF Limited, RateOf

-----------------------------------------------------------------------------
(* The steps *)

\* A step of p that neither requests a job nor commits.
Other(p) ==
    \/ \E a \in Attempts : Finish(p, a) \/ ReadResult(p, a)
    \/ Evaluate(p)
    \/ DeadlockVictim(p)
    \/ \E answer \in {"raised", "error"} : Crash(p, answer)
    \/ p \in Workers /\ (Look(p) \/ NoJob(p) \/ Answer(p) \/ Restart(p))

LEMMA StepKinds ==
    ASSUME [Next]_vars
    PROVE  \/ UNCHANGED vars
           \/ Tick
           \/ \E c \in Clients, a \in Attempts, q \in Questions, kind \in Kinds,
                 key \in Keys \cup {None}, j \in Jobs : Request(c, a, q, kind, key, j)
           \/ \E p \in Procs : Other(p)
           \/ \E p \in Procs : Commit(p)
<1>1. ASSUME NEW c \in Clients, NEW a \in Attempts, Ask(c, a)
      PROVE  \/ \E q \in Questions, kind \in Kinds, key \in Keys \cup {None}, j \in Jobs :
                    Request(c, a, q, kind, key, j)
             \/ Other(c)
  BY <1>1 DEF Ask, Other
<1>2. ASSUME NEW p \in Procs, Serve(p)
      PROVE  Other(p) \/ Commit(p)
  BY <1>2 DEF Serve, Other
<1>3. ASSUME NEW w \in Workers, Poll(w) \/ Answer(w) \/ Restart(w)
      PROVE  Other(w)
  BY <1>3 DEF Poll, Other
<1>4. ASSUME NEW p \in Procs, NEW answer \in {"raised", "error"}, Crash(p, answer)
      PROVE  Other(p)
  BY <1>4 DEF Other
<1> QED
  BY <1>1, <1>2, <1>3, <1>4 DEF Next

LEMMA OtherFrame ==
    ASSUME IInv, NEW p \in Procs, Other(p)
    PROVE  UNCHANGED job /\ \A o \in Procs \ {p} : tx'[o] = tx[o]
<1>0. tx \in [Procs -> Tx]
  BY DEF IInv, TypeOK
<1>1. CASE \E a \in Attempts : Finish(p, a) \/ ReadResult(p, a)
  BY <1>0, <1>1, SMTT(30) DEF Finish, ReadResult
<1>2. CASE Evaluate(p)
  BY <1>0, <1>2 DEF Evaluate, Leave, Consider, FailPending, Score, InsertResult
<1>3. CASE DeadlockVictim(p) \/ \E answer \in {"raised", "error"} : Crash(p, answer)
  BY <1>0, <1>3 DEF DeadlockVictim, Crash, Rollback
<1>4. CASE Look(p) \/ NoJob(p)
  BY <1>0, <1>4 DEF Look, Claim, GiveUp, NoJob
<1>5. CASE Answer(p) \/ Restart(p)
  BY <1>0, <1>5 DEF Answer, Report, Refused, Restart
<1> QED
  BY <1>1, <1>2, <1>3, <1>4, <1>5 DEF Other

\* Only a request puts a row into its transaction that is not in the table yet.
LEMMA AddedByRequest ==
    ASSUME IInv, IInv', NEW p \in Procs, Other(p), NEW o \in Procs, NEW j \in Jobs, Adds(o, j)'
    PROVE  tx'[o] = tx[o]
<1> SUFFICES ASSUME tx'[o] # tx[o]
             PROVE  FALSE
  OBVIOUS
<1>0. o = p /\ TypeOK /\ tx[p] \in Tx /\ TxInv(p) /\ UNCHANGED job
  BY OtherFrame DEF IInv, TypeOK
<1>1. /\ tx'[p].rows[j] # None /\ job[j] = None
      /\ tx'[p].op = "request" /\ tx'[p].pc = "commit"
  <2>1. Replaces(p, tx[p].rows[j], job[j])'
    BY <1>0 DEF Adds, IInv, TxInv, Written
  <2> QED
    BY <1>0, <2>1 DEF Adds, Replaces
<1>2. tx[p].rows[j] # None => tx[p].op = "request" /\ tx[p].pc = "commit"
  BY <1>0, <1>1 DEF TxInv, Written, Replaces
<1>3. ASSUME NEW a \in Attempts, Finish(p, a) \/ ReadResult(p, a)
      PROVE  FALSE
  <2>1. CASE Finish(p, a)
    BY <1>0, <1>1, <2>1 DEF Finish, TypeOK, NoTx
  <2>2. CASE ReadResult(p, a)
    BY <1>0, <1>1, <2>2 DEF ReadResult, TypeOK, NoTx
  <2> QED
    BY <1>3, <2>1, <2>2
<1>4. ~Evaluate(p)
  <2>0. ~Leave(p)
    BY <1>0, <1>1, <1>2 DEF Leave, TypeOK, Tx
  <2>1. ~(Consider(p) \/ Score(p))
    BY <1>0, <1>1 DEF Consider, Score, TypeOK, Tx
  <2>2. ASSUME NEW i \in Jobs, FailPending(p, i)
        PROVE  FALSE
    <3>1. tx'[p].pc \in {"score", "fail"}
      BY <1>0, <2>2 DEF FailPending, TypeOK, Tx
    <3> QED
      BY <1>1, <3>1
  <2>3. ~InsertResult(p)
    BY <1>0, <1>1, <1>2 DEF InsertResult, TypeOK, Tx
  <2> QED
    BY <2>0, <2>1, <2>2, <2>3 DEF Evaluate
<1>5. ~(Look(p) \/ NoJob(p))
  <2>1. ASSUME NEW i \in Jobs, Claim(p, i)
        PROVE  FALSE
    <3>1. tx'[p].op = "claim"
      BY <1>0, <2>1 DEF Claim, TypeOK, Tx
    <3> QED
      BY <1>1, <3>1
  <2>2. ASSUME NEW i \in Jobs, GiveUp(p, i)
        PROVE  FALSE
    <3> DEFINE u == [tx[p] EXCEPT !.pc = "claim", !.op = "claim", !.tries = TriesLeft(p) - 1,
                                  !.rows[i] = Judged(job[i], "FAILED")]
    <3>1. u.op = "claim" /\ DOMAIN u = DOMAIN tx[p]
      BY <1>0 DEF Tx
    <3>2. tx'[p] = EvaluateIfSubmit(i, u)
      BY <1>0, <2>2 DEF GiveUp, TypeOK
    <3> HIDE DEF u
    <3>3. tx'[p].op = "claim"
      BY <1>0, <3>1, <3>2 DEF EvaluateIfSubmit, Tx
    <3> QED
      BY <1>1, <3>3
  <2>3. ~NoJob(p)
    BY <1>0, <1>1, <1>2 DEF NoJob, TypeOK, Tx
  <2> QED
    BY <2>1, <2>2, <2>3 DEF Look
<1>6. ASSUME NEW status \in {"COMPLETED", "FAILED"}, Report(p, status)
      PROVE  FALSE
  BY <1>0, <1>1, <1>6 DEF Report, EvaluateIfSubmit, TypeOK, Tx, NoTx
<1>7. ~(DeadlockVictim(p) \/ \E answer \in {"raised", "error"} : Crash(p, answer))
  BY <1>0, <1>1 DEF DeadlockVictim, Crash, Rollback, TypeOK, NoTx
<1>8. ~(Refused(p) \/ Restart(p))
  BY <1>0 DEF Refused, Restart
<1> QED
  BY <1>3, <1>4, <1>5, <1>6, <1>7, <1>8 DEF Other, Answer

\* Others' steps, and time, leave a request that is allowed allowed.
LEMMA KeepsPromise ==
    ASSUME NEW o \in Procs, NEW j \in Jobs, Promise(o, j),
           tx[o].rows[j].kind \in Kinds,
           tx'[o].rows[j].kind = tx[o].rows[j].kind, tx'[o].rows[j].att = tx[o].rows[j].att,
           tx'[o].rows[j].ques = tx[o].rows[j].ques, tx'[o].rows[j].key = tx[o].rows[j].key,
           \A i \in Jobs : tx'[o].rows[i] # None => tx[o].rows[i] # None,
           Grown(tx[o].rows[j].att, {})
    PROVE  Promise(o, j)'
<1>1. PICK a, q, key, kind :
         /\ kind \in Kinds /\ tx[o].rows[j].kind = kind /\ tx[o].rows[j].att = a
         /\ tx[o].rows[j].ques = q /\ tx[o].rows[j].key = key
  OBVIOUS
<1>2. Grown(a, {}) /\ ~Existing(a, key) /\ Allowed(a, q, kind)
  BY <1>1 DEF Promise
<1>3. ~Existing(a, key)' /\ Allowed(a, q, kind)'
  BY <1>1, <1>2, StaysAllowed
<1>4. /\ tx'[o].rows[j].kind = kind /\ tx'[o].rows[j].att = a
      /\ tx'[o].rows[j].ques = q /\ tx'[o].rows[j].key = key
      /\ \A i \in Jobs : tx'[o].rows[i] # None => i = j
  BY <1>1 DEF Promise
<1> QED
  BY <1>3, <1>4 DEF Promise, Existing, Allowed, OfAttempt, InFlightOf, OfKind, Recent,
     OfQuestion, RateOf

\* The inductive invariant of this module.
FullInv == IInv /\ PromiseInv /\ LimitsInv

\* With the table unchanged nothing grows.
LEMMA SameTable ==
    ASSUME UNCHANGED job
    PROVE  \A a : Grown(a, {})
BY DEF Grown

LEMMA OtherLimits ==
    ASSUME FullInv, IInv', NEW p \in Procs, Other(p)
    PROVE  PromiseInv' /\ LimitsInv'
<1>1. UNCHANGED job
  BY OtherFrame DEF FullInv
<1>2. \A a : Grown(a, {})
  BY <1>1, SameTable
<1>3. LimitsInv'
  BY <1>2, StaysLimited DEF FullInv, LimitsInv
<1>4. ASSUME NEW o \in Procs, NEW j \in Jobs, Adds(o, j)'
      PROVE  Promise(o, j)'
  <2>1. tx'[o] = tx[o]
    BY <1>4, AddedByRequest DEF FullInv
  <2>2. Adds(o, j) /\ Promise(o, j)
    BY <1>1, <1>4, <2>1 DEF Adds, FullInv, PromiseInv
  <2>3. tx[o].rows[j].kind \in Kinds
    BY <2>2 DEF Adds, FullInv, IInv, TypeOK, Tx, JobRow
  <2> QED
    BY <1>2, <2>1, <2>2, <2>3, KeepsPromise
<1> QED
  BY <1>3, <1>4 DEF PromiseInv

LEMMA RequestLimits ==
    ASSUME FullInv, IInv', NEW c \in Clients, NEW a \in Attempts, NEW q \in Questions,
           NEW kind \in Kinds, NEW key \in Keys \cup {None}, NEW k \in Jobs,
           Request(c, a, q, kind, key, k)
    PROVE  PromiseInv' /\ LimitsInv'
<1>0. /\ UNCHANGED job /\ tx \in [Procs -> Tx] /\ c \in Procs
      /\ \A o \in Procs \ {c} : tx'[o] = tx[o]
  BY DEF Request, FullInv, IInv, TypeOK
<1>1. \A b : Grown(b, {})
  BY <1>0, SameTable
<1>2. LimitsInv'
  BY <1>1, StaysLimited DEF FullInv, LimitsInv
<1>3. ASSUME NEW o \in Procs \ {c}, NEW j \in Jobs, Adds(o, j)'
      PROVE  Promise(o, j)'
  <2>1. tx'[o] = tx[o]
    BY <1>0
  <2>2. Adds(o, j) /\ Promise(o, j)
    BY <1>0, <1>3, <2>1 DEF Adds, FullInv, PromiseInv
  <2>3. tx[o].rows[j].kind \in Kinds
    BY <2>2 DEF Adds, FullInv, IInv, TypeOK, Tx, JobRow
  <2> QED
    BY <1>1, <2>1, <2>2, <2>3, KeepsPromise
<1>4. ASSUME NEW j \in Jobs, Adds(c, j)'
      PROVE  Promise(c, j)'
  <2>1. tx'[c].rows = [i \in Jobs |-> IF i = k THEN NewJob(kind, a, q, key) ELSE None]
    BY <1>0 DEF Request, NoTx
  <2>2. j = k /\ \A i \in Jobs : tx'[c].rows[i] # None => i = j
    BY <1>4, <2>1 DEF Adds
  <2>3. /\ tx'[c].rows[j].kind = kind /\ tx'[c].rows[j].att = a
        /\ tx'[c].rows[j].ques = q /\ tx'[c].rows[j].key = key
    BY <2>1, <2>2 DEF NewJob
  <2>4. ~Existing(a, key) /\ Allowed(a, q, kind)
    BY DEF Request, Guard, Allowed, OfQuestion
  <2>5. ~Existing(a, key)' /\ Allowed(a, q, kind)'
    BY <1>1, <2>4, StaysAllowed
  <2> QED
    BY <2>2, <2>3, <2>5 DEF Promise, Existing, Allowed, OfAttempt, InFlightOf, OfKind, Recent,
       OfQuestion, RateOf
<1> QED
  BY <1>2, <1>3, <1>4 DEF PromiseInv

LEMMA TickLimits ==
    ASSUME FullInv, IInv', Tick
    PROVE  PromiseInv' /\ LimitsInv'
<1>0. TypeOK
  BY DEF FullInv, IInv
<1>1. ASSUME NEW a
      PROVE  Grown(a, {})
  <2>1. SUFFICES ASSUME NEW i \in Jobs, job'[i] # None, job'[i].att = a
                 PROVE  /\ job[i] # None /\ job[i].att = a
                        /\ job'[i].kind = job[i].kind /\ job'[i].ques = job[i].ques
                        /\ job'[i].key = job[i].key
                        /\ job'[i].status \in InFlight => job[i].status \in InFlight
                        /\ job'[i].age <= RateWindow => job[i].age <= RateWindow
    BY DEF Grown
  <2>2. job[i] # None /\ job[i] \in JobRow /\ job'[i] = Older(job[i])
    BY <1>0, <2>1 DEF Tick, TypeOK
  <2>3. job[i].age \in Int /\ RateWindow \in Int
    BY <2>2, ConstantsAssumption DEF JobRow, ConstantsAssumption
  <2>4. job'[i].age <= RateWindow => job[i].age <= RateWindow
    BY <2>2, <2>3, OlderType
  <2> QED
    BY <2>1, <2>2, <2>4, OlderType
<1>2. LimitsInv'
  BY <1>1, StaysLimited DEF FullInv, LimitsInv
<1>3. ASSUME NEW o \in Procs, NEW j \in Jobs, Adds(o, j)'
      PROVE  Promise(o, j)'
  <2>1. \A i \in Jobs : tx'[o].rows[i] = IF tx[o].rows[i] = None THEN None
                                         ELSE Older(tx[o].rows[i])
    BY <1>0 DEF Tick, TypeOK, Tx
  <2>2. job[j] = None
    BY <1>0, <1>3, OlderType, NoneAssumption DEF Adds, Tick, TypeOK, NoneAssumption
  <2>3. Adds(o, j) /\ Promise(o, j)
    BY <1>3, <2>1, <2>2 DEF Adds, FullInv, PromiseInv
  <2>4. tx[o].rows[j] \in JobRow /\ tx'[o].rows[j] = Older(tx[o].rows[j])
    BY <1>0, <2>1, <2>3 DEF Adds, TypeOK, Tx
  <2>5. tx[o].rows[j].kind \in Kinds
    BY <2>4 DEF JobRow
  <2> QED
    BY <1>1, <2>1, <2>3, <2>4, <2>5, OlderType, KeepsPromise
<1> QED
  BY <1>2, <1>3 DEF PromiseInv

\* A commit grows the attempt its transaction holds by the one row it adds, and no other.
LEMMA CommitGrows ==
    ASSUME FullInv, NEW p \in Procs, Commit(p), NEW a, NEW N,
           \A i \in Jobs \ N : Adds(p, i) => tx[p].rows[i].att # a
    PROVE  Grown(a, N)
<1> SUFFICES ASSUME NEW i \in Jobs \ N, job'[i] # None, job'[i].att = a
             PROVE  /\ job[i] # None /\ job[i].att = a
                    /\ job'[i].kind = job[i].kind /\ job'[i].ques = job[i].ques
                    /\ job'[i].key = job[i].key
                    /\ job'[i].status \in InFlight => job[i].status \in InFlight
                    /\ job'[i].age <= RateWindow => job[i].age <= RateWindow
  BY DEF Grown
<1>1. CASE tx[p].rows[i] = None
  BY <1>1, CommittedRow DEF FullInv
<1>2. CASE tx[p].rows[i] # None
  <2>1. job'[i] = tx[p].rows[i] /\ Replaces(p, tx[p].rows[i], job[i])
    BY <1>2, CommittedRow DEF FullInv
  <2>2. job[i] # None
    BY <1>2, <2>1 DEF Adds
  <2> QED
    BY <2>1, <2>2 DEF Replaces
<1> QED
  BY <1>1, <1>2

LEMMA CommitLimits ==
    ASSUME FullInv, IInv', NEW p \in Procs, Commit(p)
    PROVE  PromiseInv' /\ LimitsInv'
<1>0. /\ IInv /\ TypeOK /\ tx'[p] = NoTx
      /\ \A o \in Procs \ {p} : tx'[o] = tx[o]
  BY DEF FullInv, IInv, TypeOK, Commit
<1>1. ASSUME NEW a \in Attempts
      PROVE  Limited(a)'
  <2>0. Limited(a)
    BY DEF FullInv, LimitsInv
  <2>1. CASE \A i \in Jobs : Adds(p, i) => tx[p].rows[i].att # a
    BY <2>0, <2>1, CommitGrows, StaysLimited
  <2>2. ASSUME NEW j \in Jobs, Adds(p, j), tx[p].rows[j].att = a
        PROVE  Limited(a)'
    <3>1. Promise(p, j)
      BY <2>2 DEF FullInv, PromiseInv
    <3>2. Grown(a, {j})
      BY <3>1, CommitGrows DEF Promise, Adds
    <3>3. job'[j] = tx[p].rows[j]
      BY <1>0, <2>2, CommittedRow DEF Adds
    <3>4. tx[p].rows[j].kind \in Kinds
      BY <1>0, <2>2 DEF Adds, TypeOK, Tx, JobRow
    <3> QED
      BY <2>0, <2>2, <3>1, <3>2, <3>3, <3>4, AddsOne DEF Promise, Adds
  <2> QED
    BY <2>1, <2>2
<1>2. ASSUME NEW o \in Procs, NEW j \in Jobs, Adds(o, j)'
      PROVE  Promise(o, j)'
  <2>1. o # p /\ tx'[o] = tx[o]
    BY <1>0, <1>2 DEF Adds, NoTx
  <2>2. job[j] = None
    BY <1>0, <1>2, CommittedRow DEF Adds
  <2>3. Adds(o, j) /\ Promise(o, j)
    BY <1>2, <2>1, <2>2 DEF Adds, FullInv, PromiseInv
  <2>4. tx[o].rows[j].kind \in Kinds /\ tx[o].rows[j].att \in Attempts
    BY <1>0, <2>3 DEF Adds, TypeOK, Tx, JobRow
  <2>5. tx[o].rows[j].att = tx[o].holds
    BY <1>0, <2>3 DEF Adds, IInv, TxInv, Written, Replaces
  <2>6. ASSUME NEW i \in Jobs, Adds(p, i)
        PROVE  tx[p].rows[i].att # tx[o].rows[j].att
    <3>1. tx[p].rows[i].att = tx[p].holds
      BY <1>0, <2>6 DEF Adds, IInv, TxInv, Written, Replaces
    <3>2. Apart(p, o)
      BY <1>0, <2>1 DEF IInv, AllApart
    <3> QED
      BY <2>4, <2>5, <3>1, <3>2, ConstantsAssumption DEF Apart, ConstantsAssumption
  <2>7. Grown(tx[o].rows[j].att, {})
    BY <2>6, CommitGrows
  <2> QED
    BY <2>1, <2>3, <2>4, <2>7, KeepsPromise
<1> QED
  BY <1>1, <1>2 DEF PromiseInv, LimitsInv

-----------------------------------------------------------------------------
(* The theorems *)

LEMMA InitFullInv == Init => FullInv
<1> SUFFICES ASSUME Init
             PROVE  FullInv
  OBVIOUS
<1>1. IInv
  BY InitIInv
<1>2. PromiseInv
  BY DEF Init, PromiseInv, Adds, NoTx
<1>3. ASSUME NEW a \in Attempts
      PROVE  Limited(a)
  <2>1. OfAttempt(a) = {}
    BY DEF Init, OfAttempt, Rows
  <2>2. /\ InFlightOf(a) = {}
        /\ \A kind : OfKind(a, kind) = {} /\ Recent(a, kind) = {}
        /\ \A q : OfQuestion(a, q) = {}
    BY <2>1 DEF InFlightOf, OfKind, Recent, OfQuestion
  <2>3. Cardinality({}) = 0
    BY FS_EmptySet
  <2> QED
    BY <2>1, <2>2, <2>3, ConstantsAssumption DEF Limited, RateOf, ConstantsAssumption
<1> QED
  BY <1>1, <1>2, <1>3 DEF FullInv, LimitsInv

LEMMA StepFullInv == FullInv /\ [Next]_vars => FullInv'
<1> SUFFICES ASSUME FullInv, [Next]_vars
             PROVE  FullInv'
  OBVIOUS
<1>1. IInv'
  BY StepIInv DEF FullInv
<1>2. CASE UNCHANGED vars
  <2>1. UNCHANGED <<job, tx>> /\ \A a : Grown(a, {})
    BY <1>2, SameTable DEF vars
  <2>2. LimitsInv'
    BY <2>1, StaysLimited DEF FullInv, LimitsInv
  <2>3. ASSUME NEW o \in Procs, NEW j \in Jobs, Adds(o, j)'
        PROVE  Promise(o, j)'
    <3>1. Adds(o, j) /\ Promise(o, j)
      BY <2>1, <2>3 DEF Adds, FullInv, PromiseInv
    <3>2. tx[o].rows[j].kind \in Kinds
      BY <3>1 DEF Adds, FullInv, IInv, TypeOK, Tx, JobRow
    <3> QED
      BY <2>1, <3>1, <3>2, KeepsPromise
  <2> QED
    BY <1>1, <2>2, <2>3 DEF FullInv, PromiseInv
<1>3. CASE Tick
  BY <1>1, <1>3, TickLimits DEF FullInv
<1>4. ASSUME NEW c \in Clients, NEW a \in Attempts, NEW q \in Questions, NEW kind \in Kinds,
             NEW key \in Keys \cup {None}, NEW j \in Jobs, Request(c, a, q, kind, key, j)
      PROVE  FullInv'
  BY <1>1, <1>4, RequestLimits DEF FullInv
<1>5. ASSUME NEW p \in Procs, Other(p)
      PROVE  FullInv'
  BY <1>1, <1>5, OtherLimits DEF FullInv
<1>6. ASSUME NEW p \in Procs, Commit(p)
      PROVE  FullInv'
  BY <1>1, <1>6, CommitLimits DEF FullInv
<1> QED
  BY <1>2, <1>3, <1>4, <1>5, <1>6, StepKinds

THEOREM FullInvariantHolds == Spec => []FullInv
<1> QED
  BY InitFullInv, StepFullInv, PTL DEF Spec

\* One unfinished job per question and MaxInFlight in all, whatever requests of the attempt
\* run at the same time (_guard).
THEOREM InFlightIsBounded == Spec => []InFlightBounded
<1>1. FullInv => InFlightBounded
  BY DEF FullInv, LimitsInv, Limited, InFlightBounded
<1> QED
  BY <1>1, FullInvariantHolds, PTL

\* The submission limit, the run limit and the rates hold for the rows that exist.
THEOREM QuotasAreKept == Spec => []QuotasHold
<1>1. FullInv => QuotasHold
  BY DEF FullInv, LimitsInv, Limited, OfQuestion, QuotasHold
<1> QED
  BY <1>1, FullInvariantHolds, PTL

\* A request that is sent again makes no second job (_existing).
THEOREM RetriesMakeNoSecondJob == Spec => []OneJobPerKey
<1>1. FullInv => OneJobPerKey
  <2> SUFFICES ASSUME FullInv, NEW i \in Rows(job), NEW j \in Rows(job),
                      job[i].key # None, job[i].key = job[j].key, job[i].att = job[j].att
               PROVE  i = j
    BY DEF OneJobPerKey
  <2>1. job[i].att \in Attempts
    BY DEF FullInv, IInv, TypeOK, JobRow, Rows
  <2>2. i \in OfAttempt(job[i].att) /\ j \in OfAttempt(job[i].att)
    BY DEF OfAttempt
  <2> QED
    BY <2>1, <2>2 DEF FullInv, LimitsInv, Limited
<1> QED
  BY <1>1, FullInvariantHolds, PTL

\* LimitsHold: one unfinished job per question, MaxInFlight in all, the limits of runs and
\* submissions, the rates, and one job per key (_guard, _existing).
THEOREM LimitsAreKept == Spec => []LimitsHold
<1>1. InFlightBounded /\ QuotasHold /\ OneJobPerKey => LimitsHold
  BY DEF LimitsHold
<1> QED
  BY <1>1, InFlightIsBounded, QuotasAreKept, RetriesMakeNoSecondJob, PTL
=============================================================================
