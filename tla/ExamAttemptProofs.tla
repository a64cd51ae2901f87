-------------------------- MODULE ExamAttemptProofs --------------------------
(***************************************************************************)
(* Proofs about ExamAttempt, for any number of requests, questions and     *)
(* options, any deadline and any limit.                                    *)
(***************************************************************************)
EXTENDS ExamAttempt, FiniteSetTheorems, TLAPS

\* The records and the operators that are expanded wherever a transaction changes.
USE DEF At, Close, Active, Due, Statuses, TerminalStatuses, HoldReasons, SessionStatuses,
        UnlockedOps, ForUpdateOps

LEMMA RowTypes ==
    /\ NewAttempt \in AttemptRow
    /\ NoTx \in Tx
BY DEF NewAttempt, AttemptRow, NoTx, Tx

\* A request that updates its own transaction keeps the table of transactions well typed.
LEMMA TxStep ==
    ASSUME tx \in [Requests -> Tx], NEW r \in Requests, NEW t \in Tx, tx' = [tx EXCEPT ![r] = t]
    PROVE  tx' \in [Requests -> Tx]
OBVIOUS

LEMMA TypeStep ==
    ASSUME TypeOK, [Next]_vars
    PROVE  TypeOK'
<1> USE ConstantsAssumption DEF ConstantsAssumption
<1>1. CASE UNCHANGED vars
  BY <1>1 DEF vars, attVars, ansVars, counters, TypeOK
<1>2. CASE Tick
  BY <1>2 DEF Tick, attVars, ansVars, counters, TypeOK
<1>3. ASSUME NEW r \in Requests, NEW o \in UnlockedOps, Read(r, o)
      PROVE  TypeOK'
  <2>1. saves' \in Nat
    BY <1>3 DEF Read, TypeOK
  <2>2. tx' \in [Requests -> Tx]
    <3> DEFINE t == [tx[r] EXCEPT !.pc = "read", !.op = o, !.seen = att, !.tag = saves']
    <3>1. tx \in [Requests -> Tx] /\ tx[r] \in Tx /\ att \in AttemptRow /\ saves' \in Nat
      BY <1>3, <2>1 DEF TypeOK
    <3>2. t \in Tx
      BY <3>1 DEF Tx
    <3>3. tx' = [tx EXCEPT ![r] = t]
      BY <1>3 DEF Read
    <3> QED
      BY <3>1, <3>2, <3>3, TxStep
  <2> QED
    BY <1>3, <2>1, <2>2 DEF Read, attVars, ansVars, TypeOK
<1>4. ASSUME NEW r \in Requests, NEW o \in ForUpdateOps, Lock(r, o)
      PROVE  TypeOK'
  <2>1. tx' \in [Requests -> Tx]
    <3> DEFINE t == [tx[r] EXCEPT !.pc = "locked", !.op = o, !.seen = att]
    <3>1. tx \in [Requests -> Tx] /\ tx[r] \in Tx /\ att \in AttemptRow
      BY <1>4 DEF TypeOK
    <3>2. t \in Tx
      BY <3>1 DEF Tx
    <3>3. tx' = [tx EXCEPT ![r] = t]
      BY <1>4 DEF Lock
    <3> QED
      BY <3>1, <3>2, <3>3, TxStep
  <2> QED
    BY <1>4, <2>1 DEF Lock, attVars, ansVars, counters, TypeOK
<1>5. ASSUME NEW r \in Requests, Return(r)
      PROVE  TypeOK'
  BY <1>5, RowTypes DEF Return, attVars, ansVars, counters, TypeOK
<1>6. ASSUME NEW r \in Requests, NEW q \in Questions, LoadAnswer(r, q)
      PROVE  TypeOK'
  <2>1. tx' \in [Requests -> Tx]
    <3> DEFINE t == [tx[r] EXCEPT !.pc = "loaded", !.target = q, !.loaded = sel[q]]
    <3>1. tx \in [Requests -> Tx] /\ tx[r] \in Tx /\ sel[q] \in SUBSET SelectionRow
      BY <1>6 DEF TypeOK
    <3>2. t \in Tx
      BY <3>1 DEF Tx
    <3>3. tx' = [tx EXCEPT ![r] = t]
      BY <1>6 DEF LoadAnswer
    <3> QED
      BY <3>1, <3>2, <3>3, TxStep
  <2>2. keyShare' \subseteq Requests /\ creator' \in [Questions -> Requests \cup {None}]
    BY <1>6 DEF LoadAnswer, TypeOK
  <2> QED
    BY <1>6, <2>1, <2>2 DEF LoadAnswer, attVars, counters, TypeOK
<1>7. ASSUME NEW r \in Requests, NEW chosen \in SUBSET Options, CommitSave(r, chosen)
      PROVE  TypeOK'
  <2>1. tx' \in [Requests -> Tx] /\ tx[r] \in Tx
    BY <1>7, RowTypes DEF CommitSave, TypeOK
  <2>2. keyShare' \subseteq Requests /\ creator' \in [Questions -> Requests \cup {None}]
    BY <1>7 DEF CommitSave, DropInsert, TypeOK
  <2>3. row' \in [Questions -> BOOLEAN]
    BY <1>7 DEF CommitSave, TypeOK
  <2>4. {[opt |-> o, by |-> tx[r].tag] : o \in chosen} \subseteq SelectionRow
    BY <2>1 DEF SelectionRow, Tx
  <2>5. sel' \in [Questions -> SUBSET SelectionRow]
    BY <1>7, <2>4 DEF CommitSave, TypeOK
  <2> QED
    BY <1>7, <2>1, <2>2, <2>3, <2>5 DEF CommitSave, attVars, counters, TypeOK
<1>8. ASSUME NEW r \in Requests, Expire(r)
      PROVE  TypeOK'
  <2>1. tx' \in [Requests -> Tx]
    <3> DEFINE t == [tx[r] EXCEPT !.pc = "finishing", !.fin = "TIME_EXPIRED", !.stamp = Duration]
    <3>1. tx \in [Requests -> Tx] /\ tx[r] \in Tx /\ Duration \in Nat
      BY <1>8 DEF TypeOK
    <3>2. t \in Tx
      BY <3>1 DEF Tx
    <3>3. tx' = [tx EXCEPT ![r] = t]
      BY <1>8 DEF Expire
    <3> QED
      BY <3>1, <3>2, <3>3, TxStep
  <2> QED
    BY <1>8, <2>1 DEF Expire, attVars, ansVars, counters, TypeOK
<1>9. ASSUME NEW r \in Requests, Finish(r)
      PROVE  TypeOK'
  <2>1. tx' \in [Requests -> Tx]
    <3> DEFINE t == [tx[r] EXCEPT !.pc = "finishing", !.fin = "SUBMITTED", !.stamp = now]
    <3>1. tx \in [Requests -> Tx] /\ tx[r] \in Tx /\ now \in Nat
      BY <1>9 DEF TypeOK
    <3>2. t \in Tx
      BY <3>1 DEF Tx
    <3>3. tx' = [tx EXCEPT ![r] = t]
      BY <1>9 DEF Finish
    <3> QED
      BY <3>1, <3>2, <3>3, TxStep
  <2> QED
    BY <1>9, <2>1 DEF Finish, attVars, ansVars, counters, TypeOK
<1>10. ASSUME NEW r \in Requests, EnsureResult(r)
       PROVE  TypeOK'
  <2>1. Evaluated \in {None} \cup SUBSET Questions
    BY DEF Evaluated, Score, TypeOK
  <2>2. tx' \in [Requests -> Tx]
    <3> DEFINE t == [tx[r] EXCEPT !.pc = "scored", !.scored = Evaluated]
    <3>1. tx \in [Requests -> Tx] /\ tx[r] \in Tx /\ Evaluated \in {None} \cup SUBSET Questions
      BY <1>10, <2>1 DEF TypeOK
    <3>2. t \in Tx
      BY <3>1 DEF Tx
    <3>3. tx' = [tx EXCEPT ![r] = t]
      BY <1>10 DEF EnsureResult
    <3> QED
      BY <3>1, <3>2, <3>3, TxStep
  <2> QED
    BY <1>10, <2>2 DEF EnsureResult, attVars, ansVars, counters, TypeOK
<1>11. ASSUME NEW r \in Requests, CommitFinish(r)
       PROVE  TypeOK'
  <2>1. tx' \in [Requests -> Tx] /\ tx[r] \in Tx
    BY <1>11, RowTypes DEF CommitFinish, TypeOK
  <2>2. att' \in AttemptRow
    BY <1>11, <2>1 DEF CommitFinish, TypeOK, AttemptRow, Tx
  <2>3. session' \in SessionStatuses \cup {None} /\ result' \in {None} \cup SUBSET Questions
    BY <1>11, <2>1 DEF CommitFinish, Ended, TypeOK, Tx
  <2> QED
    BY <1>11, <2>1, <2>2, <2>3 DEF CommitFinish, ansVars, counters, TypeOK
<1>12. ASSUME NEW r \in Requests, Unlock(r), att' \in AttemptRow,
              session' \in SessionStatuses \cup {None}, events' \subseteq EventIds,
              UNCHANGED result
       PROVE  TypeOK'
  BY <1>12, RowTypes DEF Unlock, ansVars, counters, TypeOK
<1>13. ASSUME NEW r \in Requests, Hold(r) \/ Release(r)
       PROVE  TypeOK'
  <2>1. att' \in AttemptRow
    BY <1>13 DEF Hold, Release, TypeOK, AttemptRow
  <2> QED
    BY <1>12, <1>13, <2>1 DEF Hold, Release, TypeOK
<1>14. ASSUME NEW r \in Requests, Activate(r) \/ NoChange(r)
       PROVE  TypeOK'
  BY <1>12, <1>14 DEF Activate, NoChange, attVars, TypeOK
<1>15. ASSUME NEW r \in Requests, NEW e \in EventIds, NEW counted \in BOOLEAN,
              FocusRegained(r, e, counted)
       PROVE  TypeOK'
  <2>1. att' \in AttemptRow
    <3>1. att \in AttemptRow /\ TabSwitch(counted)
      BY <1>15 DEF FocusRegained, TypeOK
    <3>2. CASE att' = att
      BY <3>1, <3>2
    <3>3. CASE counted /\ att.held = None
      <4>1. att.switches + 1 \in Nat
        BY <3>1 DEF AttemptRow
      <4>2. PICK n \in Nat, h \in HoldReasons \cup {None} :
              att' = [att EXCEPT !.switches = n, !.held = h]
        BY <3>1, <3>3, <4>1 DEF TabSwitch
      <4> QED
        BY <3>1, <4>2 DEF AttemptRow
    <3> QED
      BY <3>1, <3>2, <3>3 DEF TabSwitch
  <2> QED
    BY <1>12, <1>15, <2>1 DEF FocusRegained, TypeOK
<1>16. ASSUME NEW r \in Requests, Crash(r)
       PROVE  TypeOK'
  BY <1>16, RowTypes DEF Crash, DropInsert, attVars, TypeOK
<1> QED
  BY <1>1, <1>2, <1>3, <1>4, <1>5, <1>6, <1>7, <1>8, <1>9, <1>10, <1>11, <1>13, <1>14, <1>15, <1>16
     DEF Next, Begin, Continue

-----------------------------------------------------------------------------
(* The inductive invariant.                                                *)

\* The row lock is held exactly by the request that is past its locking statement.
LockInv ==
    \A r \in Requests : tx[r].pc \in {"locked", "finishing", "scored"} <=> rowLock = r

\* What a lock holder that selected FOR UPDATE has read is what is committed.
FreshInv ==
    \A r \in Requests :
        /\ tx[r].pc \in {"read", "loaded"} => tx[r].op \in UnlockedOps
        /\ rowLock = r /\ tx[r].op \in ForUpdateOps => tx[r].seen = att

\* SUBMITTED is about to be written only by a submit or an end that was allowed to.
FinishingInv ==
    \A r \in Requests :
        tx[r].pc \in {"finishing", "scored"} /\ tx[r].fin = "SUBMITTED" => MayFinish(r)

\* The result about to be stored is a set of questions, and the stored one if there is one.
ScoredInv ==
    \A r \in Requests :
        tx[r].pc = "scored" =>
            /\ tx[r].scored \in SUBSET Questions
            /\ result # None => tx[r].scored = result

\* A save that got past its checks has seen the devices confirmed.
LoadedInv ==
    \A r \in Requests : tx[r].pc = "loaded" => session # "NOT_STARTED"

IInv ==
    /\ TypeOK
    /\ LockInv
    /\ FreshInv
    /\ FinishingInv
    /\ ScoredInv
    /\ LoadedInv
    /\ FinishIsWhole
    /\ SubmittedNotHeld
    /\ NoAnswerBeforeActivation
    /\ SwitchesReported

LEMMA LockStep ==
    ASSUME TypeOK, LockInv, [Next]_vars
    PROVE  LockInv'
<1> USE ConstantsAssumption DEF ConstantsAssumption, LockInv
<1>1. tx \in [Requests -> Tx] /\ NoTx.pc = "idle"
  BY DEF TypeOK, NoTx
<1>2. CASE UNCHANGED vars
  BY <1>2 DEF vars
<1>3. CASE Tick
  BY <1>3 DEF Tick
<1>4. ASSUME NEW r \in Requests, NEW o \in UnlockedOps, Read(r, o)
      PROVE  LockInv'
  BY <1>1, <1>4 DEF Read, Tx
<1>5. ASSUME NEW r \in Requests, NEW o \in ForUpdateOps, Lock(r, o)
      PROVE  LockInv'
  BY <1>1, <1>5 DEF Lock, Tx
<1>6. ASSUME NEW r \in Requests, Return(r)
      PROVE  LockInv'
  BY <1>1, <1>6 DEF Return
<1>7. ASSUME NEW r \in Requests, NEW q \in Questions, LoadAnswer(r, q)
      PROVE  LockInv'
  BY <1>1, <1>7 DEF LoadAnswer, Tx
<1>8. ASSUME NEW r \in Requests, NEW chosen \in SUBSET Options, CommitSave(r, chosen)
      PROVE  LockInv'
  BY <1>1, <1>8 DEF CommitSave
<1>9. ASSUME NEW r \in Requests, Expire(r) \/ Finish(r) \/ EnsureResult(r)
      PROVE  LockInv'
  <2>1. CASE Expire(r)
    BY <1>1, <2>1 DEF Expire, Tx
  <2>2. CASE Finish(r)
    BY <1>1, <2>2 DEF Finish, Tx
  <2>3. CASE EnsureResult(r)
    BY <1>1, <2>3 DEF EnsureResult, Tx
  <2> QED
    BY <1>9, <2>1, <2>2, <2>3
<1>10. ASSUME NEW r \in Requests, CommitFinish(r) \/ Unlock(r)
       PROVE  LockInv'
  BY <1>1, <1>10 DEF CommitFinish, Unlock
<1>11. ASSUME NEW r \in Requests, Crash(r)
       PROVE  LockInv'
  BY <1>1, <1>11 DEF Crash
<1> QED
  BY <1>2, <1>3, <1>4, <1>5, <1>6, <1>7, <1>8, <1>9, <1>10, <1>11
     DEF Next, Begin, Continue, Hold, Release, Activate, FocusRegained, NoChange

LEMMA FreshStep ==
    ASSUME TypeOK, LockInv, FreshInv, [Next]_vars
    PROVE  FreshInv'
<1> USE ConstantsAssumption DEF ConstantsAssumption, LockInv, FreshInv
<1>1. tx \in [Requests -> Tx] /\ NoTx.pc = "idle" /\ NoTx.op = "poll"
  BY DEF TypeOK, NoTx
<1>2. CASE UNCHANGED vars
  BY <1>2 DEF vars, attVars
<1>3. CASE Tick
  BY <1>3 DEF Tick, attVars
<1>4. ASSUME NEW r \in Requests, NEW o \in UnlockedOps, Read(r, o)
      PROVE  FreshInv'
  BY <1>1, <1>4 DEF Read, attVars, Tx
<1>5. ASSUME NEW r \in Requests, NEW o \in ForUpdateOps, Lock(r, o)
      PROVE  FreshInv'
  BY <1>1, <1>5 DEF Lock, attVars, Tx
<1>6. ASSUME NEW r \in Requests, Return(r)
      PROVE  FreshInv'
  BY <1>1, <1>6 DEF Return, attVars
<1>7. ASSUME NEW r \in Requests, NEW q \in Questions, LoadAnswer(r, q)
      PROVE  FreshInv'
  BY <1>1, <1>7 DEF LoadAnswer, attVars, Tx
<1>8. ASSUME NEW r \in Requests, NEW chosen \in SUBSET Options, CommitSave(r, chosen)
      PROVE  FreshInv'
  BY <1>1, <1>8 DEF CommitSave, attVars
<1>9. ASSUME NEW r \in Requests, Expire(r)
      PROVE  FreshInv'
  BY <1>1, <1>9 DEF Expire, attVars, Tx
<1>10. ASSUME NEW r \in Requests, Finish(r) \/ EnsureResult(r)
       PROVE  FreshInv'
  <2>1. CASE Finish(r)
    BY <1>1, <2>1 DEF Finish, attVars, Tx
  <2>2. CASE EnsureResult(r)
    BY <1>1, <2>2 DEF EnsureResult, attVars, Tx
  <2> QED
    BY <1>10, <2>1, <2>2
<1>11. ASSUME NEW r \in Requests, CommitFinish(r) \/ Unlock(r)
       PROVE  FreshInv'
  BY <1>1, <1>11 DEF CommitFinish, Unlock
<1>12. ASSUME NEW r \in Requests, Crash(r)
       PROVE  FreshInv'
  BY <1>1, <1>12 DEF Crash, attVars
<1> QED
  BY <1>2, <1>3, <1>4, <1>5, <1>6, <1>7, <1>8, <1>9, <1>10, <1>11, <1>12
     DEF Next, Begin, Continue, Hold, Release, Activate, FocusRegained, NoChange

LEMMA FinishingStep ==
    ASSUME TypeOK, FinishingInv, [Next]_vars
    PROVE  FinishingInv'
<1> USE DEF FinishingInv, MayFinish
<1>1. tx \in [Requests -> Tx] /\ NoTx.pc = "idle"
  BY DEF TypeOK, NoTx
<1>2. CASE UNCHANGED vars
  BY <1>2 DEF vars
<1>3. CASE Tick
  BY <1>3 DEF Tick
<1>4. ASSUME NEW r \in Requests, NEW o \in UnlockedOps, Read(r, o)
      PROVE  FinishingInv'
  BY <1>1, <1>4 DEF Read, Tx
<1>5. ASSUME NEW r \in Requests, NEW o \in ForUpdateOps, Lock(r, o)
      PROVE  FinishingInv'
  BY <1>1, <1>5 DEF Lock, Tx
<1>6. ASSUME NEW r \in Requests, NEW q \in Questions, LoadAnswer(r, q)
      PROVE  FinishingInv'
  BY <1>1, <1>6 DEF LoadAnswer, Tx
<1>7. ASSUME NEW r \in Requests, Expire(r)
      PROVE  FinishingInv'
  BY <1>1, <1>7 DEF Expire, Tx
<1>8. ASSUME NEW r \in Requests, Finish(r)
      PROVE  FinishingInv'
  BY <1>1, <1>8 DEF Finish, Tx
<1>9. ASSUME NEW r \in Requests, EnsureResult(r)
      PROVE  FinishingInv'
  BY <1>1, <1>9 DEF EnsureResult, Tx
<1>10. ASSUME NEW r \in Requests, Close(r)
       PROVE  FinishingInv'
  BY <1>1, <1>10
<1> QED
  BY <1>2, <1>3, <1>4, <1>5, <1>6, <1>7, <1>8, <1>9, <1>10
     DEF Next, Begin, Continue, Return, CommitSave, CommitFinish, Hold, Release, Activate,
         FocusRegained, NoChange, Unlock, Crash

LEMMA ScoredStep ==
    ASSUME TypeOK, LockInv, ScoredInv, [Next]_vars
    PROVE  ScoredInv'
<1> USE ConstantsAssumption DEF ConstantsAssumption, ScoredInv
<1>1. tx \in [Requests -> Tx] /\ NoTx.pc = "idle"
  BY DEF TypeOK, NoTx
<1>2. CASE UNCHANGED vars
  BY <1>2 DEF vars, attVars
<1>3. CASE Tick
  BY <1>3 DEF Tick, attVars
<1>4. ASSUME NEW r \in Requests, NEW o \in UnlockedOps, Read(r, o)
      PROVE  ScoredInv'
  BY <1>1, <1>4 DEF Read, attVars, Tx
<1>5. ASSUME NEW r \in Requests, NEW o \in ForUpdateOps, Lock(r, o)
      PROVE  ScoredInv'
  BY <1>1, <1>5 DEF Lock, attVars, Tx
<1>6. ASSUME NEW r \in Requests, NEW q \in Questions, LoadAnswer(r, q)
      PROVE  ScoredInv'
  BY <1>1, <1>6 DEF LoadAnswer, attVars, Tx
<1>7. ASSUME NEW r \in Requests, Expire(r)
      PROVE  ScoredInv'
  BY <1>1, <1>7 DEF Expire, attVars, Tx
<1>8. ASSUME NEW r \in Requests, Finish(r)
      PROVE  ScoredInv'
  BY <1>1, <1>8 DEF Finish, attVars, Tx
<1>9. ASSUME NEW r \in Requests, EnsureResult(r)
      PROVE  ScoredInv'
  <2>1. /\ Evaluated \in SUBSET Questions
        /\ result # None => Evaluated = result
    BY DEF Evaluated, Score, TypeOK
  <2> QED
    BY <1>1, <1>9, <2>1 DEF EnsureResult, attVars, Tx
<1>10. ASSUME NEW r \in Requests, CommitFinish(r)
       PROVE  ScoredInv'
  <2>1. \A s \in Requests : tx'[s].pc # "scored"
    BY <1>1, <1>10 DEF CommitFinish, LockInv
  <2> QED
    BY <2>1
<1>11. ASSUME NEW r \in Requests, Close(r), UNCHANGED result
       PROVE  ScoredInv'
  BY <1>1, <1>11
<1> QED
  BY <1>2, <1>3, <1>4, <1>5, <1>6, <1>7, <1>8, <1>9, <1>10, <1>11
     DEF Next, Begin, Continue, Return, CommitSave, Hold, Release, Activate,
         FocusRegained, NoChange, Unlock, Crash, attVars

\* A proctoring session never goes back to NOT_STARTED.
LEMMA SessionStep ==
    ASSUME TypeOK, [Next]_vars, session # "NOT_STARTED"
    PROVE  session' # "NOT_STARTED"
BY NoneAssumption
   DEF NoneAssumption, Next, Begin, Continue, vars, attVars, Tick, Read, Lock, Return, LoadAnswer,
       CommitSave, Expire, Finish, EnsureResult, CommitFinish, Ended, Hold, Release, Activate,
       FocusRegained, NoChange, Crash

LEMMA LoadedStep ==
    ASSUME TypeOK, FreshInv, LoadedInv, NoAnswerBeforeActivation, [Next]_vars
    PROVE  LoadedInv' /\ NoAnswerBeforeActivation'
<1> USE DEF LoadedInv, NoAnswerBeforeActivation
<1>1. tx \in [Requests -> Tx] /\ NoTx.pc = "idle"
  BY DEF TypeOK, NoTx
<1>2. row \in [Questions -> BOOLEAN] /\ sel \in [Questions -> SUBSET SelectionRow]
  BY DEF TypeOK
<1>3. ASSUME NEW r \in Requests, NEW q \in Questions, LoadAnswer(r, q)
      PROVE  LoadedInv' /\ NoAnswerBeforeActivation'
  BY <1>1, <1>3 DEF LoadAnswer, MayAnswer, attVars, Tx
<1>4. ASSUME NEW r \in Requests, NEW chosen \in SUBSET Options, CommitSave(r, chosen)
      PROVE  LoadedInv' /\ NoAnswerBeforeActivation'
  <2>1. session # "NOT_STARTED" /\ session' = session
    BY <1>4 DEF CommitSave, attVars
  <2> QED
    BY <1>1, <1>4, <2>1 DEF CommitSave
<1>5. ASSUME UNCHANGED <<row, sel>>,
             \A r \in Requests : tx'[r].pc = "loaded" => tx[r].pc = "loaded"
      PROVE  LoadedInv' /\ NoAnswerBeforeActivation'
  BY <1>5, SessionStep
<1>6. ASSUME NEW r \in Requests, Close(r)
      PROVE  \A s \in Requests : tx'[s].pc = "loaded" => tx[s].pc = "loaded"
  BY <1>1, <1>6
<1>7. CASE UNCHANGED vars
  BY <1>5, <1>7 DEF vars, ansVars
<1>8. CASE Tick
  BY <1>5, <1>8 DEF Tick, ansVars
<1>9. ASSUME NEW r \in Requests, NEW o \in UnlockedOps, Read(r, o)
      PROVE  LoadedInv' /\ NoAnswerBeforeActivation'
  BY <1>1, <1>5, <1>9 DEF Read, ansVars, Tx
<1>10. ASSUME NEW r \in Requests, NEW o \in ForUpdateOps, Lock(r, o)
       PROVE  LoadedInv' /\ NoAnswerBeforeActivation'
  BY <1>1, <1>5, <1>10 DEF Lock, ansVars, Tx
<1>11. ASSUME NEW r \in Requests, Expire(r)
       PROVE  LoadedInv' /\ NoAnswerBeforeActivation'
  BY <1>1, <1>5, <1>11 DEF Expire, ansVars, Tx
<1>12. ASSUME NEW r \in Requests, Finish(r)
       PROVE  LoadedInv' /\ NoAnswerBeforeActivation'
  BY <1>1, <1>5, <1>12 DEF Finish, ansVars, Tx
<1>13. ASSUME NEW r \in Requests, EnsureResult(r)
       PROVE  LoadedInv' /\ NoAnswerBeforeActivation'
  BY <1>1, <1>5, <1>13 DEF EnsureResult, ansVars, Tx
<1>14. ASSUME NEW r \in Requests, Close(r), UNCHANGED <<row, sel>>
       PROVE  LoadedInv' /\ NoAnswerBeforeActivation'
  BY <1>5, <1>6, <1>14
<1> QED
  BY <1>3, <1>4, <1>7, <1>8, <1>9, <1>10, <1>11, <1>12, <1>13, <1>14
     DEF Next, Begin, Continue, Return, CommitFinish, Hold, Release, Activate,
         FocusRegained, NoChange, Unlock, Crash, ansVars

LEMMA WholeStep ==
    ASSUME TypeOK, LockInv, FreshInv, ScoredInv, FinishIsWhole, [Next]_vars
    PROVE  FinishIsWhole'
<1> USE DEF FinishIsWhole, Finalized
<1>1. att \in AttemptRow /\ tx \in [Requests -> Tx]
  BY DEF TypeOK
<1>2. ASSUME UNCHANGED attVars
      PROVE  FinishIsWhole'
  BY <1>2 DEF attVars
<1>3. ASSUME NEW r \in Requests, CommitFinish(r)
      PROVE  FinishIsWhole'
  <2>1. tx[r].scored \in SUBSET Questions /\ tx[r].stamp \in Nat /\ tx[r].fin \in TerminalStatuses
    BY <1>1, <1>3 DEF CommitFinish, ScoredInv, Tx
  <2>2. tx[r].scored # None /\ tx[r].stamp # None
    BY <2>1, NoneAssumption DEF NoneAssumption
  <2>3. att'.status \in TerminalStatuses /\ att'.finalizedAt # None /\ result' # None
    BY <1>1, <1>3, <2>1, <2>2 DEF CommitFinish, AttemptRow
  <2>4. session' # None => session' = "ENDED"
    BY <1>3 DEF CommitFinish, Ended
  <2> QED
    BY <2>3, <2>4
<1>4. ASSUME NEW r \in Requests, Hold(r) \/ Release(r)
      PROVE  FinishIsWhole'
  <2>1. att'.status = att.status /\ att'.finalizedAt = att.finalizedAt
    BY <1>1, <1>4 DEF Hold, Release, AttemptRow
  <2> QED
    BY <1>4, <2>1 DEF Hold, Release
<1>5. ASSUME NEW r \in Requests, Activate(r)
      PROVE  FinishIsWhole'
  BY <1>5, NoneAssumption DEF NoneAssumption, Activate
<1>6. ASSUME NEW r \in Requests, NEW e \in EventIds, NEW counted \in BOOLEAN,
             FocusRegained(r, e, counted)
      PROVE  FinishIsWhole'
  <2>1. att'.status = att.status /\ att'.finalizedAt = att.finalizedAt
    BY <1>1, <1>6 DEF FocusRegained, TabSwitch, AttemptRow
  <2> QED
    BY <1>6, <2>1 DEF FocusRegained
<1> QED
  BY <1>2, <1>3, <1>4, <1>5, <1>6
     DEF vars, attVars, Next, Begin, Continue, Tick, Read, Lock, Return, LoadAnswer, CommitSave,
         Expire, Finish, EnsureResult, NoChange, Crash

\* Each action that writes the attempt row works on the row as it is committed.
LEMMA LockedRow ==
    ASSUME TypeOK, LockInv, FreshInv, NEW r \in Requests, At(r, "locked"), tx[r].op \in ForUpdateOps
    PROVE  tx[r].seen = att
BY DEF LockInv, FreshInv

LEMMA SubmittedStep ==
    ASSUME TypeOK, LockInv, FreshInv, FinishingInv, SubmittedNotHeld, [Next]_vars
    PROVE  SubmittedNotHeld'
<1> USE DEF SubmittedNotHeld
<1>1. att \in AttemptRow /\ tx \in [Requests -> Tx]
  BY DEF TypeOK
<1>2. ASSUME UNCHANGED att
      PROVE  SubmittedNotHeld'
  BY <1>2
<1>3. ASSUME NEW r \in Requests, CommitFinish(r)
      PROVE  SubmittedNotHeld'
  <2>1. CASE tx[r].fin = "SUBMITTED"
    <3>1. MayFinish(r) /\ rowLock = r
      BY <1>3, <2>1 DEF CommitFinish, FinishingInv, LockInv
    <3>2. tx[r].seen = att
      BY <3>1 DEF MayFinish, FreshInv
    <3>3. CASE tx[r].op = "end"
      BY <1>1, <1>3, <2>1, <3>3, NoneAssumption DEF NoneAssumption, CommitFinish, AttemptRow
    <3>4. CASE tx[r].op = "submit"
      BY <1>1, <1>3, <2>1, <3>1, <3>2, <3>4 DEF CommitFinish, MayFinish, AttemptRow
    <3> QED
      BY <3>1, <3>3, <3>4 DEF MayFinish
  <2>2. CASE tx[r].fin # "SUBMITTED"
    BY <1>1, <1>3, <2>2 DEF CommitFinish, AttemptRow
  <2> QED
    BY <2>1, <2>2
<1>4. ASSUME NEW r \in Requests, Hold(r) \/ Release(r)
      PROVE  SubmittedNotHeld'
  <2>1. att.status = "IN_PROGRESS"
    BY <1>4, LockedRow DEF Hold, Release, Unlock
  <2>2. att'.status = att.status
    BY <1>1, <1>4 DEF Hold, Release, AttemptRow
  <2> QED
    BY <2>1, <2>2
<1>5. ASSUME NEW r \in Requests, NEW e \in EventIds, NEW counted \in BOOLEAN,
             FocusRegained(r, e, counted)
      PROVE  SubmittedNotHeld'
  <2>1. att.status = "IN_PROGRESS"
    BY <1>5, LockedRow DEF FocusRegained, Unlock
  <2>2. att'.status = att.status
    BY <1>1, <1>5 DEF FocusRegained, TabSwitch, AttemptRow
  <2> QED
    BY <2>1, <2>2
<1> QED
  BY <1>2, <1>3, <1>4, <1>5
     DEF vars, attVars, Next, Begin, Continue, Tick, Read, Lock, Return, LoadAnswer, CommitSave,
         Expire, Finish, EnsureResult, Activate, NoChange, Crash

LEMMA ReportedStep ==
    ASSUME TypeOK, SwitchesReported, [Next]_vars
    PROVE  SwitchesReported'
<1> USE DEF SwitchesReported
<1>1. att \in AttemptRow /\ tx \in [Requests -> Tx] /\ att.switches \in Nat
  BY DEF TypeOK, AttemptRow
<1>2. ASSUME UNCHANGED events, att'.switches = att.switches
      PROVE  SwitchesReported'
  BY <1>2
<1>3. ASSUME NEW r \in Requests, NEW e \in EventIds, NEW counted \in BOOLEAN,
             FocusRegained(r, e, counted)
      PROVE  SwitchesReported'
  <2>1. events' = events \cup {e} /\ e \notin events
    BY <1>3 DEF FocusRegained, NewReport
  <2>2. /\ IsFiniteSet(events')
        /\ Cardinality(events') = Cardinality(events) + 1
        /\ Cardinality(events) \in Nat
    BY <2>1, FS_AddElement, FS_CardinalityType
  <2>3. att'.switches \in {att.switches, att.switches + 1}
    BY <1>1, <1>3 DEF FocusRegained, TabSwitch, AttemptRow
  <2> QED
    BY <1>1, <2>2, <2>3
<1>4. ASSUME NEW r \in Requests, CommitFinish(r) \/ Hold(r) \/ Release(r)
      PROVE  att'.switches = att.switches /\ UNCHANGED events
  BY <1>1, <1>4 DEF CommitFinish, Hold, Release, AttemptRow
<1> QED
  BY <1>2, <1>3, <1>4
     DEF vars, attVars, Next, Begin, Continue, Tick, Read, Lock, Return, LoadAnswer, CommitSave,
         Expire, Finish, EnsureResult, Activate, NoChange, Crash

-----------------------------------------------------------------------------
(* The theorems.                                                           *)

LEMMA InitIInv == Init => IInv
<1> SUFFICES ASSUME Init PROVE IInv
  OBVIOUS
<1> USE ConstantsAssumption, NoneAssumption DEF ConstantsAssumption, NoneAssumption, Init
<1>1. TypeOK
  BY RowTypes DEF TypeOK
<1>2. LockInv /\ FreshInv /\ FinishingInv /\ ScoredInv /\ LoadedInv
  BY DEF LockInv, FreshInv, FinishingInv, ScoredInv, LoadedInv, NoTx
<1>3. FinishIsWhole /\ SubmittedNotHeld /\ NoAnswerBeforeActivation
  BY DEF FinishIsWhole, SubmittedNotHeld, NoAnswerBeforeActivation, Finalized, NewAttempt
<1>4. SwitchesReported
  BY FS_EmptySet DEF SwitchesReported, NewAttempt
<1> QED
  BY <1>1, <1>2, <1>3, <1>4 DEF IInv

LEMMA StepIInv == IInv /\ [Next]_vars => IInv'
BY TypeStep, LockStep, FreshStep, FinishingStep, ScoredStep, LoadedStep, WholeStep, SubmittedStep,
   ReportedStep
   DEF IInv

\* The strengthening behind every safety theorem below: who holds the lock, what the holder
\* has read, and what it is about to write.
THEOREM Invariance == Spec => []IInv
BY InitIInv, StepIInv, PTL DEF Spec

\* Whatever requests the handlers serve, every row and every transaction keeps its type.
THEOREM TypeCorrect == Spec => []TypeOK
BY Invariance, PTL DEF IInv

\* An attempt is finalized exactly when it has a finish time, a result and an ended session,
\* for any number of concurrent finishers and crashes.
THEOREM FinishingIsWhole == Spec => []FinishIsWhole
BY Invariance, PTL DEF IInv

\* No candidate's submission gets past a hold.
THEOREM SubmissionRespectsHold == Spec => []SubmittedNotHeld
BY Invariance, PTL DEF IInv

\* Tab switches never outnumber the distinct reports, however often a report is retried.
THEOREM RetriesCountOnce == Spec => []SwitchesReported
BY Invariance, PTL DEF IInv

\* No answer of a proctored attempt is stored before its devices are confirmed.
THEOREM ActivationComesFirst == Spec => []NoAnswerBeforeActivation
BY Invariance, PTL DEF IInv

LEMMA ResultStep ==
    ASSUME IInv, [Next]_vars
    PROVE  result # None => result' = result
<1>1. ASSUME NEW r \in Requests, CommitFinish(r), result # None
      PROVE  result' = result
  BY <1>1 DEF CommitFinish, ScoredInv, IInv
<1> QED
  BY <1>1
     DEF vars, attVars, Next, Begin, Continue, Tick, Read, Lock, Return, LoadAnswer, CommitSave,
         Expire, Finish, EnsureResult, Hold, Release, Activate, FocusRegained, NoChange, Crash

\* A stored result is never replaced, however many finishers raced.
THEOREM ResultNeverReplaced == Spec => ResultIsFixed
<1>1. IInv /\ [Next]_vars => [result # None => result' = result]_vars
  BY ResultStep
<1> QED
  BY <1>1, Invariance, PTL DEF Spec, ResultIsFixed

LEMMA CountedStep ==
    ASSUME IInv, [Next]_vars, att'.switches # att.switches
    PROVE  /\ att'.switches = att.switches + 1
           /\ Active(att) /\ att.held = None
           /\ att'.switches >= TabSwitchLimit => att'.held # None
<1>1. att \in AttemptRow /\ att.switches \in Nat
  BY DEF IInv, TypeOK, AttemptRow
<1>2. ASSUME NEW r \in Requests, CommitFinish(r) \/ Hold(r) \/ Release(r)
      PROVE  FALSE
  BY <1>1, <1>2 DEF CommitFinish, Hold, Release, AttemptRow
<1>3. PICK r \in Requests, e \in EventIds, counted \in BOOLEAN : FocusRegained(r, e, counted)
  BY <1>2
     DEF vars, attVars, Next, Begin, Continue, Tick, Read, Lock, Return, LoadAnswer, CommitSave,
         Expire, Finish, EnsureResult, Activate, NoChange, Crash
<1>4. Active(att)
  BY <1>3, LockedRow DEF FocusRegained, Unlock, IInv
<1>5. counted /\ att.held = None
  BY <1>3 DEF FocusRegained, TabSwitch
<1> QED
  BY <1>1, <1>3, <1>4, <1>5, NoneAssumption
     DEF NoneAssumption, FocusRegained, TabSwitch, AttemptRow

\* The tab-switch count grows one at a time, only while the attempt is open and not held, and
\* the switch that reaches the limit holds the attempt in the same commit.
THEOREM SwitchesAreCounted == Spec => SwitchesCounted
<1>1. IInv /\ [Next]_vars =>
        [att'.switches # att.switches =>
           /\ att'.switches = att.switches + 1
           /\ Active(att) /\ att.held = None
           /\ att'.switches >= TabSwitchLimit => att'.held # None]_vars
  BY CountedStep
<1> QED
  BY <1>1, Invariance, PTL DEF Spec, SwitchesCounted

-----------------------------------------------------------------------------
(* Refinement of AttemptLifecycle.                                         *)

LEMMA LifecycleStep ==
    ASSUME IInv, [Next]_vars
    PROVE  [Lifecycle!Next]_(Lifecycle!vars)
<1> USE DEF Lifecycle!vars
<1>1. att \in AttemptRow /\ tx \in [Requests -> Tx] /\ att.switches \in Nat
  BY DEF IInv, TypeOK, AttemptRow
<1>2. ASSUME UNCHANGED <<att, session, result>>
      PROVE  UNCHANGED Lifecycle!vars
  BY <1>2
<1>3. ASSUME NEW r \in Requests, CommitFinish(r)
      PROVE  [Lifecycle!Next]_(Lifecycle!vars)
  <2>1. /\ att'.held = att.held
        /\ att'.switches = att.switches
        /\ att'.status \in TerminalStatuses
    BY <1>1, <1>3 DEF CommitFinish, AttemptRow, Tx
  <2>2. tx[r].scored \in SUBSET Questions /\ (result # None => tx[r].scored = result)
    BY <1>3 DEF CommitFinish, IInv, ScoredInv
  <2>3. CASE Active(att)
    <3>1. Lifecycle!Finish
      BY <1>3, <2>1, <2>2, <2>3 DEF CommitFinish, Ended, Lifecycle!Finish
    <3> QED
      BY <3>1 DEF Lifecycle!Next
  <2>4. CASE ~Active(att)
    <3>1. Finalized
      BY <1>1, <2>4 DEF Finalized, AttemptRow
    <3>2. result # None /\ (session # None => session = "ENDED")
      BY <3>1 DEF IInv, FinishIsWhole
    <3>3. session' = session /\ result' = result
      BY <1>3, <2>2, <3>2 DEF CommitFinish, Ended
    <3> QED
      BY <2>1, <2>4, <3>3
  <2> QED
    BY <2>3, <2>4
<1>4. ASSUME NEW r \in Requests, Hold(r)
      PROVE  [Lifecycle!Next]_(Lifecycle!vars)
  <2>1. Active(att) /\ att.held = None
    BY <1>4, LockedRow DEF Hold, Unlock, IInv
  <2>2. /\ att'.held = "ADMIN" /\ att'.switches = att.switches /\ att'.status = att.status
        /\ UNCHANGED <<session, result>>
    BY <1>1, <1>4 DEF Hold, AttemptRow
  <2>3. Lifecycle!Hold
    BY <2>1, <2>2, NoneAssumption DEF NoneAssumption, Lifecycle!Hold
  <2> QED
    BY <2>3 DEF Lifecycle!Next
<1>5. ASSUME NEW r \in Requests, Release(r)
      PROVE  [Lifecycle!Next]_(Lifecycle!vars)
  <2>1. Active(att) /\ att.held # None
    BY <1>5, LockedRow DEF Release, Unlock, IInv
  <2>2. /\ att'.held = None /\ att'.switches = att.switches /\ att'.status = att.status
        /\ UNCHANGED <<session, result>>
    BY <1>1, <1>5 DEF Release, AttemptRow
  <2>3. Lifecycle!Release
    BY <2>1, <2>2 DEF Lifecycle!Release
  <2> QED
    BY <2>3 DEF Lifecycle!Next
<1>6. ASSUME NEW r \in Requests, Activate(r)
      PROVE  [Lifecycle!Next]_(Lifecycle!vars)
  <2>1. Active(att)
    BY <1>6, LockedRow DEF Activate, Unlock, IInv
  <2>2. Lifecycle!Activate
    BY <1>6, <2>1 DEF Activate, Lifecycle!Activate
  <2> QED
    BY <2>2 DEF Lifecycle!Next
<1>7. ASSUME NEW r \in Requests, NEW e \in EventIds, NEW counted \in BOOLEAN,
             FocusRegained(r, e, counted)
      PROVE  [Lifecycle!Next]_(Lifecycle!vars)
  <2>1. Active(att) /\ session = "ACTIVE" /\ UNCHANGED <<session, result>> /\ TabSwitch(counted)
    BY <1>7, LockedRow DEF FocusRegained, Unlock, IInv
  <2>2. CASE counted /\ att.held = None
    <3>1. /\ att'.switches = att.switches + 1 /\ att'.status = att.status
          /\ att'.held = IF att.switches + 1 >= TabSwitchLimit THEN "TAB_SWITCH_LIMIT" ELSE None
      BY <1>1, <2>1, <2>2 DEF TabSwitch, AttemptRow
    <3>2. (att'.held # None) = (att'.switches >= TabSwitchLimit)
      BY <3>1, NoneAssumption DEF NoneAssumption
    <3>3. Lifecycle!Switch
      BY <2>1, <2>2, <3>1, <3>2 DEF Lifecycle!Switch
    <3> QED
      BY <3>3 DEF Lifecycle!Next
  <2>3. CASE ~(counted /\ att.held = None)
    BY <2>1, <2>3, <1>2 DEF TabSwitch
  <2> QED
    BY <2>2, <2>3
<1> QED
  BY <1>2, <1>3, <1>4, <1>5, <1>6, <1>7
     DEF vars, attVars, Next, Begin, Continue, Tick, Read, Lock, Return, LoadAnswer, CommitSave,
         Expire, Finish, EnsureResult, NoChange, Crash

\* The transactions, locks and clock of ExamAttempt implement the abstract lifecycle: finishing
\* is one irrevocable step, and proctoring, holds and switches happen only before it.
THEOREM ImplementsLifecycle == Spec => RefinesLifecycle
<1>1. Init => Lifecycle!Init
  BY DEF Init, NewAttempt, Lifecycle!Init
<1>2. IInv /\ [Next]_vars => [Lifecycle!Next]_(Lifecycle!vars)
  BY LifecycleStep
<1> QED
  BY <1>1, <1>2, Invariance, PTL DEF Spec, RefinesLifecycle, Lifecycle!Spec
=============================================================================
