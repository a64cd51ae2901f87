------------------------------ MODULE AuditChain ------------------------------
(***************************************************************************)
(* The audit log and its hash chain (repositories/audit.py,                *)
(* services/audit_chain.py and the trigger of migration 0028).  A record   *)
(* is inserted by the transaction of the action it is about; the trigger   *)
(* takes an advisory lock it keeps until that transaction ends, reads the  *)
(* hash of the newest row it can see and hashes the new row over it.       *)
(*                                                                         *)
(* A hash is modelled by what it is computed from: the contents of all     *)
(* rows up to this one.  Two different histories then have different       *)
(* hashes, as they do for SHA-256 short of a collision.                    *)
(***************************************************************************)
EXTENDS Integers, Sequences

CONSTANTS Writers,  \* transactions that write audit records
          Content,  \* canonical contents of audit records
          None

ASSUME AuditConstants == None \notin Writers

VARIABLES log,      \* the committed rows of audit_logs
          pending,  \* the rows each open transaction has inserted
          holder,   \* the transaction that holds the advisory lock
          nextSeq   \* the sequence audit_logs_seq_seq, which no rollback sets back

auditVars == <<log, pending, holder, nextSeq>>

Hash == Seq(Content)
Genesis == <<>>
Row == [seq : Nat, content : Content, prev : Hash, hash : Hash]

\* What the function of the trigger computes for a row.
HashOf(prev, content) == Append(prev, content)

Newest(rows, q) == q \in rows /\ \A p \in rows : p.seq <= q.seq

\* The hash the trigger finds in the newest row, or the value it starts from.
Previous(rows, hash) ==
    \/ rows = {} /\ hash = Genesis
    \/ \E q \in rows : Newest(rows, q) /\ hash = q.hash

AuditInit ==
    /\ log = {}
    /\ pending = [w \in Writers |-> {}]
    /\ holder = None
    /\ nextSeq = 1

\* The row of the transaction, once it has the lock: the trigger's query sees what is committed by
\* then and what the transaction has inserted itself.
Visible(w) == log \cup pending[w]

\* A plausible slip: the trigger takes no lock.
WithoutLock(w) == TRUE

LockFree(w) == holder \in {None, w}

Insert(w, content) ==
    /\ LockFree(w)
    /\ holder' = w
    /\ \E hash \in {Genesis} \cup {q.hash : q \in Visible(w)} :
          /\ Previous(Visible(w), hash)
          /\ pending' = [pending EXCEPT ![w] = @ \cup
                 {[seq |-> nextSeq, content |-> content, prev |-> hash,
                   hash |-> HashOf(hash, content)]}]
    /\ nextSeq' = nextSeq + 1
    /\ UNCHANGED log

Release(w) == holder' = IF holder = w THEN None ELSE holder

\* The transaction ends: its records appear with its changes, or with none of them.
Commit(w) ==
    /\ log' = log \cup pending[w]
    /\ pending' = [pending EXCEPT ![w] = {}]
    /\ Release(w)
    /\ UNCHANGED nextSeq

\* A plausible slip: records are written in a transaction of their own.
KeepsRecords(w) == Commit(w)

Rollback(w) ==
    /\ pending' = [pending EXCEPT ![w] = {}]
    /\ Release(w)
    /\ UNCHANGED <<log, nextSeq>>

AuditNext == \E w \in Writers : \/ \E content \in Content : Insert(w, content)
                                \/ Commit(w)
                                \/ Rollback(w)

AuditSpec == AuditInit /\ [][AuditNext]_auditVars

(***************************************************************************)
(* The verification: every hash is recomputed and every link compared with *)
(* the row before it in the order of seq.                                  *)
(***************************************************************************)

Before(rows, r) == {q \in rows : q.seq < r.seq}
Sound(rows, r) == r.hash = HashOf(r.prev, r.content) /\ Previous(Before(rows, r), r.prev)
Broken(rows) == {r \in rows : ~Sound(rows, r)}

AuditTypeOK ==
    /\ log \subseteq Row
    /\ pending \in [Writers -> SUBSET Row]
    /\ holder \in Writers \cup {None}
    /\ nextSeq \in Nat \ {0}

\* However the transactions that write records overlap and whichever are rolled back, the
\* verification finds no broken row in an unaltered log: no false alarm
\* (verify_chain against the trigger audit_logs_chain).
ChainHolds == Broken(log) = {}

\* Only the transaction that holds the advisory lock has rows that are not yet committed.
OneWriter == \A w \in Writers : pending[w] # {} => holder = w

\* Rows come in the order of their numbers: a row committed later has a higher number than every
\* row committed before, so that the order of the chain is the order of the commits.
CommittedInOrder ==
    [][\A q \in log, r \in log' \ log : q.seq < r.seq]_auditVars
=============================================================================
