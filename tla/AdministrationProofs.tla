------------------------- MODULE AdministrationProofs -------------------------
(***************************************************************************)
(* The audit chain verifies for any number of transactions and any         *)
(* contents, and reports an altered or removed row.  The invariant looks   *)
(* at the log with the rows one transaction has pending: that is what the  *)
(* trigger sees when it hashes the next row.                               *)
(*                                                                         *)
(* The review of an attempt writes its records through that chain, decides *)
(* in turn, on the whole evidence, and leaves a trail that tells it.       *)
(*                                                                         *)
(* The paper of an exam that is authored is well formed, and settles with  *)
(* its publication.  The library of coding problems keeps what it has      *)
(* published, and validates a version as it stands.                        *)
(***************************************************************************)
EXTENDS Administration, FiniteSetTheorems, TLAPS

Chained(rows) == \A r \in rows : Sound(rows, r)

\* Pending rows are numbered after every committed one.
Numbered ==
    /\ \A q \in log : q.seq < nextSeq
    /\ \A w \in Writers : \A r \in pending[w] :
          r.seq < nextSeq /\ \A q \in log : q.seq < r.seq

AuditInv ==
    /\ AuditTypeOK
    /\ OneWriter
    /\ Chained(log)
    /\ \A w \in Writers : Chained(log \cup pending[w])
    /\ Numbered

-----------------------------------------------------------------------------
(* One row more at the end of the chain. *)

\* A row numbered after all others and hashed over the newest of them keeps the chain sound.
LEMMA ExtendChain ==
    ASSUME NEW rows \in SUBSET Row, Chained(rows),
           NEW n \in Nat, \A q \in rows : q.seq < n,
           NEW content \in Content, NEW hash \in Hash, Previous(rows, hash)
    PROVE  Chained(rows \cup {[seq |-> n, content |-> content, prev |-> hash,
                               hash |-> HashOf(hash, content)]})
<1> DEFINE new == [seq |-> n, content |-> content, prev |-> hash, hash |-> HashOf(hash, content)]
           all == rows \cup {new}
<1>1. Before(all, new) = rows
  BY DEF Before, Row
<1>2. Sound(all, new)
  BY <1>1 DEF Sound
<1>3. ASSUME NEW r \in rows PROVE Sound(all, r)
  <2>1. Before(all, r) = Before(rows, r)
    BY <1>3 DEF Before, Row
  <2>2. Sound(rows, r)
    BY <1>3 DEF Chained
  <2> QED BY <2>1, <2>2 DEF Sound
<1> QED BY <1>2, <1>3 DEF Chained

-----------------------------------------------------------------------------
(* The invariant. *)

LEMMA InitAudit == AuditInit => AuditInv
BY AuditConstants DEF AuditInit, AuditInv, AuditTypeOK, OneWriter, Chained, Numbered

LEMMA InsertKeeps ==
    ASSUME AuditInv, NEW w \in Writers, NEW content \in Content, Insert(w, content)
    PROVE  AuditInv'
<1> USE DEF AuditInv
<1>1. PICK hash \in {Genesis} \cup {q.hash : q \in Visible(w)} :
        /\ Previous(Visible(w), hash)
        /\ pending' = [pending EXCEPT ![w] = @ \cup
               {[seq |-> nextSeq, content |-> content, prev |-> hash, hash |-> HashOf(hash, content)]}]
  BY DEF Insert
<1> DEFINE new == [seq |-> nextSeq, content |-> content, prev |-> hash, hash |-> HashOf(hash, content)]
<1>2. holder' = w /\ holder \in {None, w} /\ nextSeq' = nextSeq + 1 /\ log' = log
  BY DEF Insert, LockFree
<1>3. Visible(w) \in SUBSET Row /\ Visible(w) = log \cup pending[w]
  BY DEF AuditTypeOK, Visible
<1>4. hash \in Hash
  <2>1. Genesis \in Hash
    BY DEF Genesis, Hash
  <2>2. \A q \in Visible(w) : q.hash \in Hash
    BY <1>3 DEF Row
  <2> QED BY <1>1, <2>1, <2>2
<1>5. new \in Row
  BY <1>4 DEF AuditTypeOK, Row, HashOf, Hash
<1>6. pending'[w] = pending[w] \cup {new} /\ \A v \in Writers \ {w} : pending'[v] = pending[v]
  BY <1>1 DEF AuditTypeOK
<1>7. AuditTypeOK'
  BY <1>1, <1>2, <1>5 DEF AuditTypeOK
<1>8. OneWriter'
  BY <1>2, <1>6, AuditConstants DEF OneWriter
<1>9. Chained(log')
  BY <1>2
<1>10. \A v \in Writers : Chained(log' \cup pending'[v])
  <2>1. \A q \in Visible(w) : q.seq < nextSeq
    BY <1>3 DEF Numbered
  <2>2. Chained(Visible(w) \cup {new})
    BY <1>1, <1>3, <1>4, <2>1, ExtendChain DEF AuditTypeOK
  <2>3. Visible(w) \cup {new} = log' \cup pending'[w]
    BY <1>2, <1>3, <1>6
  <2> QED BY <1>2, <1>6, <2>2, <2>3
<1>11. Numbered'
  <2>1. \A q \in log : q.seq \in Nat
    BY DEF AuditTypeOK, Row
  <2>2. \A v \in Writers : \A r \in pending[v] : r.seq \in Nat
    BY DEF AuditTypeOK, Row
  <2>3. nextSeq \in Nat
    BY DEF AuditTypeOK
  <2>4. \A q \in log' : q.seq < nextSeq'
    BY <1>2, <2>1, <2>3 DEF Numbered
  <2>5. ASSUME NEW v \in Writers, NEW r \in pending'[v]
        PROVE  r.seq < nextSeq' /\ \A q \in log' : q.seq < r.seq
    <3>1. CASE r = new
      BY <1>2, <2>1, <2>3, <3>1 DEF Numbered
    <3>2. CASE r \in pending[v]
      BY <1>2, <2>2, <2>3, <3>2 DEF Numbered
    <3> QED BY <1>6, <2>5, <3>1, <3>2
  <2> QED BY <2>4, <2>5 DEF Numbered
<1> QED BY <1>7, <1>8, <1>9, <1>10, <1>11

\* The transaction ends, with its rows or without them.
LEMMA EndKeeps ==
    ASSUME AuditInv, NEW w \in Writers,
           log' = log \/ log' = log \cup pending[w],
           pending' = [pending EXCEPT ![w] = {}], Release(w), nextSeq' = nextSeq
    PROVE  AuditInv'
<1> USE DEF AuditInv
<1>1. pending'[w] = {} /\ \A v \in Writers \ {w} : pending'[v] = pending[v]
  BY DEF AuditTypeOK
<1>2. AuditTypeOK'
  BY DEF AuditTypeOK, Release
<1>3. OneWriter'
  BY <1>1, AuditConstants DEF OneWriter, Release
<1>4. Chained(log')
  OBVIOUS
<1>5. \A v \in Writers \ {w} : pending[w] = {} \/ pending[v] = {}
  BY AuditConstants DEF OneWriter
<1>6. \A v \in Writers : Chained(log' \cup pending'[v])
  <2>1. ASSUME NEW v \in Writers PROVE Chained(log' \cup pending'[v])
    <3>1. CASE pending'[v] = {}
      <4>1. log' \cup pending'[v] = log'
        BY <3>1
      <4> QED BY <1>4, <4>1
    <3>2. CASE pending'[v] # {}
      <4>1. v # w /\ pending'[v] = pending[v] /\ pending[w] = {}
        BY <1>1, <1>5, <3>2
      <4>2. log' = log
        BY <4>1
      <4> QED BY <4>1, <4>2
    <3> QED BY <3>1, <3>2
  <2> QED BY <2>1
<1>7. Numbered'
  <2>1. \A q \in log' : q.seq < nextSeq'
    BY DEF Numbered
  <2>2. ASSUME NEW v \in Writers, NEW r \in pending'[v]
        PROVE  r.seq < nextSeq' /\ \A q \in log' : q.seq < r.seq
    <3>1. v # w /\ r \in pending[v] /\ pending[w] = {}
      BY <1>1, <1>5, <2>2
    <3>2. log' = log
      BY <3>1
    <3> QED BY <3>1, <3>2 DEF Numbered
  <2> QED BY <2>1, <2>2 DEF Numbered
<1> QED BY <1>2, <1>3, <1>4, <1>6, <1>7

LEMMA NextAudit == AuditInv /\ [AuditNext]_auditVars => AuditInv'
<1> SUFFICES ASSUME AuditInv, [AuditNext]_auditVars PROVE AuditInv'
  OBVIOUS
<1>1. CASE UNCHANGED auditVars
  BY <1>1 DEF auditVars, AuditInv, AuditTypeOK, OneWriter, Numbered
<1>2. ASSUME NEW w \in Writers, NEW content \in Content, Insert(w, content) PROVE AuditInv'
  BY <1>2, InsertKeeps
<1>3. ASSUME NEW w \in Writers, Commit(w) PROVE AuditInv'
  BY <1>3, EndKeeps DEF Commit
<1>4. ASSUME NEW w \in Writers, Rollback(w) PROVE AuditInv'
  BY <1>4, EndKeeps DEF Rollback
<1> QED BY <1>1, <1>2, <1>3, <1>4 DEF AuditNext

THEOREM AuditInvariant == AuditSpec => []AuditInv
<1>1. AuditInit => AuditInv
  BY InitAudit
<1>2. AuditInv /\ [AuditNext]_auditVars => AuditInv'
  BY NextAudit
<1> QED BY <1>1, <1>2, PTL DEF AuditSpec

\* The verification raises no false alarm, for any transactions that write records
\* (verify_chain against the trigger audit_logs_chain).
THEOREM ChainVerifies == AuditSpec => []ChainHolds
<1>1. AuditInv => ChainHolds
  BY DEF AuditInv, ChainHolds, Broken, Chained
<1> QED BY <1>1, AuditInvariant, PTL

\* Rows are committed in the order of the chain, in spite of the gaps rollbacks leave.
THEOREM RowsInOrder == AuditSpec => CommittedInOrder
<1>1. AuditInv /\ [AuditNext]_auditVars
        => [\A q \in log, r \in log' \ log : q.seq < r.seq]_auditVars
  <2> SUFFICES ASSUME AuditInv, AuditNext, NEW q \in log, NEW r \in log' \ log
               PROVE  q.seq < r.seq
    OBVIOUS
  <2>1. PICK w \in Writers : Commit(w)
    BY DEF AuditNext, Insert, Rollback
  <2> QED BY <2>1 DEF Commit, AuditInv, Numbered
<1> QED BY <1>1, AuditInvariant, PTL DEF AuditSpec, CommittedInOrder

-----------------------------------------------------------------------------
(* What the verification reports. *)

\* A removed row is reported when another row follows it
\* ("a changed, deleted or inserted row breaks the chain", audit_chain.py).
THEOREM RemovalShows ==
    ASSUME NEW rows \in SUBSET Row, Chained(rows),
           \A p, q \in rows : p.seq = q.seq => p = q,
           NEW r \in rows, NEW s \in rows, Newest(Before(rows, s), r)
    PROVE  s \in Broken(rows \ {r})
<1> DEFINE rest == rows \ {r}
<1> SUFFICES ASSUME Previous(Before(rest, s), s.prev) PROVE FALSE
  BY DEF Broken, Sound, Newest, Before, Row
<1>1. s.prev = r.hash
  <2>1. Previous(Before(rows, s), s.prev)
    BY DEF Chained, Sound
  <2>2. PICK q \in Before(rows, s) : Newest(Before(rows, s), q) /\ s.prev = q.hash
    BY <2>1 DEF Previous, Newest
  <2>3. q = r
    BY <2>2 DEF Newest, Before, Row
  <2> QED BY <2>2, <2>3
<1>2. r.hash = Append(r.prev, r.content) /\ r.prev \in Seq(Content) /\ r.content \in Content
  BY DEF Chained, Sound, HashOf, Row, Hash
<1>3. r.hash # <<>>
  BY <1>2
<1>4. PICK q \in Before(rest, s) : Newest(Before(rest, s), q) /\ s.prev = q.hash
  BY <1>1, <1>3 DEF Previous, Genesis, Newest
<1>5. r.prev = q.hash
  <2>1. Before(rows, r) = Before(rest, s)
    BY DEF Before, Newest, Row
  <2>2. Previous(Before(rows, r), r.prev)
    BY DEF Chained, Sound
  <2>3. PICK p \in Before(rows, r) : Newest(Before(rows, r), p) /\ r.prev = p.hash
    BY <1>4, <2>1, <2>2 DEF Previous, Newest
  <2>4. p = q
    BY <1>4, <2>1, <2>3 DEF Newest, Before, Row
  <2> QED BY <2>3, <2>4
<1>6. Len(r.hash) = Len(r.prev) + 1
  BY <1>2
<1>7. r.hash = r.prev
  BY <1>1, <1>4, <1>5
<1> QED BY <1>2, <1>6, <1>7

\* An altered row is reported, at the row itself when its hash was left and at the row after it
\* when its hash was computed anew.
THEOREM AlterationShows ==
    ASSUME NEW rows \in SUBSET Row, Chained(rows),
           \A p, q \in rows : p.seq = q.seq => p = q,
           NEW r \in rows, NEW s \in rows, Newest(Before(rows, s), r),
           NEW x \in Row, x.seq = r.seq, x # r
    PROVE  Broken((rows \ {r}) \cup {x}) \cap {x, s} # {}
<1> DEFINE altered == (rows \ {r}) \cup {x}
<1>1. Sound(rows, r) /\ Sound(rows, s)
  BY DEF Chained
<1>2. s.prev = r.hash
  <2>1. PICK q \in Before(rows, s) : Newest(Before(rows, s), q) /\ s.prev = q.hash
    BY <1>1 DEF Sound, Previous, Newest
  <2>2. q = r
    BY <2>1 DEF Newest, Before, Row
  <2> QED BY <2>1, <2>2
<1>3. CASE x.hash = r.hash
  <2>1. HashOf(x.prev, x.content) # x.hash
    <3> SUFFICES ASSUME Append(x.prev, x.content) = Append(r.prev, r.content) PROVE FALSE
      BY <1>1, <1>3 DEF Sound, HashOf
    <3>1. x.prev \in Seq(Content) /\ r.prev \in Seq(Content)
      BY DEF Row, Hash
    <3>2. x.prev = r.prev /\ x.content = r.content
      BY <3>1
    <3> QED BY <1>3, <3>2 DEF Row
  <2>2. x \in altered /\ ~Sound(altered, x)
    BY <2>1 DEF Sound
  <2> QED BY <2>2 DEF Broken
<1>4. CASE x.hash # r.hash
  <2>1. s \in altered /\ x.seq < s.seq
    BY DEF Newest, Before, Row
  <2>2. \A q \in Before(altered, s) : q.seq <= x.seq /\ (q.seq = x.seq => q = x)
    BY DEF Newest, Before, Row
  <2>3. x \in Before(altered, s)
    BY <2>1 DEF Before
  <2>4. ~Previous(Before(altered, s), s.prev)
    <3> SUFFICES ASSUME NEW q \in Before(altered, s), Newest(Before(altered, s), q), s.prev = q.hash
                 PROVE  FALSE
      BY <2>3 DEF Previous, Newest
    <3>1. q = x
      BY <2>2, <2>3 DEF Newest, Before, Row
    <3> QED BY <1>2, <1>4, <3>1
  <2> QED BY <2>1, <2>4 DEF Broken, Sound
<1> QED BY <1>3, <1>4

-----------------------------------------------------------------------------
(* The review. *)

\* A request that holds the review's lock, or inserts it, excludes the others.
Exclusive ==
    \A v, w \in Writers : v # w =>
        /\ work[v].op \in {"MARKED", "COMPLETED", "REVISED"} =>
              work[w].op \notin {"MARKED", "COMPLETED", "REVISED"}
        /\ work[v].op = "STARTED" => ~Open(w)

\* What an open request decided still follows from the rows.
WorkFits(w) ==
    /\ work[w].op \in Acts \cup {None}
    /\ Open(w) => work[w].said \in Records
    /\ Open(w) /\ work[w].op # "STARTED" => review # None
    /\ work[w].op = "STARTED" => review = None /\ work[w].said = Said("STARTED", 1, None)
    /\ work[w].op = "NOTED" => work[w].said = Said("NOTED", 0, None)
    /\ work[w].op = "MARKED" =>
          /\ review.status = "IN_REVIEW"
          /\ work[w].said.outcome \in Marks /\ work[w].said = Said("MARKED", 0, work[w].said.outcome)
    /\ work[w].op = "COMPLETED" =>
          /\ review.status = "IN_REVIEW" /\ work[w].attempt = "FINAL"
          /\ work[w].decision.evidence = events + work[w].closed
          /\ work[w].decision.evidence \in 0..MaxEvents
    /\ work[w].op = "REVISED" =>
          /\ review.status = "REVIEWED"
          /\ work[w].decision.outcome # review.outcome /\ work[w].decision.evidence = events
    /\ Deciding(work[w].op) =>
          /\ work[w].decision \in Decision /\ work[w].decision.seen = review.version
          /\ work[w].row = [status |-> "REVIEWED", outcome |-> work[w].decision.outcome,
                            version |-> review.version + 1]
          /\ work[w].said = Said(work[w].op, review.version + 1, work[w].decision.outcome)

\* One record at most is pending for a request, and it is what the request decided to say.
PendingFits(w) ==
    /\ \A p, q \in pending[w] : p = q
    /\ pending[w] # {} => Open(w) /\ work[w].said.version < nextSeq
    /\ \A r \in pending[w] : r.content = work[w].said

RowsFit ==
    /\ review = None => log = {} /\ decisions = <<>> /\ mark = None
    /\ review # None =>
          /\ review.status = IF decisions = <<>> THEN "IN_REVIEW" ELSE "REVIEWED"
          /\ review.version < nextSeq

ReviewInv ==
    /\ AuditInv /\ ReviewTypeOK
    /\ work = [w \in Writers |-> work[w]]
    /\ Exclusive
    /\ \A w \in Writers : WorkFits(w) /\ PendingFits(w)
    /\ RowsFit /\ DecidedInTurn /\ BasisComplete /\ TrailTells

LEMMA InitReview == ReviewInit => ReviewInv
<1> SUFFICES ASSUME ReviewInit PROVE ReviewInv
  OBVIOUS
<1>1. AuditInv
  BY InitAudit DEF ReviewInit
<1>2. ReviewTypeOK
  BY ReviewConstants DEF ReviewInit, ReviewTypeOK
<1>3. log = {} /\ \A w \in Writers : pending[w] = {} /\ work[w].op = None
  BY DEF ReviewInit, AuditInit, NoWork, Work
<1>4. Exclusive /\ \A w \in Writers : WorkFits(w) /\ PendingFits(w)
  BY <1>3, ReviewConstants DEF Exclusive, WorkFits, PendingFits, Open, Deciding, Acts
<1>5. RowsFit /\ DecidedInTurn /\ BasisComplete /\ TrailTells
  BY <1>3 DEF ReviewInit, RowsFit, DecidedInTurn, BasisComplete, TrailTells, Trail
<1>6. work = [w \in Writers |-> work[w]]
  BY DEF ReviewInit
<1> QED BY <1>1, <1>2, <1>4, <1>5, <1>6 DEF ReviewInv

\* A step that decides, or that does nothing to the rows and the log.
LEMMA DecideKeeps ==
    ASSUME ReviewInv, NEW w \in Writers, NEW new, Decides(w, new), new.op \in Acts,
           WorkFits(w)',
           \A v \in Writers \ {w} :
               /\ work[v].op = "STARTED" => FALSE
               /\ new.op = "STARTED" => ~Open(v)
               /\ new.op \in {"MARKED", "COMPLETED", "REVISED"} =>
                     work[v].op \notin {"MARKED", "COMPLETED", "REVISED"}
    PROVE  ReviewInv'
<1>1. UNCHANGED <<auditVars, rowVars, page>>
  BY DEF Decides
<1>2. /\ work'[w] = new /\ work' = [v \in Writers |-> work'[v]]
      /\ \A v \in Writers \ {w} : work'[v] = work[v]
  BY DEF Decides, ReviewInv
<1>3. AuditInv'
  BY <1>1, NextAudit DEF ReviewInv, auditVars
<1>4. pending[w] = {}
  BY DEF ReviewInv, PendingFits, Decides
<1>5. Exclusive'
  BY <1>2 DEF ReviewInv, Exclusive, Open, Acts
<1>6. ASSUME NEW v \in Writers PROVE WorkFits(v)' /\ PendingFits(v)'
  <2>1. CASE v = w
    BY <1>1, <1>4, <2>1 DEF PendingFits, auditVars
  <2>2. CASE v # w
    <3>1. WorkFits(v) /\ PendingFits(v)
      BY DEF ReviewInv
    <3> QED BY <1>1, <1>2, <2>2, <3>1 DEF WorkFits, PendingFits, Open, auditVars, rowVars
  <2> QED BY <2>1, <2>2
<1>7. (ReviewTypeOK /\ RowsFit)'
  BY <1>1 DEF ReviewInv, ReviewTypeOK, RowsFit, auditVars, rowVars
<1>8. (DecidedInTurn /\ BasisComplete)'
  BY <1>1 DEF ReviewInv, DecidedInTurn, BasisComplete, rowVars
<1>9. TrailTells'
  BY <1>1 DEF ReviewInv, TrailTells, Trail, auditVars, rowVars
<1> QED BY <1>2, <1>3, <1>5, <1>6, <1>7, <1>8, <1>9 DEF ReviewInv

\* The bound of the records leaves room for one more.
LEMMA RoomLeft ==
    ASSUME AuditTypeOK, NEW w \in Writers, NEW new, Decides(w, new)
    PROVE  nextSeq \in 1..MaxRecords
<1>1. Cardinality({v \in Writers : Open(v)}) \in Nat
  <2>1. IsFiniteSet({v \in Writers : Open(v)})
    BY ReviewConstants, FS_Subset
  <2> QED BY <2>1, FS_CardinalityType
<1> QED BY <1>1, ReviewConstants DEF AuditTypeOK, Decides

LEMMA StartKeeps == ASSUME ReviewInv, NEW w \in Writers, Start(w) PROVE ReviewInv'
<1> DEFINE new == Work("STARTED", Said("STARTED", 1, None))
<1>1. Decides(w, new) /\ review = None
  BY DEF Start
<1>2. \A v \in Writers : ~Open(v)
  BY <1>1 DEF Start, Starting, ReviewInv, WorkFits
<1>3. work'[w] = new /\ review' = review
  BY <1>1 DEF Decides, ReviewInv, rowVars
<1>4. new.said \in Records
  <2>1. nextSeq \in 1..MaxRecords
    BY <1>1, RoomLeft DEF ReviewInv, AuditInv
  <2>2. 1 \in 0..MaxRecords
    BY <2>1, ReviewConstants
  <2> QED BY <2>2 DEF Work, Said, Records, Acts
<1>5. WorkFits(w)'
  BY <1>1, <1>3, <1>4 DEF WorkFits, Work, Acts, Deciding
<1>6. new.op = "STARTED"
  BY DEF Work
<1>7. \A v \in Writers \ {w} : work[v].op = None
  BY <1>2 DEF Open
<1> HIDE DEF new
<1> QED BY <1>1, <1>2, <1>5, <1>6, <1>7, ReviewConstants, DecideKeeps DEF Acts

LEMMA NoteKeeps == ASSUME ReviewInv, NEW w \in Writers, AddNote(w) PROVE ReviewInv'
<1> DEFINE new == Work("NOTED", Said("NOTED", 0, None))
<1>1. Decides(w, new) /\ review # None
  BY DEF AddNote
<1>2. work'[w] = new /\ review' = review
  BY <1>1 DEF Decides, ReviewInv, rowVars
<1>3. new.said \in Records
  BY ReviewConstants DEF Work, Said, Records, Acts
<1>4. WorkFits(w)'
  BY <1>1, <1>2, <1>3 DEF WorkFits, Work, Acts, Deciding
<1>5. new.op = "NOTED"
  BY DEF Work
<1>6. \A v \in Writers : work[v].op # "STARTED"
  BY <1>1 DEF ReviewInv, WorkFits
<1> HIDE DEF new
<1> QED BY <1>1, <1>4, <1>5, <1>6, DecideKeeps DEF Acts

LEMMA MarkKeeps ==
    ASSUME ReviewInv, NEW w \in Writers, NEW m \in Marks, Mark(w, m)
    PROVE  ReviewInv'
<1> DEFINE new == Work("MARKED", Said("MARKED", 0, m))
<1>1. Decides(w, new) /\ review # None /\ review.status = "IN_REVIEW" /\ ~ReviewLocked
  BY DEF Mark, Expected, LockedByNone
<1>2. work'[w] = new /\ review' = review
  BY <1>1 DEF Decides, ReviewInv, rowVars
<1>3. new.said \in Records
  BY ReviewConstants DEF Work, Said, Records, Acts
<1>4. WorkFits(w)'
  BY <1>1, <1>2, <1>3 DEF WorkFits, Work, Said, Acts, Deciding
<1>5. new.op = "MARKED"
  BY DEF Work
<1>6. \A v \in Writers : work[v].op # "STARTED"
  BY <1>1 DEF ReviewInv, WorkFits
<1> HIDE DEF new
<1> QED BY <1>1, <1>4, <1>5, <1>6, DecideKeeps DEF Acts, ReviewLocked

\* What a decision is made of, for completing and revising alike.
LEMMA DecisionFits ==
    ASSUME ReviewInv, NEW w \in Writers, NEW outcome \in Outcomes, NEW op \in {"COMPLETED", "REVISED"},
           NEW evidence \in Nat, review # None, review.version = page[w], nextSeq \in 1..MaxRecords
    PROVE  LET new == Decided(w, op, outcome, evidence)
           IN  /\ new.op = op /\ new.said \in Records
               /\ new.decision = [outcome |-> outcome, evidence |-> evidence, seen |-> review.version]
               /\ new.decision \in Decision
               /\ new.row = [status |-> "REVIEWED", outcome |-> outcome, version |-> review.version + 1]
               /\ new.said = Said(op, review.version + 1, outcome)
<1>1. review \in Review /\ review.version < nextSeq
  BY DEF ReviewInv, ReviewTypeOK, RowsFit
<1>2. review.version + 1 \in 0..MaxRecords
  BY <1>1, ReviewConstants DEF Review
<1>3. Said(op, review.version + 1, outcome) \in Records
  BY <1>2 DEF Said, Records, Acts
<1> QED BY <1>1, <1>3 DEF Decided, Work, Decision, Review

LEMMA CompleteKeeps ==
    ASSUME ReviewInv, NEW w \in Writers, NEW outcome \in Outcomes, Complete(w, outcome)
    PROVE  ReviewInv'
<1>1. /\ review # None /\ review.status = "IN_REVIEW" /\ ~ReviewLocked
      /\ review.version = page[w]
  BY DEF Complete, Expected, LockedByNone
<1>2. PICK after \in {"OPEN", "FINAL"}, closed \in 0..1 :
        /\ Settles(after, closed) /\ Finalized(after)
        /\ Decides(w, [Decided(w, "COMPLETED", outcome, events + closed) EXCEPT
                         !.attempt = after, !.closed = closed])
  BY DEF Complete
<1>3. PICK base : base = Decided(w, "COMPLETED", outcome, events + closed)
  OBVIOUS
<1>4. PICK new : new = [base EXCEPT !.attempt = after, !.closed = closed]
  OBVIOUS
<1>5. Decides(w, new)
  BY <1>2, <1>3, <1>4
<1>6. events + closed \in 0..MaxEvents
  BY <1>2, ReviewConstants DEF Settles, ReviewInv, ReviewTypeOK
<1>7. /\ base.op = "COMPLETED" /\ base.said \in Records
      /\ base.decision = [outcome |-> outcome, evidence |-> events + closed, seen |-> review.version]
      /\ base.decision \in Decision
      /\ base.row = [status |-> "REVIEWED", outcome |-> outcome, version |-> review.version + 1]
      /\ base.said = Said("COMPLETED", review.version + 1, outcome)
  <2>1. nextSeq \in 1..MaxRecords
    BY <1>5, RoomLeft DEF ReviewInv, AuditInv
  <2>2. events + closed \in Nat
    BY <1>6
  <2> QED BY <1>1, <1>3, <2>1, <2>2, DecisionFits
<1>8. /\ new.op = base.op /\ new.said = base.said /\ new.decision = base.decision
      /\ new.row = base.row /\ new.attempt = "FINAL" /\ new.closed = closed
  BY <1>2, <1>3, <1>4 DEF Decided, Work, Finalized
<1>9. work'[w] = new /\ review' = review /\ events' = events
  BY <1>5 DEF Decides, ReviewInv, rowVars
<1>10. WorkFits(w)'
  BY <1>1, <1>6, <1>7, <1>8, <1>9 DEF WorkFits, Acts, Deciding
<1>11. \A v \in Writers : work[v].op # "STARTED"
  BY <1>1 DEF ReviewInv, WorkFits
<1> QED BY <1>1, <1>5, <1>7, <1>8, <1>10, <1>11, DecideKeeps DEF Acts, ReviewLocked

LEMMA ReviseKeeps ==
    ASSUME ReviewInv, NEW w \in Writers, NEW outcome \in Outcomes, Revise(w, outcome)
    PROVE  ReviewInv'
<1>1. /\ review # None /\ review.status = "REVIEWED" /\ ~ReviewLocked
      /\ review.version = page[w] /\ outcome # review.outcome
  BY DEF Revise, Expected, LockedByNone
<1>2. PICK new : new = Decided(w, "REVISED", outcome, events)
  OBVIOUS
<1>3. Decides(w, new)
  BY <1>2 DEF Revise
<1>4. /\ new.op = "REVISED" /\ new.said \in Records
      /\ new.decision = [outcome |-> outcome, evidence |-> events, seen |-> review.version]
      /\ new.decision \in Decision
      /\ new.row = [status |-> "REVIEWED", outcome |-> outcome, version |-> review.version + 1]
      /\ new.said = Said("REVISED", review.version + 1, outcome)
  <2>1. nextSeq \in 1..MaxRecords
    BY <1>3, RoomLeft DEF ReviewInv, AuditInv
  <2>2. events \in Nat
    BY DEF ReviewInv, ReviewTypeOK
  <2> QED BY <1>1, <1>2, <2>1, <2>2, DecisionFits
<1>5. work'[w] = new /\ review' = review /\ events' = events
  BY <1>3 DEF Decides, ReviewInv, rowVars
<1>6. WorkFits(w)'
  BY <1>1, <1>4, <1>5 DEF WorkFits, Acts, Deciding
<1>7. \A v \in Writers : work[v].op # "STARTED"
  BY <1>1 DEF ReviewInv, WorkFits
<1> QED BY <1>1, <1>3, <1>4, <1>6, <1>7, DecideKeeps DEF Acts, ReviewLocked

LEMMA ViewKeeps == ASSUME ReviewInv, NEW w \in Writers, View(w) PROVE ReviewInv'
<1>1. UNCHANGED <<auditVars, rowVars, work>>
  BY DEF View
<1>2. AuditInv'
  BY <1>1, NextAudit DEF ReviewInv, auditVars
<1>3. page' \in [Writers -> Nat]
  BY DEF View, ReviewInv, ReviewTypeOK, Review
<1>4. (ReviewTypeOK /\ RowsFit)'
  BY <1>1, <1>3 DEF ReviewInv, ReviewTypeOK, RowsFit, auditVars, rowVars
<1>5. (DecidedInTurn /\ BasisComplete)'
  BY <1>1 DEF ReviewInv, DecidedInTurn, BasisComplete, rowVars
<1>6. TrailTells'
  BY <1>1 DEF ReviewInv, TrailTells, Trail, auditVars, rowVars
<1>7. \A v \in Writers : WorkFits(v)' /\ PendingFits(v)'
  BY <1>1 DEF ReviewInv, WorkFits, PendingFits, Open, auditVars, rowVars
<1>8. Exclusive'
  BY <1>1 DEF ReviewInv, Exclusive, Open
<1> QED BY <1>1, <1>2, <1>4, <1>5, <1>6, <1>7, <1>8 DEF ReviewInv

LEMMA RecordKeeps == ASSUME ReviewInv, NEW w \in Writers, RecordAudit(w) PROVE ReviewInv'
<1>1. /\ Open(w) /\ pending[w] = {} /\ Insert(w, work[w].said)
      /\ UNCHANGED <<rowVars, page, work>>
  BY DEF RecordAudit
<1>2. work[w].said \in Content
  BY <1>1, ReviewConstants DEF ReviewInv, WorkFits
<1>3. AuditInv'
  BY <1>1, <1>2, InsertKeeps DEF ReviewInv
<1>4. PICK r : /\ r.content = work[w].said
               /\ pending' = [pending EXCEPT ![w] = {r}]
  BY <1>1, ZenonT(60) DEF Insert
<1>5. nextSeq' = nextSeq + 1 /\ nextSeq \in Nat \ {0} /\ log' = log
  BY <1>1 DEF Insert, ReviewInv, AuditInv, AuditTypeOK
<1>6. pending'[w] = {r} /\ \A v \in Writers \ {w} : pending'[v] = pending[v]
  BY <1>4 DEF ReviewInv, AuditInv, AuditTypeOK
<1>7. work[w].said.version \in Nat /\ work[w].said.version <= nextSeq
  <2>1. WorkFits(w)
    BY DEF ReviewInv
  <2>2. CASE Deciding(work[w].op)
    <3>1. work[w].said.version = review.version + 1
      BY <2>1, <2>2 DEF WorkFits, Said
    <3>2. review # None /\ review.version < nextSeq /\ review.version \in Nat
      BY <1>1, <2>1, <2>2 DEF WorkFits, Deciding, ReviewInv, RowsFit, ReviewTypeOK, Review
    <3> QED BY <1>5, <3>1, <3>2
  <2>3. CASE ~Deciding(work[w].op)
    <3>1. work[w].op \in {"STARTED", "NOTED", "MARKED"}
      BY <1>1, <2>1, <2>3 DEF WorkFits, Open, Acts, Deciding
    <3>2. work[w].said.version \in {0, 1}
      BY <2>1, <3>1 DEF WorkFits, Said
    <3> QED BY <1>5, <3>2
  <2> QED BY <2>2, <2>3
<1>8. ASSUME NEW v \in Writers PROVE WorkFits(v)' /\ PendingFits(v)'
  <2>1. WorkFits(v) /\ PendingFits(v)
    BY DEF ReviewInv
  <2>2. WorkFits(v)'
    BY <1>1, <2>1 DEF WorkFits, Open, rowVars
  <2>3. CASE v = w
    BY <1>1, <1>4, <1>5, <1>6, <1>7, <2>2, <2>3 DEF PendingFits, Open
  <2>4. CASE v # w
    <3>1. Open(v) => work[v].said \in Records
      BY <2>1 DEF WorkFits
    <3>2. Open(v) => work[v].said.version \in Nat
      BY <3>1, ReviewConstants DEF Records
    <3> QED BY <1>1, <1>5, <1>6, <2>1, <2>2, <2>4, <3>2 DEF PendingFits, Open
  <2> QED BY <2>3, <2>4
<1>9. (ReviewTypeOK /\ RowsFit)'
  BY <1>1, <1>5 DEF ReviewInv, ReviewTypeOK, RowsFit, Review, rowVars
<1>10. (DecidedInTurn /\ BasisComplete)'
  BY <1>1 DEF ReviewInv, DecidedInTurn, BasisComplete, rowVars
<1>11. TrailTells'
  BY <1>1, <1>5 DEF ReviewInv, TrailTells, Trail, rowVars
<1>12. Exclusive'
  BY <1>1 DEF ReviewInv, Exclusive, Open
<1> QED BY <1>1, <1>3, <1>8, <1>9, <1>10, <1>11, <1>12 DEF ReviewInv

\* The end of a request, whichever way, frees its lock and its place.
LEMMA EndFrees ==
    ASSUME ReviewInv, NEW w \in Writers, Open(w),
           pending' = [pending EXCEPT ![w] = {}], work' = [work EXCEPT ![w] = NoWork]
    PROVE  /\ work' = [v \in Writers |-> work'[v]]
           /\ work'[w].op = None /\ \A v \in Writers \ {w} : work'[v] = work[v]
           /\ pending'[w] = {} /\ \A v \in Writers \ {w} : pending'[v] = pending[v]
           /\ Exclusive'
           /\ (WorkFits(w) /\ PendingFits(w))'
<1>1. /\ work' = [v \in Writers |-> work'[v]]
      /\ work'[w].op = None /\ \A v \in Writers \ {w} : work'[v] = work[v]
  BY DEF ReviewInv, NoWork, Work
<1>2. pending'[w] = {} /\ \A v \in Writers \ {w} : pending'[v] = pending[v]
  BY DEF ReviewInv, AuditInv, AuditTypeOK
<1>3. Exclusive'
  BY <1>1, ReviewConstants DEF ReviewInv, Exclusive, Open, Acts
<1>4. (WorkFits(w) /\ PendingFits(w))'
  BY <1>1, <1>2, ReviewConstants DEF WorkFits, PendingFits, Open, Acts, Deciding
<1> QED BY <1>1, <1>2, <1>3, <1>4

LEMMA RollbackKeeps == ASSUME ReviewInv, NEW w \in Writers, RollbackRequest(w) PROVE ReviewInv'
<1>1. /\ Open(w) /\ Rollback(w) /\ work' = [work EXCEPT ![w] = NoWork]
      /\ UNCHANGED <<rowVars, page>>
  BY DEF RollbackRequest
<1>2. pending' = [pending EXCEPT ![w] = {}] /\ log' = log /\ nextSeq' = nextSeq
  BY <1>1 DEF Rollback
<1>3. AuditInv'
  BY <1>1, <1>2, EndKeeps DEF Rollback, ReviewInv
<1>4. /\ work' = [v \in Writers |-> work'[v]]
      /\ work'[w].op = None /\ \A v \in Writers \ {w} : work'[v] = work[v]
      /\ pending'[w] = {} /\ \A v \in Writers \ {w} : pending'[v] = pending[v]
      /\ Exclusive'
      /\ (WorkFits(w) /\ PendingFits(w))'
  BY <1>1, <1>2, EndFrees
<1>5. ASSUME NEW v \in Writers \ {w} PROVE WorkFits(v)' /\ PendingFits(v)'
  BY <1>1, <1>2, <1>4 DEF ReviewInv, WorkFits, PendingFits, Open, rowVars
<1>6. (ReviewTypeOK /\ RowsFit)'
  BY <1>1, <1>2 DEF ReviewInv, ReviewTypeOK, RowsFit, rowVars
<1>7. (DecidedInTurn /\ BasisComplete)'
  BY <1>1 DEF ReviewInv, DecidedInTurn, BasisComplete, rowVars
<1>8. TrailTells'
  BY <1>1, <1>2 DEF ReviewInv, TrailTells, Trail, rowVars
<1> QED BY <1>3, <1>4, <1>5, <1>6, <1>7, <1>8 DEF ReviewInv

\* The attempt goes on only while nobody completes a review of it, and before the first decision.
LEMMA AttemptKeeps == ASSUME ReviewInv, ReportEvent \/ FinishAttempt PROVE ReviewInv'
<1>1. /\ attempt = "OPEN" /\ ~AttemptLocked /\ attempt' \in {"OPEN", "FINAL"}
      /\ events' \in 0..MaxEvents
      /\ UNCHANGED <<auditVars, review, decisions, mark, page, work>>
  BY ReviewConstants DEF ReportEvent, FinishAttempt, ReviewInv, ReviewTypeOK
<1>2. decisions = <<>>
  <2>1. decisions # <<>> => 1 \in DOMAIN decisions
    BY DEF ReviewInv, ReviewTypeOK
  <2> QED BY <1>1, <2>1 DEF ReviewInv, BasisComplete
<1>3. AuditInv'
  BY <1>1, NextAudit DEF ReviewInv, auditVars
<1>4. ASSUME NEW v \in Writers PROVE WorkFits(v)' /\ PendingFits(v)'
  <2>1. work[v].op # "COMPLETED"
    BY <1>1 DEF AttemptLocked
  <2>2. work[v].op # "REVISED"
    <3>1. review # None => review.status # "REVIEWED"
      BY <1>2 DEF ReviewInv, RowsFit
    <3>2. WorkFits(v)
      BY DEF ReviewInv
    <3> QED BY <3>1, <3>2, ReviewConstants DEF WorkFits, Open, Acts
  <2> QED BY <1>1, <2>1, <2>2 DEF ReviewInv, WorkFits, PendingFits, Open, Deciding, auditVars
<1>5. (ReviewTypeOK /\ RowsFit)'
  BY <1>1 DEF ReviewInv, ReviewTypeOK, RowsFit, auditVars
<1>6. (DecidedInTurn /\ BasisComplete)'
  BY <1>1, <1>2 DEF ReviewInv, DecidedInTurn, BasisComplete
<1>7. TrailTells'
  BY <1>1 DEF ReviewInv, TrailTells, Trail, auditVars
<1>8. Exclusive'
  BY <1>1 DEF ReviewInv, Exclusive, Open
<1> QED BY <1>1, <1>3, <1>4, <1>5, <1>6, <1>7, <1>8 DEF ReviewInv

LEMMA TrailGrows ==
    ASSUME NEW acts, NEW r, log' = log \cup {r}
    PROVE  Trail(acts)' = IF r.content.act \in acts THEN Trail(acts) \cup {r} ELSE Trail(acts)
BY DEF Trail

\* What every commit does to the log, and what becomes of the requests.
LEMMA CommitAdds ==
    ASSUME ReviewInv, NEW w \in Writers, CommitRequest(w)
    PROVE  \E r \in Row :
              /\ r.content = work[w].said /\ log' = log \cup {r}
              /\ r.seq \in Nat /\ \A q \in log : q.seq \in Nat /\ q.seq < r.seq
              /\ work[w].said.version < nextSeq /\ nextSeq' = nextSeq
              /\ AuditInv'
<1>1. Open(w) /\ pending[w] # {} /\ Commit(w)
  BY DEF CommitRequest
<1>2. PendingFits(w)
  BY DEF ReviewInv
<1>3. PICK r \in pending[w] : pending[w] = {r}
  BY <1>1, <1>2 DEF PendingFits
<1>4. r \in Row /\ r.seq \in Nat /\ \A q \in log : q.seq \in Nat /\ q.seq < r.seq
  BY DEF ReviewInv, AuditInv, AuditTypeOK, Numbered, Row
<1>5. r.content = work[w].said /\ work[w].said.version < nextSeq
  BY <1>1, <1>2 DEF PendingFits
<1>6. log' = log \cup {r} /\ nextSeq' = nextSeq
  BY <1>1, <1>3 DEF Commit
<1>7. AuditInv'
  BY <1>1, EndKeeps DEF Commit, ReviewInv
<1> QED BY <1>4, <1>5, <1>6, <1>7

LEMMA CommitStartKeeps ==
    ASSUME ReviewInv, NEW w \in Writers, CommitRequest(w), work[w].op = "STARTED"
    PROVE  ReviewInv'
<1>1. PICK r \in Row :
        /\ r.content = work[w].said /\ log' = log \cup {r}
        /\ r.seq \in Nat /\ \A q \in log : q.seq \in Nat /\ q.seq < r.seq
        /\ work[w].said.version < nextSeq /\ nextSeq' = nextSeq
        /\ AuditInv'
  BY CommitAdds
<1>2. review = None /\ work[w].said = Said("STARTED", 1, None) /\ log = {} /\ decisions = <<>> /\ mark = None
  BY DEF ReviewInv, WorkFits, RowsFit
<1>3. /\ review' = [status |-> "IN_REVIEW", outcome |-> None, version |-> 1]
      /\ UNCHANGED <<decisions, mark, attempt, events, page>>
      /\ pending' = [pending EXCEPT ![w] = {}] /\ work' = [work EXCEPT ![w] = NoWork]
  BY DEF CommitRequest, Commit, Deciding
<1>4. /\ work' = [v \in Writers |-> work'[v]]
      /\ work'[w].op = None /\ \A v \in Writers \ {w} : work'[v] = work[v]
      /\ pending'[w] = {} /\ \A v \in Writers \ {w} : pending'[v] = pending[v]
      /\ Exclusive'
      /\ (WorkFits(w) /\ PendingFits(w))'
  BY <1>3, EndFrees DEF CommitRequest
<1>5. ASSUME NEW v \in Writers \ {w} PROVE WorkFits(v)' /\ PendingFits(v)'
  <2>1. work[v].op = None
    BY DEF ReviewInv, Exclusive, Open
  <2>2. pending[v] = {}
    BY <2>1 DEF ReviewInv, PendingFits, Open
  <2> QED BY <1>4, <2>1, <2>2, ReviewConstants DEF WorkFits, PendingFits, Open, Acts, Deciding
<1>6. review' \in Review /\ review' # None
  BY <1>3, ReviewConstants DEF Review
<1>7. ReviewTypeOK'
  BY <1>3, <1>6 DEF ReviewInv, ReviewTypeOK
<1>8. RowsFit'
  BY <1>1, <1>2, <1>3, <1>6 DEF RowsFit, Said
<1>9. (DecidedInTurn /\ BasisComplete)'
  BY <1>2, <1>3 DEF DecidedInTurn, BasisComplete
<1>10. TrailTells'
  <2>1. log' = {r} /\ r.content.act = "STARTED"
    BY <1>1, <1>2 DEF Said
  <2> QED BY <1>2, <1>3, <1>6, <2>1 DEF TrailTells, Trail
<1> QED BY <1>1, <1>4, <1>5, <1>7, <1>8, <1>9, <1>10 DEF ReviewInv

LEMMA CommitNoteKeeps ==
    ASSUME ReviewInv, NEW w \in Writers, CommitRequest(w), work[w].op = "NOTED"
    PROVE  ReviewInv'
<1>1. PICK r \in Row :
        /\ r.content = work[w].said /\ log' = log \cup {r}
        /\ r.seq \in Nat /\ \A q \in log : q.seq \in Nat /\ q.seq < r.seq
        /\ work[w].said.version < nextSeq /\ nextSeq' = nextSeq
        /\ AuditInv'
  BY CommitAdds
<1>2. review # None /\ r.content.act = "NOTED"
  <2>1. Open(w) /\ WorkFits(w)
    BY DEF ReviewInv, CommitRequest
  <2> QED BY <1>1, <2>1 DEF WorkFits, Said
<1>3. /\ UNCHANGED <<review, decisions, mark, attempt, events, page>>
      /\ pending' = [pending EXCEPT ![w] = {}] /\ work' = [work EXCEPT ![w] = NoWork]
  BY DEF CommitRequest, Commit, Deciding
<1>4. /\ work' = [v \in Writers |-> work'[v]]
      /\ work'[w].op = None /\ \A v \in Writers \ {w} : work'[v] = work[v]
      /\ pending'[w] = {} /\ \A v \in Writers \ {w} : pending'[v] = pending[v]
      /\ Exclusive'
      /\ (WorkFits(w) /\ PendingFits(w))'
  BY <1>3, EndFrees DEF CommitRequest
<1>5. ASSUME NEW v \in Writers \ {w} PROVE WorkFits(v)' /\ PendingFits(v)'
  BY <1>1, <1>3, <1>4 DEF ReviewInv, WorkFits, PendingFits, Open
<1>6. (ReviewTypeOK /\ RowsFit)'
  BY <1>1, <1>2, <1>3 DEF ReviewInv, ReviewTypeOK, RowsFit
<1>7. (DecidedInTurn /\ BasisComplete)'
  BY <1>3 DEF ReviewInv, DecidedInTurn, BasisComplete
<1>8. TrailTells'
  <2>1. UNCHANGED <<Trail({"STARTED"}), Trail({"COMPLETED", "REVISED"}), Trail({"MARKED"})>>
    BY <1>1, <1>2 DEF Trail
  <2> QED BY <1>3, <2>1 DEF ReviewInv, TrailTells
<1> QED BY <1>1, <1>4, <1>5, <1>6, <1>7, <1>8 DEF ReviewInv

LEMMA CommitMarkKeeps ==
    ASSUME ReviewInv, NEW w \in Writers, CommitRequest(w), work[w].op = "MARKED"
    PROVE  ReviewInv'
<1>1. PICK r \in Row :
        /\ r.content = work[w].said /\ log' = log \cup {r}
        /\ r.seq \in Nat /\ \A q \in log : q.seq \in Nat /\ q.seq < r.seq
        /\ work[w].said.version < nextSeq /\ nextSeq' = nextSeq
        /\ AuditInv'
  BY CommitAdds
<1>2. /\ review # None /\ review.status = "IN_REVIEW" /\ r.content.act = "MARKED"
      /\ r.content.outcome \in Marks /\ work[w].said.outcome = r.content.outcome
  <2>1. Open(w) /\ WorkFits(w)
    BY DEF ReviewInv, CommitRequest
  <2>2. work[w].said = Said("MARKED", 0, work[w].said.outcome) /\ work[w].said.outcome \in Marks
    BY <2>1 DEF WorkFits
  <2>3. r.content.act = "MARKED"
    BY <1>1, <2>2 DEF Said
  <2> QED BY <1>1, <2>1, <2>2, <2>3 DEF WorkFits
<1>3. /\ UNCHANGED <<review, decisions, attempt, events, page>> /\ mark' = r.content.outcome
      /\ pending' = [pending EXCEPT ![w] = {}] /\ work' = [work EXCEPT ![w] = NoWork]
  BY <1>2 DEF CommitRequest, Commit, Deciding
<1>4. /\ work' = [v \in Writers |-> work'[v]]
      /\ work'[w].op = None /\ \A v \in Writers \ {w} : work'[v] = work[v]
      /\ pending'[w] = {} /\ \A v \in Writers \ {w} : pending'[v] = pending[v]
      /\ Exclusive'
      /\ (WorkFits(w) /\ PendingFits(w))'
  BY <1>3, EndFrees DEF CommitRequest
<1>5. ASSUME NEW v \in Writers \ {w} PROVE WorkFits(v)' /\ PendingFits(v)'
  BY <1>1, <1>3, <1>4 DEF ReviewInv, WorkFits, PendingFits, Open
<1>6. (ReviewTypeOK /\ RowsFit)'
  BY <1>1, <1>2, <1>3 DEF ReviewInv, ReviewTypeOK, RowsFit
<1>7. (DecidedInTurn /\ BasisComplete)'
  BY <1>3 DEF ReviewInv, DecidedInTurn, BasisComplete
<1>8. TrailTells'
  <2>1. Trail({"MARKED"})' = Trail({"MARKED"}) \cup {r}
    BY <1>1, <1>2, TrailGrows
  <2>2. UNCHANGED <<Trail({"STARTED"}), Trail({"COMPLETED", "REVISED"})>>
    BY <1>1, <1>2 DEF Trail
  <2>3. Trail({"COMPLETED", "REVISED"}) = {}
    <3>1. decisions = <<>>
      BY <1>2 DEF ReviewInv, RowsFit
    <3> QED BY <3>1 DEF ReviewInv, TrailTells
  <2>4. \A acts : Trail(acts) \subseteq log
    BY DEF Trail
  <2>5. Newest(Trail({"MARKED"}) \cup {r}, r)
    BY <1>1, <2>4 DEF Newest
  <2>6. \A p \in Trail({"STARTED"}) : p.seq < r.seq
    BY <1>1, <2>4
  <2> QED BY <1>3, <2>1, <2>2, <2>3, <2>5, <2>6 DEF ReviewInv, TrailTells
<1> QED BY <1>1, <1>4, <1>5, <1>6, <1>7, <1>8 DEF ReviewInv

LEMMA CommitDecisionKeeps ==
    ASSUME ReviewInv, NEW w \in Writers, CommitRequest(w), Deciding(work[w].op)
    PROVE  ReviewInv'
<1>1. PICK r \in Row :
        /\ r.content = work[w].said /\ log' = log \cup {r}
        /\ r.seq \in Nat /\ \A q \in log : q.seq \in Nat /\ q.seq < r.seq
        /\ work[w].said.version < nextSeq /\ nextSeq' = nextSeq
        /\ AuditInv'
  BY CommitAdds
<1>2. Open(w) /\ WorkFits(w)
  BY DEF ReviewInv, CommitRequest
<1>3. PICK d \in Decision : d = work[w].decision
  BY <1>2 DEF WorkFits
<1>4. PICK n \in Nat : review \in Review /\ review # None /\ review.version = n
  BY <1>2, ReviewConstants DEF ReviewInv, ReviewTypeOK, Review, WorkFits, Deciding
<1>5. /\ d.seen = n /\ d.outcome \in Outcomes
      /\ work[w].row = [status |-> "REVIEWED", outcome |-> d.outcome, version |-> n + 1]
      /\ work[w].said = Said(work[w].op, n + 1, d.outcome)
  BY <1>2, <1>3, <1>4 DEF WorkFits, Decision
<1>6. /\ decisions \in Seq(Decision) /\ n = Len(decisions) + 1
      /\ decisions # <<>> => review.outcome = decisions[Len(decisions)].outcome
      /\ IF decisions = <<>> THEN work[w].op = "COMPLETED" ELSE work[w].op = "REVISED"
  BY <1>2, <1>4 DEF ReviewInv, ReviewTypeOK, DecidedInTurn, RowsFit, WorkFits, Deciding, Last
<1>7. /\ review' = [status |-> "REVIEWED", outcome |-> d.outcome, version |-> n + 1]
      /\ decisions' = Append(decisions, d) /\ mark' = mark
      /\ page' = [page EXCEPT ![w] = review'.version]
      /\ attempt' = IF work[w].op = "COMPLETED" THEN work[w].attempt ELSE attempt
      /\ events' = IF work[w].op = "COMPLETED" THEN events + work[w].closed ELSE events
      /\ pending' = [pending EXCEPT ![w] = {}] /\ work' = [work EXCEPT ![w] = NoWork]
  BY <1>3, <1>5 DEF CommitRequest, Commit, Deciding
<1>8. /\ work' = [v \in Writers |-> work'[v]]
      /\ work'[w].op = None /\ \A v \in Writers \ {w} : work'[v] = work[v]
      /\ pending'[w] = {} /\ \A v \in Writers \ {w} : pending'[v] = pending[v]
      /\ Exclusive'
      /\ (WorkFits(w) /\ PendingFits(w))'
  BY <1>2, <1>7, EndFrees
<1>9. review' \in Review /\ review' # None
  BY <1>5, <1>7, ReviewConstants DEF Review
<1>10. attempt' = "FINAL" /\ events' \in 0..MaxEvents /\ d.evidence = events'
  <2>1. CASE work[w].op = "COMPLETED"
    BY <1>2, <1>3, <1>7, <2>1 DEF WorkFits
  <2>2. CASE work[w].op = "REVISED"
    <3>1. 1 \in DOMAIN decisions
      BY <1>6, <2>2
    <3> QED BY <1>2, <1>3, <1>7, <2>2, <3>1 DEF WorkFits, ReviewInv, BasisComplete, ReviewTypeOK
  <2> QED BY <2>1, <2>2 DEF Deciding
<1>11. ASSUME NEW v \in Writers \ {w} PROVE WorkFits(v)' /\ PendingFits(v)'
  <2>1. work[v].op \in {"NOTED", None}
    <3>1. work[v].op \in Acts \cup {None}
      BY DEF ReviewInv, WorkFits
    <3>2. work[v].op \notin {"MARKED", "COMPLETED", "REVISED"}
      BY DEF ReviewInv, Exclusive, Deciding
    <3>3. work[v].op # "STARTED"
      BY <1>2 DEF ReviewInv, Exclusive
    <3> QED BY <3>1, <3>2, <3>3 DEF Acts
  <2>2. WorkFits(v) /\ PendingFits(v)
    BY DEF ReviewInv
  <2>3. WorkFits(v)'
    BY <1>8, <1>9, <2>1, <2>2, ReviewConstants DEF WorkFits, Open, Acts, Deciding
  <2>4. PendingFits(v)'
    BY <1>1, <1>8, <2>2 DEF PendingFits, Open
  <2> QED BY <2>3, <2>4
<1>12. decisions' \in Seq(Decision) /\ decisions' # <<>> /\ Len(decisions') = n
       /\ decisions'[n] = d /\ \A i \in DOMAIN decisions : decisions'[i] = decisions[i]
  BY <1>6, <1>7
<1>13. ReviewTypeOK'
  <2>1. page' \in [Writers -> Nat]
    BY <1>4, <1>7 DEF ReviewInv, ReviewTypeOK
  <2> QED BY <1>7, <1>9, <1>10, <1>12, <2>1 DEF ReviewInv, ReviewTypeOK
<1>14. RowsFit'
  <2>1. n + 1 < nextSeq'
    BY <1>1, <1>5 DEF Said
  <2> QED BY <1>7, <1>9, <1>12, <2>1 DEF RowsFit
<1>15. BasisComplete'
  <2>1. ASSUME NEW i \in DOMAIN decisions PROVE attempt = "FINAL" /\ decisions[i].evidence = events'
    <3>1. work[w].op = "REVISED"
      BY <1>6
    <3> QED BY <1>7, <3>1 DEF ReviewInv, BasisComplete
  <2>2. DOMAIN decisions' = DOMAIN decisions \cup {n}
    BY <1>6, <1>12
  <2> QED BY <1>10, <1>12, <2>1, <2>2 DEF BasisComplete
<1>16. DecidedInTurn'
  <2>1. DOMAIN decisions' = DOMAIN decisions \cup {n} /\ DOMAIN decisions = 1..(n - 1)
    BY <1>6, <1>12
  <2>2. n > 1 => d.outcome # decisions[n - 1].outcome
    <3>1. n > 1 => work[w].op = "REVISED" /\ decisions # <<>>
      BY <1>6
    <3> QED BY <1>2, <1>3, <1>6, <3>1 DEF WorkFits
  <2>3. \A i \in DOMAIN decisions' :
          /\ decisions'[i].seen = i
          /\ i > 1 => decisions'[i].outcome # decisions'[i - 1].outcome
    BY <1>5, <1>12, <2>1, <2>2 DEF ReviewInv, DecidedInTurn
  <2> QED BY <1>7, <1>12, <2>3 DEF DecidedInTurn, Last
<1>17. TrailTells'
  <2> DEFINE starts == Trail({"STARTED"})
             deciding == Trail({"COMPLETED", "REVISED"})
             marks == Trail({"MARKED"})
  <2>1. r.content = Said(work[w].op, n + 1, d.outcome) /\ work[w].op \in {"COMPLETED", "REVISED"}
    BY <1>1, <1>5 DEF Deciding
  <2>2. r.content.act \in {"COMPLETED", "REVISED"} /\ r.content.version = n + 1
    BY <2>1 DEF Said
  <2>3. starts' = starts /\ marks' = marks /\ deciding' = deciding \cup {r}
    BY <1>1, <2>2 DEF Trail
  <2>4. /\ starts # {} /\ \A p, q \in starts : p = q
        /\ \A p \in starts, q \in deciding \cup marks : p.seq < q.seq
        /\ \A p \in marks, q \in deciding : p.seq < q.seq
        /\ IF marks = {} THEN mark = None ELSE \E q \in marks : Newest(marks, q) /\ mark = q.content.outcome
    BY <1>4 DEF ReviewInv, TrailTells
  <2>5. /\ \A i \in DOMAIN decisions : \E q \in deciding :
              q.content = Said(IF i = 1 THEN "COMPLETED" ELSE "REVISED", i + 1, decisions[i].outcome)
        /\ \A q \in deciding : \E i \in DOMAIN decisions : q.content.version = i + 1
        /\ \A p, q \in deciding : p.seq < q.seq => p.content.version < q.content.version
        /\ \A p, q \in deciding : p # q => p.content.version # q.content.version
    BY DEF ReviewInv, TrailTells
  <2>6. \A q \in starts \cup marks \cup deciding : q.seq \in Nat /\ q.seq < r.seq
    BY <1>1 DEF Trail
  <2>7. \A q \in deciding : q.content.version \in Nat /\ q.content.version < n + 1
    <3>1. DOMAIN decisions = 1..(n - 1)
      BY <1>6
    <3> HIDE DEF deciding
    <3> QED BY <2>5, <3>1
  <2>8. TrailTells' <=>
          /\ starts' = {} <=> review' = None
          /\ \A p, q \in starts' : p = q
          /\ \A i \in DOMAIN decisions' : \E q \in deciding' :
                q.content = Said(IF i = 1 THEN "COMPLETED" ELSE "REVISED", i + 1, decisions'[i].outcome)
          /\ \A q \in deciding' : \E i \in DOMAIN decisions' : q.content.version = i + 1
          /\ \A p, q \in deciding' : p.seq < q.seq => p.content.version < q.content.version
          /\ \A p, q \in deciding' : p # q => p.content.version # q.content.version
          /\ \A p \in starts', q \in deciding' \cup marks' : p.seq < q.seq
          /\ \A p \in marks', q \in deciding' : p.seq < q.seq
          /\ IF marks' = {} THEN mark' = None
             ELSE \E q \in marks' : Newest(marks', q) /\ mark' = q.content.outcome
    BY DEF TrailTells, Newest
  <2> HIDE DEF starts, deciding, marks
  <2>9. DOMAIN decisions' = DOMAIN decisions \cup {n}
    BY <1>6, <1>12
  <2>10. \A i \in DOMAIN decisions' : \E q \in deciding' :
           q.content = Said(IF i = 1 THEN "COMPLETED" ELSE "REVISED", i + 1, decisions'[i].outcome)
    <3>1. r.content = Said(IF n = 1 THEN "COMPLETED" ELSE "REVISED", n + 1, decisions'[n].outcome)
      BY <1>6, <1>12, <2>1
    <3> QED BY <1>12, <2>3, <2>5, <2>9, <3>1
  <2>11. \A q \in deciding' : \E i \in DOMAIN decisions' : q.content.version = i + 1
    BY <2>2, <2>3, <2>5, <2>9
  <2>12. /\ \A p, q \in deciding' : p.seq < q.seq => p.content.version < q.content.version
         /\ \A p, q \in deciding' : p # q => p.content.version # q.content.version
    BY <1>1, <2>2, <2>3, <2>5, <2>6, <2>7
  <2>13. /\ \A p \in starts', q \in deciding' \cup marks' : p.seq < q.seq
         /\ \A p \in marks', q \in deciding' : p.seq < q.seq
    BY <2>3, <2>4, <2>6
  <2> QED BY <1>7, <1>9, <2>3, <2>4, <2>8, <2>10, <2>11, <2>12, <2>13
<1> QED BY <1>1, <1>8, <1>11, <1>13, <1>14, <1>15, <1>16, <1>17 DEF ReviewInv

LEMMA NextReview == ReviewInv /\ [ReviewNext]_reviewVars => ReviewInv'
<1> SUFFICES ASSUME ReviewInv, [ReviewNext]_reviewVars PROVE ReviewInv'
  OBVIOUS
<1>1. CASE UNCHANGED reviewVars
  <2>1. UNCHANGED <<auditVars, attempt, events, review, decisions, mark, page, work>>
    BY <1>1 DEF reviewVars
  <2>2. AuditInv'
    BY <2>1, NextAudit DEF ReviewInv, auditVars
  <2>3. (ReviewTypeOK /\ RowsFit)'
    BY <2>1 DEF ReviewInv, ReviewTypeOK, RowsFit, auditVars
  <2>4. (DecidedInTurn /\ BasisComplete)'
    BY <2>1 DEF ReviewInv, DecidedInTurn, BasisComplete
  <2>5. TrailTells'
    BY <2>1 DEF ReviewInv, TrailTells, Trail, auditVars
  <2>6. \A w \in Writers : WorkFits(w)' /\ PendingFits(w)'
    BY <2>1 DEF ReviewInv, WorkFits, PendingFits, Open, auditVars
  <2>7. Exclusive'
    BY <2>1 DEF ReviewInv, Exclusive, Open
  <2> QED BY <2>1, <2>2, <2>3, <2>4, <2>5, <2>6, <2>7 DEF ReviewInv
<1>2. ASSUME NEW w \in Writers, View(w) PROVE ReviewInv'
  BY <1>2, ViewKeeps
<1>3. ASSUME NEW w \in Writers, Start(w) PROVE ReviewInv'
  BY <1>3, StartKeeps
<1>4. ASSUME NEW w \in Writers, AddNote(w) PROVE ReviewInv'
  BY <1>4, NoteKeeps
<1>5. ASSUME NEW w \in Writers, RecordAudit(w) PROVE ReviewInv'
  BY <1>5, RecordKeeps
<1>6. ASSUME NEW w \in Writers, CommitRequest(w) PROVE ReviewInv'
  <2>1. work[w].op \in Acts
    BY <1>6 DEF CommitRequest, Open, ReviewInv, WorkFits
  <2> QED BY <1>6, <2>1, CommitStartKeeps, CommitNoteKeeps, CommitMarkKeeps, CommitDecisionKeeps
          DEF Acts, Deciding
<1>7. ASSUME NEW w \in Writers, RollbackRequest(w) PROVE ReviewInv'
  BY <1>7, RollbackKeeps
<1>8. ASSUME NEW w \in Writers, NEW m \in Marks, Mark(w, m) PROVE ReviewInv'
  BY <1>8, MarkKeeps
<1>9. ASSUME NEW w \in Writers, NEW outcome \in Outcomes, Complete(w, outcome) PROVE ReviewInv'
  BY <1>9, CompleteKeeps
<1>10. ASSUME NEW w \in Writers, NEW outcome \in Outcomes, Revise(w, outcome) PROVE ReviewInv'
  BY <1>10, ReviseKeeps
<1>11. CASE ReportEvent \/ FinishAttempt
  BY <1>11, AttemptKeeps
<1> QED BY <1>1, <1>2, <1>3, <1>4, <1>5, <1>6, <1>7, <1>8, <1>9, <1>10, <1>11 DEF ReviewNext

THEOREM ReviewInvariant == ReviewSpec => []ReviewInv
<1>1. ReviewInit => ReviewInv
  BY InitReview
<1> QED BY <1>1, NextReview, PTL DEF ReviewSpec

\* Of two administrators deciding at once the second is refused: each decision was made on a page
\* that showed all earlier ones (_expect under get_locked, in complete and revise).
THEOREM DecisionsFollow == ReviewSpec => []DecidedInTurn
<1>1. ReviewInv => DecidedInTurn
  BY DEF ReviewInv
<1> QED BY <1>1, ReviewInvariant, PTL

\* The committed records replay to the review as it is (AuditRepository.record in the transaction of
\* the action it is about).
THEOREM TrailIsTrue == ReviewSpec => []TrailTells
<1>1. ReviewInv => TrailTells
  BY DEF ReviewInv
<1> QED BY <1>1, ReviewInvariant, PTL

\* Every decision rests on the whole evidence of a finished attempt (complete, which locks the
\* attempt and refuses one that is open).
THEOREM EvidenceIsWhole == ReviewSpec => []BasisComplete
<1>1. ReviewInv => BasisComplete
  BY DEF ReviewInv
<1> QED BY <1>1, ReviewInvariant, PTL

\* A review writes its records as the audit log demands, so that the chain verifies for it too.
THEOREM ReviewKeepsChain == ReviewSpec => AuditSpec /\ []ChainHolds
<1>1. ReviewInit => AuditInit
  BY DEF ReviewInit
<1>2. ReviewInv /\ [ReviewNext]_reviewVars => [AuditNext]_auditVars
  <2> SUFFICES ASSUME ReviewInv, ReviewNext PROVE [AuditNext]_auditVars
    BY DEF reviewVars
  <2>1. ASSUME NEW w \in Writers, RecordAudit(w) PROVE AuditNext
    <3>1. work[w].said \in Content
      BY <2>1, ReviewConstants DEF RecordAudit, ReviewInv, WorkFits
    <3> QED BY <2>1, <3>1 DEF RecordAudit, AuditNext
  <2>2. ASSUME NEW w \in Writers, CommitRequest(w) \/ RollbackRequest(w) PROVE AuditNext
    BY <2>2 DEF CommitRequest, RollbackRequest, AuditNext
  <2>3. ASSUME NEW w \in Writers, NEW new, Decides(w, new) PROVE UNCHANGED auditVars
    BY <2>3 DEF Decides
  <2>4. ASSUME NEW w \in Writers, Start(w) \/ AddNote(w) PROVE UNCHANGED auditVars
    BY <2>3, <2>4 DEF Start, AddNote
  <2>5. ASSUME NEW w \in Writers, NEW m \in Marks, Mark(w, m) PROVE UNCHANGED auditVars
    BY <2>3, <2>5 DEF Mark
  <2>6. ASSUME NEW w \in Writers, NEW outcome \in Outcomes, Complete(w, outcome) \/ Revise(w, outcome)
        PROVE  UNCHANGED auditVars
    BY <2>3, <2>6 DEF Complete, Revise
  <2>7. ASSUME NEW w \in Writers, View(w) PROVE UNCHANGED auditVars
    BY <2>7 DEF View
  <2>8. ReportEvent \/ FinishAttempt => UNCHANGED auditVars
    BY DEF ReportEvent, FinishAttempt
  <2> QED BY <2>1, <2>2, <2>4, <2>5, <2>6, <2>7, <2>8 DEF ReviewNext
<1>3. AuditInv => ChainHolds
  BY DEF AuditInv, ChainHolds, Broken, Chained
<1>4. ReviewSpec => AuditSpec
  BY <1>1, <1>2, ReviewInvariant, PTL DEF ReviewSpec, AuditSpec
<1> QED BY <1>3, <1>4, AuditInvariant, PTL

-----------------------------------------------------------------------------
(* The paper of an exam. *)

People == Writers \cup Candidates

Statuses == {"DRAFT", "READY", "PUBLISHED"}

\* What a request writes leaves the paper alone: no question, of the exam its status at most.
Plain(w) == w.rows = <<>> /\ w.gone = {} /\ w.columns \in {<<>>} \cup [status : Statuses]

\* The questions are written only by requests that began before any attempt, or that hold
\* nobody's writes at all.
PlainLate ==
    \A p \in People : tx[p] # None /\ (p \in team => ~tx[p].early) => Plain(tx[p])

RowsAreFunctions ==
    /\ team \subseteq Writers
    /\ tx = [p \in People |-> tx[p]]
    /\ questions = [q \in DOMAIN questions |-> questions[q]]
    /\ exam # None => DOMAIN exam = {"status", "kind", "total"}

SettledInv == RowsAreFunctions /\ PlainLate

\* What a request writes, whatever it is.
IsWrite(w) ==
    DOMAIN w = {"columns", "rows", "gone", "joins", "leaves", "drops", "starts", "early"}

LEMMA NothingIsAWrite == IsWrite(Authoring!NoWrite) /\ Plain(Authoring!NoWrite)
  BY DEF IsWrite, Plain, Authoring!NoWrite

\* A request that has decided leaves the invariant, if what it will write is plain whenever
\* there are attempts, and always when it is not a request of the team.
LEMMA DecidedSettles ==
  ASSUME SettledInv, NEW p, NEW w, IsWrite(w), Authoring!Decide(p, w),
         attempts # {} \/ p \notin team => Plain(w)
  PROVE  SettledInv'
<1> DEFINE new == [w EXCEPT !.early = attempts = {}]
<1>1. /\ tx' = [tx EXCEPT ![p] = new]
      /\ p \in team \cup Candidates
      /\ UNCHANGED <<team, exam, questions, assigned, attempts>>
  BY DEF Authoring!Decide
<1>2. /\ new.rows = w.rows /\ new.gone = w.gone /\ new.columns = w.columns
      /\ new.early <=> attempts = {}
  BY DEF IsWrite
<1>3. Plain(w) => Plain(new)
  BY <1>2 DEF Plain
<1>4. /\ team \subseteq Writers
      /\ tx = [q \in People |-> tx[q]]
      /\ questions = [q \in DOMAIN questions |-> questions[q]]
      /\ exam # None => DOMAIN exam = {"status", "kind", "total"}
      /\ \A q \in People : tx[q] # None /\ (q \in team => ~tx[q].early) => Plain(tx[q])
  BY DEF SettledInv, RowsAreFunctions, PlainLate
<1>5. p \in People
  BY <1>1, <1>4 DEF People
<1>6. new.early => attempts = {}
  BY <1>2
<1>7. (p \in team => ~new.early) => Plain(new)
  BY <1>2, <1>3
<1> HIDE DEF new
<1>8. tx' = [q \in People |-> IF q = p THEN new ELSE tx[q]]
  BY <1>1, <1>4, <1>5
<1>9. RowsAreFunctions'
  <2>1. tx' = [q \in People |-> tx'[q]]
    BY <1>8
  <2>2. QED
    BY <1>1, <1>4, <2>1 DEF RowsAreFunctions
<1>10. PlainLate'
  <2> SUFFICES ASSUME NEW q \in People, tx'[q] # None, q \in team => ~tx'[q].early
               PROVE  Plain(tx'[q])
    BY <1>1 DEF PlainLate
  <2>1. CASE q = p
    <3>1. tx'[q] = new
      BY <1>8, <2>1
    <3>2. q \in team => ~new.early
      BY <3>1
    <3>3. QED
      BY <3>1, <3>2, <1>7, <2>1
  <2>2. CASE q # p
    <3>1. tx'[q] = tx[q]
      BY <1>8, <2>2
    <3>2. QED
      BY <3>1, <1>4
  <2>3. QED
    BY <2>1, <2>2
<1>11. QED
  BY <1>9, <1>10 DEF SettledInv

\* A request that is over.
LEMMA OverSettles ==
  ASSUME SettledInv, NEW p \in People, tx' = [tx EXCEPT ![p] = None], team' = team,
         questions' = [q \in DOMAIN questions' |-> questions'[q]],
         exam' # None => DOMAIN exam' = {"status", "kind", "total"}
  PROVE  SettledInv'
<1>1. /\ team \subseteq Writers
      /\ tx = [q \in People |-> tx[q]]
      /\ \A q \in People : tx[q] # None /\ (q \in team => ~tx[q].early) => Plain(tx[q])
  BY DEF SettledInv, RowsAreFunctions, PlainLate
<1>2. tx' = [q \in People |-> IF q = p THEN None ELSE tx[q]]
  BY <1>1
<1>3. tx' = [q \in People |-> tx'[q]]
  BY <1>2
<1>4. RowsAreFunctions'
  BY <1>1, <1>3 DEF RowsAreFunctions
<1>5. PlainLate'
  <2> SUFFICES ASSUME NEW q \in People, tx'[q] # None, q \in team => ~tx'[q].early
               PROVE  Plain(tx'[q])
    BY DEF PlainLate
  <2>1. tx'[q] = tx[q]
    BY <1>2
  <2>2. QED
    BY <2>1, <1>1
<1>6. QED
  BY <1>4, <1>5 DEF SettledInv

\* A plain request that commits leaves the questions, and the kind and total of the exam.
LEMMA PlainCommit ==
  ASSUME SettledInv, NEW p \in People, Authoring!Commit(p), Plain(tx[p]), exam' # None
  PROVE  /\ questions' = questions
         /\ exam' = Authoring!Over(exam, tx[p].columns)
         /\ exam'.kind = exam.kind /\ exam'.total = exam.total
<1> DEFINE w == tx[p]
<1>1. ~w.drops
  BY DEF Authoring!Commit
<1>2. /\ exam # None
      /\ exam' = Authoring!Over(exam, w.columns)
      /\ questions' = Authoring!Applied(w)
  BY <1>1 DEF Authoring!Commit
<1>3. w.rows = <<>> /\ w.gone = {} /\ w.columns \in {<<>>} \cup [status : Statuses]
  BY DEF Plain
<1>4. questions = [q \in DOMAIN questions |-> questions[q]] /\ DOMAIN exam = {"status", "kind", "total"}
  BY <1>2 DEF SettledInv, RowsAreFunctions
<1> HIDE DEF w
<1>5. DOMAIN w.rows = {}
  BY <1>3
<1>6. Authoring!Applied(w) = questions
  <2>1. (Authoring!Rows \cup DOMAIN w.rows) \ w.gone = DOMAIN questions
    BY <1>3, <1>5 DEF Authoring!Rows
  <2>2. Authoring!Applied(w) = [q \in DOMAIN questions |-> questions[q]]
    BY <2>1, <1>5 DEF Authoring!Applied
  <2>3. QED
    BY <2>2, <1>4
<1>7. "kind" \notin DOMAIN w.columns /\ "total" \notin DOMAIN w.columns
  <2>1. CASE w.columns = <<>>
    BY <2>1
  <2>2. CASE w.columns \in [status : Statuses]
    <3>1. DOMAIN w.columns = {"status"}
      BY <2>2
    <3>2. QED
      BY <3>1
  <2>3. QED
    BY <1>3, <2>1, <2>2
<1>8. Authoring!Over(exam, w.columns).kind = exam.kind
  BY <1>4, <1>7 DEF Authoring!Over
<1>9. Authoring!Over(exam, w.columns).total = exam.total
  BY <1>4, <1>7 DEF Authoring!Over
<1>10. QED
  BY <1>2, <1>6, <1>8, <1>9 DEF w

\* A commit leaves rows that are a function, and an exam of the same columns.
LEMMA CommitSettles ==
  ASSUME SettledInv, NEW p \in People, Authoring!Commit(p)
  PROVE  SettledInv'
<1>1. tx' = [tx EXCEPT ![p] = None] /\ team' = team /\ exam # None
  BY DEF Authoring!Commit
<1>2. CASE tx[p].drops
  <2>1. exam' = None /\ questions' = <<>>
    BY <1>2 DEF Authoring!Commit
  <2>2. questions' = [q \in DOMAIN questions' |-> questions'[q]]
    BY <2>1
  <2>3. QED
    BY <1>1, <2>1, <2>2, OverSettles
<1>3. CASE ~tx[p].drops
  <2>1. exam' = Authoring!Over(exam, tx[p].columns) /\ questions' = Authoring!Applied(tx[p])
    BY <1>3 DEF Authoring!Commit
  <2>2. questions' = [q \in DOMAIN questions' |-> questions'[q]]
    BY <2>1 DEF Authoring!Applied
  <2>3. DOMAIN exam' = DOMAIN exam
    BY <2>1 DEF Authoring!Over
  <2>4. DOMAIN exam' = {"status", "kind", "total"}
    BY <2>3, <1>1 DEF SettledInv, RowsAreFunctions
  <2>5. QED
    BY <1>1, <2>2, <2>4, OverSettles
<1>4. QED
  BY <1>2, <1>3

LEMMA RollBackSettles ==
  ASSUME SettledInv, NEW p \in People, Authoring!RollBack(p)
  PROVE  SettledInv'
<1>1. tx' = [tx EXCEPT ![p] = None] /\ UNCHANGED <<team, exam, questions>>
  BY DEF Authoring!RollBack
<1>2. /\ questions = [q \in DOMAIN questions |-> questions[q]]
      /\ exam # None => DOMAIN exam = {"status", "kind", "total"}
  BY DEF SettledInv, RowsAreFunctions
<1>3. /\ questions' = [q \in DOMAIN questions' |-> questions'[q]]
      /\ exam' # None => DOMAIN exam' = {"status", "kind", "total"}
  BY <1>1, <1>2
<1>4. QED
  BY <1>1, <1>3, OverSettles

\* Every decision of a request of the team: of the questions and the defining fields only
\* while there are no attempts.
LEMMA EditSettles ==
  ASSUME SettledInv, NEW a \in team, NEW w, IsWrite(w), Authoring!Editable, Authoring!Decide(a, w)
  PROVE  SettledInv'
  BY DecidedSettles DEF Authoring!Editable

LEMMA RowsAreAWrite ==
  ASSUME NEW rows
  PROVE  IsWrite([Authoring!NoWrite EXCEPT !.rows = rows])
  BY DEF IsWrite, Authoring!NoWrite

LEMMA ColumnsAreAWrite ==
  ASSUME NEW columns
  PROVE  IsWrite([Authoring!NoWrite EXCEPT !.columns = columns])
  BY DEF IsWrite, Authoring!NoWrite

LEMMA StatusSettles ==
  ASSUME SettledInv, NEW a \in team, NEW status \in Statuses,
         Authoring!WriteColumns(a, [s \in {"status"} |-> status])
  PROVE  SettledInv'
<1> DEFINE w == [Authoring!NoWrite EXCEPT !.columns = [s \in {"status"} |-> status]]
<1>1. Authoring!Decide(a, w)
  BY DEF Authoring!WriteColumns
<1>2. [s \in {"status"} |-> status] \in [status : Statuses]
  OBVIOUS
<1>3. Plain(w)
  BY <1>2 DEF Plain, Authoring!NoWrite
<1>4. IsWrite(w)
  BY ColumnsAreAWrite
<1> HIDE DEF w
<1>5. QED
  BY <1>1, <1>3, <1>4, DecidedSettles

\* Every step of the authoring scene keeps the invariant.
LEMMA AuthoringSettles ==
  ASSUME SettledInv, Authoring!Next
  PROVE  SettledInv'
<1>1. ASSUME NEW a \in team, NEW kind, NEW total, Authoring!Update(a, kind, total)
      PROVE  SettledInv'
  <2>1. PICK columns : Authoring!WriteColumns(a, columns)
    BY <1>1 DEF Authoring!Update
  <2>2. Authoring!Decide(a, [Authoring!NoWrite EXCEPT !.columns = columns])
    BY <2>1 DEF Authoring!WriteColumns
  <2>3. Authoring!Editable
    BY <1>1 DEF Authoring!Update
  <2>4. QED
    BY <2>2, <2>3, ColumnsAreAWrite, EditSettles
<1>2. ASSUME NEW a \in team, NEW rows, Authoring!Editable, Authoring!WriteRows(a, rows)
      PROVE  SettledInv'
  <2>1. Authoring!Decide(a, [Authoring!NoWrite EXCEPT !.rows = rows])
    BY <1>2 DEF Authoring!WriteRows
  <2>2. QED
    BY <1>2, <2>1, RowsAreAWrite, EditSettles
<1>3. ASSUME NEW a \in team, NEW q, NEW text, NEW marks, Authoring!AddQuestion(a, q, text, marks)
      PROVE  SettledInv'
  BY <1>2, <1>3 DEF Authoring!AddQuestion
<1>4. ASSUME NEW a \in team, NEW q, NEW text, NEW marks, NEW problem,
             Authoring!AddCodingQuestion(a, q, problem, text, marks)
      PROVE  SettledInv'
  BY <1>2, <1>4 DEF Authoring!AddCodingQuestion
<1>5. ASSUME NEW a \in team, NEW q, NEW text, NEW marks, Authoring!UpdateQuestion(a, q, text, marks)
      PROVE  SettledInv'
  BY <1>2, <1>5 DEF Authoring!UpdateQuestion
<1>6. ASSUME NEW a \in team, NEW q, NEW text, Authoring!SetCodingVersion(a, q, text)
      PROVE  SettledInv'
  BY <1>2, <1>6 DEF Authoring!SetCodingVersion
<1>7. ASSUME NEW a \in team, NEW q, Authoring!DeleteQuestion(a, q)
      PROVE  SettledInv'
  <2>1. PICK rows : Authoring!Decide(a, [Authoring!NoWrite EXCEPT !.gone = {q}, !.rows = rows])
    BY <1>7 DEF Authoring!DeleteQuestion
  <2>2. IsWrite([Authoring!NoWrite EXCEPT !.gone = {q}, !.rows = rows])
    BY DEF IsWrite, Authoring!NoWrite
  <2>3. Authoring!Editable
    BY <1>7 DEF Authoring!DeleteQuestion
  <2>4. QED
    BY <2>1, <2>2, <2>3, EditSettles
<1>8. ASSUME NEW a \in team, NEW q, NEW n, Authoring!DuplicateQuestion(a, q, n)
      PROVE  SettledInv'
  <2>1. Authoring!Editable /\ \E rows : Authoring!WriteRows(a, rows)
    BY <1>8 DEF Authoring!DuplicateQuestion
  <2>2. QED
    BY <1>2, <2>1
<1>9. ASSUME NEW a \in team, NEW s, Authoring!Reorder(a, s)
      PROVE  SettledInv'
  BY <1>2, <1>9 DEF Authoring!Reorder
<1>10. ASSUME NEW a \in team, NEW status \in Statuses,
              Authoring!WriteColumns(a, [status |-> status])
       PROVE  SettledInv'
  <2>1. [status |-> status] = [s \in {"status"} |-> status]
    OBVIOUS
  <2>2. QED
    BY <1>10, <2>1, StatusSettles
<1>11. ASSUME NEW a \in team, Authoring!MarkReady(a)
       PROVE  SettledInv'
  BY <1>10, <1>11 DEF Authoring!MarkReady, Statuses
<1>12. ASSUME NEW a \in team, Authoring!Publish(a)
       PROVE  SettledInv'
  BY <1>10, <1>12 DEF Authoring!Publish, Statuses
<1>13. ASSUME NEW a \in team, Authoring!Unpublish(a)
       PROVE  SettledInv'
  BY <1>10, <1>13 DEF Authoring!Unpublish, Statuses
<1>14. ASSUME NEW a \in team, Authoring!RevertToDraft(a)
       PROVE  SettledInv'
  BY <1>10, <1>14 DEF Authoring!RevertToDraft, Statuses
<1>15. ASSUME NEW a \in team, Authoring!Delete(a)
       PROVE  SettledInv'
  <2> DEFINE w == [Authoring!NoWrite EXCEPT !.drops = TRUE]
  <2>1. IsWrite(w) /\ Plain(w)
    BY DEF IsWrite, Plain, Authoring!NoWrite
  <2>2. Authoring!Decide(a, w)
    BY <1>15 DEF Authoring!Delete
  <2> HIDE DEF w
  <2>3. QED
    BY <2>1, <2>2, DecidedSettles
<1>16. ASSUME NEW a \in team, NEW cs, Authoring!Assign(a, cs)
       PROVE  SettledInv'
  <2> DEFINE w == [Authoring!NoWrite EXCEPT !.joins = cs]
  <2>1. IsWrite(w) /\ Plain(w)
    BY DEF IsWrite, Plain, Authoring!NoWrite
  <2>2. Authoring!Decide(a, w)
    BY <1>16 DEF Authoring!Assign
  <2> HIDE DEF w
  <2>3. QED
    BY <2>1, <2>2, DecidedSettles
<1>17. ASSUME NEW a \in team, NEW c, Authoring!Unassign(a, c)
       PROVE  SettledInv'
  <2> DEFINE w == [Authoring!NoWrite EXCEPT !.leaves = {c}]
  <2>1. IsWrite(w) /\ Plain(w)
    BY DEF IsWrite, Plain, Authoring!NoWrite
  <2>2. Authoring!Decide(a, w)
    BY <1>17 DEF Authoring!Unassign
  <2> HIDE DEF w
  <2>3. QED
    BY <2>1, <2>2, DecidedSettles
<1>18. ASSUME NEW c, Authoring!Start(c)
       PROVE  SettledInv'
  <2> DEFINE w == [Authoring!NoWrite EXCEPT !.starts = TRUE]
  <2>1. IsWrite(w) /\ Plain(w)
    BY DEF IsWrite, Plain, Authoring!NoWrite
  <2>2. Authoring!Decide(c, w)
    BY <1>18 DEF Authoring!Start
  <2> HIDE DEF w
  <2>3. QED
    BY <2>1, <2>2, DecidedSettles
<1>19. ASSUME NEW p \in DOMAIN tx, Authoring!Commit(p) \/ Authoring!RollBack(p)
       PROVE  SettledInv'
  <2>1. p \in People
    BY DEF SettledInv, RowsAreFunctions
  <2>2. QED
    BY <1>19, <2>1, CommitSettles, RollBackSettles
<1>20. QED
  BY <1>1, <1>3, <1>4, <1>5, <1>6, <1>7, <1>8, <1>9, <1>11, <1>12, <1>13, <1>14, <1>15, <1>16,
     <1>17, <1>18, <1>19
     DEF Authoring!Next, Authoring!QuestionRequest

\* A step of the authoring scene with attempts, and without requests from before them, leaves
\* the paper.
LEMMA PaperStands ==
  ASSUME SettledInv, Authoring!Next, attempts # {}, exam' # None,
         \A a \in Writers : tx[a] # None => ~tx[a].early
  PROVE  Authoring!Paper' = Authoring!Paper
<1>1. ASSUME NEW p, NEW w, Authoring!Decide(p, w)
      PROVE  Authoring!Paper' = Authoring!Paper
  BY <1>1 DEF Authoring!Decide, Authoring!Paper
<1>2. ASSUME NEW p \in DOMAIN tx, Authoring!Commit(p)
      PROVE  Authoring!Paper' = Authoring!Paper
  <2>1. p \in People /\ team \subseteq Writers
    BY DEF SettledInv, RowsAreFunctions
  <2>2. tx[p] # None /\ exam # None
    BY <1>2 DEF Authoring!Commit
  <2>3. Plain(tx[p])
    BY <2>1, <2>2 DEF SettledInv, PlainLate
  <2>4. questions' = questions /\ exam'.kind = exam.kind /\ exam'.total = exam.total
    BY <1>2, <2>1, <2>3, PlainCommit
  <2>5. QED
    BY <2>2, <2>4 DEF Authoring!Paper
<1>3. ASSUME NEW p, Authoring!RollBack(p)
      PROVE  Authoring!Paper' = Authoring!Paper
  BY <1>3 DEF Authoring!RollBack, Authoring!Paper
<1>4. ASSUME NEW a, NEW rows, Authoring!WriteRows(a, rows)
      PROVE  Authoring!Paper' = Authoring!Paper
  BY <1>1, <1>4 DEF Authoring!WriteRows
<1>5. ASSUME NEW a, NEW columns, Authoring!WriteColumns(a, columns)
      PROVE  Authoring!Paper' = Authoring!Paper
  BY <1>1, <1>5 DEF Authoring!WriteColumns
<1>6. ASSUME NEW a, NEW kind, NEW total, Authoring!Update(a, kind, total)
      PROVE  Authoring!Paper' = Authoring!Paper
  BY <1>5, <1>6 DEF Authoring!Update
<1>7. ASSUME NEW a, NEW q, NEW text, NEW marks, Authoring!AddQuestion(a, q, text, marks)
      PROVE  Authoring!Paper' = Authoring!Paper
  BY <1>4, <1>7 DEF Authoring!AddQuestion
<1>8. ASSUME NEW a, NEW q, NEW problem, NEW text, NEW marks, Authoring!AddCodingQuestion(a, q, problem, text, marks)
      PROVE  Authoring!Paper' = Authoring!Paper
  BY <1>4, <1>8 DEF Authoring!AddCodingQuestion
<1>9. ASSUME NEW a, NEW q, NEW text, NEW marks, Authoring!UpdateQuestion(a, q, text, marks)
      PROVE  Authoring!Paper' = Authoring!Paper
  BY <1>4, <1>9 DEF Authoring!UpdateQuestion
<1>10. ASSUME NEW a, NEW q, NEW text, Authoring!SetCodingVersion(a, q, text)
      PROVE  Authoring!Paper' = Authoring!Paper
  BY <1>4, <1>10 DEF Authoring!SetCodingVersion
<1>11. ASSUME NEW a, NEW q, Authoring!DeleteQuestion(a, q)
      PROVE  Authoring!Paper' = Authoring!Paper
  BY <1>1, <1>11 DEF Authoring!DeleteQuestion
<1>12. ASSUME NEW a, NEW q, NEW n, Authoring!DuplicateQuestion(a, q, n)
      PROVE  Authoring!Paper' = Authoring!Paper
  BY <1>4, <1>12 DEF Authoring!DuplicateQuestion
<1>13. ASSUME NEW a, NEW s, Authoring!Reorder(a, s)
      PROVE  Authoring!Paper' = Authoring!Paper
  BY <1>4, <1>13 DEF Authoring!Reorder
<1>14. ASSUME NEW a, Authoring!MarkReady(a)
      PROVE  Authoring!Paper' = Authoring!Paper
  BY <1>5, <1>14 DEF Authoring!MarkReady
<1>15. ASSUME NEW a, Authoring!Publish(a)
      PROVE  Authoring!Paper' = Authoring!Paper
  BY <1>5, <1>15 DEF Authoring!Publish
<1>16. ASSUME NEW a, Authoring!Unpublish(a)
      PROVE  Authoring!Paper' = Authoring!Paper
  BY <1>5, <1>16 DEF Authoring!Unpublish
<1>17. ASSUME NEW a, Authoring!RevertToDraft(a)
      PROVE  Authoring!Paper' = Authoring!Paper
  BY <1>5, <1>17 DEF Authoring!RevertToDraft
<1>18. ASSUME NEW a, Authoring!Delete(a)
      PROVE  Authoring!Paper' = Authoring!Paper
  BY <1>1, <1>18 DEF Authoring!Delete
<1>19. ASSUME NEW a, NEW cs, Authoring!Assign(a, cs)
      PROVE  Authoring!Paper' = Authoring!Paper
  BY <1>1, <1>19 DEF Authoring!Assign
<1>20. ASSUME NEW a, NEW c, Authoring!Unassign(a, c)
      PROVE  Authoring!Paper' = Authoring!Paper
  BY <1>1, <1>20 DEF Authoring!Unassign
<1>21. ASSUME NEW c, Authoring!Start(c)
      PROVE  Authoring!Paper' = Authoring!Paper
  BY <1>1, <1>21 DEF Authoring!Start
<1>22. QED
  BY <1>2, <1>3, <1>6, <1>7, <1>8, <1>9, <1>10, <1>11, <1>12, <1>13,
     <1>14, <1>15, <1>16, <1>17, <1>18, <1>19, <1>20, <1>21
     DEF Authoring!Next, Authoring!QuestionRequest

\* With attempts, and no request open from before the first of them, the questions and the
\* rules an attempt is examined on stand (AssessmentService._require_editable).
THEOREM PaperDoesSettle == AdministrationSpec => PaperSettles
<1>1. AllInit => SettledInv
  <2> SUFFICES ASSUME AllInit PROVE SettledInv
    OBVIOUS
  <2>1. Authoring!Init
    BY DEF AllInit
  <2>2. /\ team \in {{a} : a \in Writers} \cup {Writers}
        /\ exam \in [status : {"DRAFT"}, kind : Authoring!Kinds, total : Totals]
        /\ questions = <<>>
        /\ tx = [p \in Writers \cup Candidates |-> None]
    BY <2>1 DEF Authoring!Init
  <2>3. DOMAIN exam = {"status", "kind", "total"}
    BY <2>2
  <2>4. team \subseteq Writers
    BY <2>2
  <2>5. tx = [p \in People |-> tx[p]] /\ \A p \in People : tx[p] = None
    BY <2>2 DEF People
  <2>6. questions = [q \in DOMAIN questions |-> questions[q]]
    BY <2>2
  <2>7. QED
    BY <2>3, <2>4, <2>5, <2>6 DEF SettledInv, RowsAreFunctions, PlainLate
<1>2. SettledInv /\ [AllNext]_allVars => SettledInv'
  <2> SUFFICES ASSUME SettledInv, [AllNext]_allVars PROVE SettledInv'
    OBVIOUS
  <2>1. CASE Authoring!Next
    BY <2>1, AuthoringSettles
  <2>2. CASE UNCHANGED authoringVars
    BY <2>2 DEF authoringVars, SettledInv, RowsAreFunctions, PlainLate, Plain
  <2>3. QED
    BY <2>1, <2>2 DEF AllNext, AuthoringStep, ReviewStep, LibraryStep, allVars
<1>3. SettledInv /\ [AllNext]_allVars =>
        [attempts # {} /\ exam' # None /\ (\A a \in Writers : tx[a] # None => ~tx[a].early)
           => Authoring!Paper' = Authoring!Paper]_authoringVars
  <2>1. CASE Authoring!Next
    BY <2>1, PaperStands
  <2>2. CASE UNCHANGED authoringVars
    BY <2>2
  <2>3. QED
    BY <2>1, <2>2 DEF AllNext, AuthoringStep, ReviewStep, LibraryStep, allVars
<1>4. QED
  BY <1>1, <1>2, <1>3, PTL DEF AdministrationSpec, PaperSettles, Authoring!PaperSettles,
     Authoring!vars, authoringVars

-----------------------------------------------------------------------------
(* The paper that one administrator writes. *)

\* A list that names every member of S once.
Lists(s, S) ==
    /\ s \in Seq(S)
    /\ Len(s) = Cardinality(S)
    /\ \A i, j \in 1..Len(s) : s[i] = s[j] => i = j
    /\ \A r \in S : \E i \in 1..Len(s) : s[i] = r

\* ExamAuthoring counts as the library does.
LEMMA SameCount ==
  ASSUME NEW S
  PROVE  Authoring!Cardinality(S) = Cardinality(S)
  BY DEF Authoring!Cardinality, Cardinality

LEMMA ListsOfASet ==
  ASSUME NEW S, IsFiniteSet(S), NEW s \in Authoring!SetToSeqs(S)
  PROVE  Lists(s, S)
<1> DEFINE n == Cardinality(S)
<1>1. n \in Nat /\ Cardinality(1..n) = n /\ IsFiniteSet(1..n)
  <2>1. n \in Nat
    BY FS_CardinalityType
  <2>2. IsFiniteSet(1..n) /\ Cardinality(1..n) = IF 1 > n THEN 0 ELSE n - 1 + 1
    BY <2>1, FS_Interval
  <2>3. QED
    BY <2>1, <2>2
<1>2. s \in [1..n -> S] /\ \A i, j \in 1..n : i # j => s[i] # s[j]
  <2>1. Authoring!Cardinality(S) = n
    BY SameCount
  <2>2. QED
    BY <2>1 DEF Authoring!SetToSeqs
<1>3. s \in Seq(S) /\ Len(s) = n
  BY <1>1, <1>2
<1>4. s \in Injection(1..n, S)
  BY <1>2 DEF Injection, IsInjective
<1>5. s \in Surjection(1..n, S)
  BY <1>1, <1>4, FS_Injection
<1>6. \A r \in S : \E i \in 1..n : s[i] = r
  BY <1>5 DEF Surjection
<1>7. QED
  BY <1>2, <1>3, <1>6 DEF Lists

LEMMA Placed ==
  ASSUME NEW S, NEW s, Lists(s, S), NEW r \in S
  PROVE  Authoring!Place(s, r) \in 1..Len(s) /\ s[Authoring!Place(s, r)] = r
  BY DEF Authoring!Place, Lists

LEMMA PlaceOf ==
  ASSUME NEW S, NEW s, Lists(s, S), NEW i \in 1..Len(s)
  PROVE  s[i] \in S /\ Authoring!Place(s, s[i]) = i
<1>1. s[i] \in S
  BY DEF Lists
<1>2. Authoring!Place(s, s[i]) \in 1..Len(s) /\ s[Authoring!Place(s, s[i])] = s[i]
  BY <1>1, Placed
<1>3. QED
  BY <1>1, <1>2 DEF Lists

LEMMA PlacesAreANumbering ==
  ASSUME NEW S, IsFiniteSet(S), NEW s, Lists(s, S)
  PROVE  {Authoring!Place(s, r) - 1 : r \in S} = 0..(Cardinality(S) - 1)
<1>1. Len(s) = Cardinality(S) /\ Len(s) \in Nat
  BY DEF Lists
<1>2. ASSUME NEW r \in S PROVE Authoring!Place(s, r) - 1 \in 0..(Len(s) - 1)
  <2>1. Authoring!Place(s, r) \in 1..Len(s)
    BY Placed
  <2>2. QED
    BY <2>1, <1>1
<1>3. ASSUME NEW k \in 0..(Len(s) - 1) PROVE \E r \in S : Authoring!Place(s, r) - 1 = k
  <2>1. k + 1 \in 1..Len(s)
    BY <1>1
  <2>2. s[k + 1] \in S /\ Authoring!Place(s, s[k + 1]) = k + 1
    BY <2>1, PlaceOf
  <2>3. QED
    BY <2>2
<1>4. QED
  BY <1>1, <1>2, <1>3

LEMMA ListWithout ==
  ASSUME NEW S, IsFiniteSet(S), NEW s, Lists(s, S), NEW q \in S
  PROVE  Lists(Authoring!RemoveAt(s, Authoring!Place(s, q)), S \ {q})
<1> DEFINE i == Authoring!Place(s, q)
           t == Authoring!RemoveAt(s, i)
<1>1. i \in 1..Len(s) /\ s[i] = q
  BY Placed
<1>2. s \in Seq(S) /\ Len(s) \in Nat /\ Len(s) = Cardinality(S)
  BY DEF Lists
<1>3. \A j, k \in 1..Len(s) : s[j] = s[k] => j = k
  BY DEF Lists
<1>4. \A r \in S : \E j \in 1..Len(s) : s[j] = r
  BY DEF Lists
<1>5. Cardinality(S \ {q}) = Cardinality(S) - 1
  BY FS_RemoveElement
<1> HIDE DEF i
<1>6. /\ t \in Seq(S)
      /\ Len(t) = Len(s) - 1
      /\ \A j \in 1..(Len(s) - 1) : t[j] = IF j < i THEN s[j] ELSE s[j + 1]
  BY <1>1, <1>2, SMTT(30) DEF Authoring!RemoveAt
<1> HIDE DEF t
<1>7. \A j \in 1..Len(t) : t[j] \in S \ {q}
  BY <1>1, <1>2, <1>3, <1>6
<1>8. t \in Seq(S \ {q})
  BY <1>6, <1>7
<1>9. \A j, k \in 1..Len(t) : t[j] = t[k] => j = k
  BY <1>1, <1>2, <1>3, <1>6
<1>10. ASSUME NEW r \in S \ {q} PROVE \E j \in 1..Len(t) : t[j] = r
  <2>1. PICK k \in 1..Len(s) : s[k] = r
    BY <1>4
  <2>2. k # i
    BY <2>1, <1>1
  <2>3. CASE k < i
    BY <2>1, <2>3, <1>1, <1>2, <1>6
  <2>4. CASE k > i
    <3>1. k - 1 \in 1..Len(t) /\ t[k - 1] = s[k]
      BY <2>4, <1>1, <1>2, <1>6
    <3>2. QED
      BY <3>1, <2>1
  <2>5. QED
    BY <2>2, <2>3, <2>4, <1>1, <1>2
<1>11. QED
  BY <1>2, <1>5, <1>6, <1>8, <1>9, <1>10 DEF Lists, t, i

LEMMA ListWith ==
  ASSUME NEW S, IsFiniteSet(S), NEW s, Lists(s, S), NEW n, n \notin S,
         NEW i \in 1..(Cardinality(S) + 1)
  PROVE  Lists(Authoring!InsertAt(s, i, n), S \cup {n})
<1> DEFINE t == Authoring!InsertAt(s, i, n)
<1>1. s \in Seq(S) /\ Len(s) \in Nat /\ Len(s) = Cardinality(S) /\ i \in 1..(Len(s) + 1)
  BY DEF Lists
<1>2. \A j, k \in 1..Len(s) : s[j] = s[k] => j = k
  BY DEF Lists
<1>3. \A r \in S : \E j \in 1..Len(s) : s[j] = r
  BY DEF Lists
<1>4. \A j \in 1..Len(s) : s[j] \in S /\ s[j] # n
  BY <1>1
<1>5. Cardinality(S \cup {n}) = Cardinality(S) + 1
  BY FS_AddElement
<1>6. /\ s \in Seq(S \cup {n})
      /\ <<n>> \in Seq(S \cup {n})
  BY <1>1
<1>7. /\ t \in Seq(S \cup {n})
      /\ Len(t) = Len(s) + 1
      /\ \A j \in 1..(Len(s) + 1) : t[j] = IF j < i THEN s[j] ELSE IF j = i THEN n ELSE s[j - 1]
  BY <1>1, <1>6 DEF Authoring!InsertAt
<1> HIDE DEF t
<1>8. \A j, k \in 1..Len(t) : t[j] = t[k] => j = k
  BY <1>1, <1>2, <1>4, <1>7
<1>9. ASSUME NEW r \in S \cup {n} PROVE \E j \in 1..Len(t) : t[j] = r
  <2>1. CASE r = n
    BY <2>1, <1>1, <1>7
  <2>2. CASE r # n
    <3>1. PICK k \in 1..Len(s) : s[k] = r
      BY <2>2, <1>3
    <3>2. CASE k < i
      BY <3>1, <3>2, <1>1, <1>7
    <3>3. CASE k >= i
      <4>1. k + 1 \in 1..Len(t) /\ t[k + 1] = s[k]
        BY <3>3, <1>1, <1>7
      <4>2. QED
        BY <4>1, <3>1
    <3>4. QED
      BY <3>2, <3>3, <1>1
  <2>3. QED
    BY <2>1, <2>2
<1>10. QED
  BY <1>1, <1>5, <1>7, <1>8, <1>9 DEF Lists, t

Columns == {"type", "problem", "text", "marks", "position"}

\* What is written of a question that moves.
At(position) == [f \in {"position"} |-> position]

\* A question that fits an exam of this kind.
GoodRow(row, kind) ==
    /\ DOMAIN row = Columns
    /\ Authoring!TypeAllows(kind, row.type)
    /\ row.type = "OBJECTIVE" => row.problem = None

\* Questions numbered without gaps that fit the kind and hold each problem once.
GoodPaper(rows, kind) ==
    /\ IsFiniteSet(DOMAIN rows)
    /\ \A q \in DOMAIN rows : GoodRow(rows[q], kind)
    /\ {rows[q].position : q \in DOMAIN rows} = 0..(Cardinality(DOMAIN rows) - 1)
    /\ \A q, r \in DOMAIN rows :
          rows[q].problem = rows[r].problem => q = r \/ rows[q].problem = None

\* The paper of a sole administrator is good, and will be once the open request commits.
WellFormedInv ==
    /\ SettledInv
    /\ \A a : team = {a} /\ exam # None =>
          /\ GoodPaper(questions, exam.kind)
          /\ tx[a] # None =>
               GoodPaper(Authoring!Applied(tx[a]), Authoring!Over(exam, tx[a].columns).kind)

\* What the exam is before a request decides.
GoodNow ==
    /\ RowsAreFunctions
    /\ exam # None
    /\ GoodPaper(questions, exam.kind)

\* What a request leaves when it commits at once.
GoodThen(w) == GoodPaper(Authoring!Applied(w), Authoring!Over(exam, w.columns).kind)

\* A list of the questions numbers them.
LEMMA ListedPaper ==
  ASSUME NEW rows, NEW kind, NEW S, IsFiniteSet(S), DOMAIN rows = S, NEW s, Lists(s, S),
         \A q \in S : GoodRow(rows[q], kind) /\ rows[q].position = Authoring!Place(s, q) - 1,
         \A q, r \in S : rows[q].problem = rows[r].problem => q = r \/ rows[q].problem = None
  PROVE  GoodPaper(rows, kind)
<1>1. {rows[q].position : q \in S} = {Authoring!Place(s, q) - 1 : q \in S}
  OBVIOUS
<1>2. {rows[q].position : q \in S} = 0..(Cardinality(S) - 1)
  BY <1>1, PlacesAreANumbering
<1>3. QED
  BY <1>2 DEF GoodPaper

\* A row whose position at most is changed.
LEMMA MovedRow ==
  ASSUME NEW row, NEW kind, GoodRow(row, kind), NEW position
  PROVE  /\ GoodRow(Authoring!Over(row, At(position)), kind)
         /\ Authoring!Over(row, At(position)).position = position
         /\ Authoring!Over(row, At(position)).problem = row.problem
<1> DEFINE moved == Authoring!Over(row, At(position))
<1>1. DOMAIN row = Columns
  BY DEF GoodRow
<1>2. /\ DOMAIN moved = Columns
      /\ moved.type = row.type /\ moved.problem = row.problem /\ moved.position = position
  BY <1>1 DEF Authoring!Over, Columns, At
<1>3. GoodRow(moved, kind)
  BY <1>2 DEF GoodRow
<1>4. QED
  BY <1>2, <1>3

LEMMA NextIsTheNumber ==
  ASSUME GoodNow
  PROVE  Authoring!NextPosition = Cardinality(DOMAIN questions)
<1> DEFINE n == Cardinality(DOMAIN questions)
           P == {Authoring!Position(q) : q \in DOMAIN questions}
<1>1. IsFiniteSet(DOMAIN questions) /\ P = 0..(n - 1)
  BY DEF GoodNow, GoodPaper, Authoring!Position
<1>2. n \in Nat /\ (n = 0 <=> DOMAIN questions = {})
  BY <1>1, FS_CardinalityType, FS_EmptySet
<1>3. CASE DOMAIN questions = {}
  BY <1>2, <1>3 DEF Authoring!NextPosition, Authoring!Rows
<1>4. CASE DOMAIN questions # {}
  <2> HIDE DEF P, n
  <2>1. n >= 1
    BY <1>2, <1>4
  <2>2. n - 1 \in P /\ \A y \in P : n - 1 >= y
    BY <1>1, <1>2, <2>1
  <2>3. \A x \in P : x \in Int
    BY <1>1, <1>2
  <2>4. Authoring!Max(P) \in P /\ \A y \in P : Authoring!Max(P) >= y
    BY <2>2 DEF Authoring!Max
  <2>5. Authoring!Max(P) >= n - 1 /\ n - 1 >= Authoring!Max(P)
    BY <2>2, <2>4
  <2>6. Authoring!Max(P) = n - 1
    BY <2>2, <2>3, <2>4, <2>5
  <2>7. Authoring!NextPosition = Authoring!Max(P) + 1
    BY <1>4 DEF Authoring!NextPosition, Authoring!Rows, P
  <2>8. QED
    BY <2>6, <2>7, <1>2 DEF n
<1>5. QED
  BY <1>3, <1>4

\* One question more, in the last place.
LEMMA AddedPaper ==
  ASSUME GoodNow, NEW q, q \notin DOMAIN questions, NEW row, GoodRow(row, exam.kind),
         row.position = Cardinality(DOMAIN questions),
         row.problem = None \/ \A r \in DOMAIN questions : questions[r].problem # row.problem
  PROVE  GoodThen([Authoring!NoWrite EXCEPT !.rows = [x \in {q} |-> row]])
<1> DEFINE w == [Authoring!NoWrite EXCEPT !.rows = [x \in {q} |-> row]]
           rows == Authoring!Applied(w)
           S == DOMAIN questions \cup {q}
           n == Cardinality(DOMAIN questions)
<1>1. w.rows = [x \in {q} |-> row] /\ w.gone = {} /\ w.columns = <<>>
  BY DEF Authoring!NoWrite
<1>2. rows = [x \in S |-> IF x = q THEN row ELSE questions[x]]
  <2>1. DOMAIN w.rows = {q}
    BY <1>1
  <2>2. (Authoring!Rows \cup DOMAIN w.rows) \ w.gone = S
    BY <1>1, <2>1 DEF Authoring!Rows
  <2> HIDE DEF w, S
  <2>3. rows = [x \in S |-> IF x \notin {q} THEN questions[x]
                            ELSE IF x \in DOMAIN questions
                            THEN Authoring!Over(questions[x], w.rows[x]) ELSE w.rows[x]]
    BY <2>1, <2>2 DEF Authoring!Applied, Authoring!Rows
  <2>4. \A x \in S : rows[x] = IF x = q THEN row ELSE questions[x]
    BY <1>1, <2>3
  <2>5. QED
    BY <2>3, <2>4
<1>3. IsFiniteSet(DOMAIN questions) /\ GoodPaper(questions, exam.kind)
  BY DEF GoodNow, GoodPaper
<1>4. n \in Nat /\ IsFiniteSet(S) /\ Cardinality(S) = n + 1
  BY <1>3, FS_CardinalityType, FS_AddElement
<1>5. Authoring!Over(exam, w.columns).kind = exam.kind
  <2>1. DOMAIN exam = {"status", "kind", "total"}
    BY DEF GoodNow, RowsAreFunctions
  <2>2. QED
    BY <1>1, <2>1 DEF Authoring!Over
<1> HIDE DEF rows, w
<1>6. /\ DOMAIN rows = S /\ rows[q] = row
      /\ \A x \in DOMAIN questions : rows[x] = questions[x]
  BY <1>2
<1>7. \A x \in S : GoodRow(rows[x], exam.kind)
  BY <1>3, <1>6 DEF GoodPaper
<1>8. {questions[x].position : x \in DOMAIN questions} = 0..(n - 1)
  BY <1>3 DEF GoodPaper
<1>9. {rows[x].position : x \in S} = 0..n
  <2>1. {rows[x].position : x \in S} = {questions[x].position : x \in DOMAIN questions} \cup {n}
    BY <1>6
  <2>2. QED
    BY <2>1, <1>8, <1>4
<1>10. \A x, r \in DOMAIN questions :
          questions[x].problem = questions[r].problem => x = r \/ questions[x].problem = None
  BY <1>3 DEF GoodPaper
<1>11. \A x, r \in S : rows[x].problem = rows[r].problem => x = r \/ rows[x].problem = None
  BY <1>6, <1>10
<1>12. GoodPaper(rows, exam.kind)
  <2> HIDE DEF S
  <2>1. Cardinality(DOMAIN rows) - 1 = n
    BY <1>4, <1>6
  <2>2. {rows[x].position : x \in DOMAIN rows} = 0..(Cardinality(DOMAIN rows) - 1)
    BY <1>6, <1>9, <2>1
  <2>3. QED
    BY <1>4, <1>6, <1>7, <1>11, <2>2 DEF GoodPaper
<1>13. QED
  BY <1>5, <1>12 DEF GoodThen, rows, w

\* No columns of the exam: its kind stays.
LEMMA KindStays ==
  ASSUME GoodNow, NEW columns, "kind" \notin DOMAIN columns
  PROVE  Authoring!Over(exam, columns).kind = exam.kind
<1>1. DOMAIN exam = {"status", "kind", "total"}
  BY DEF GoodNow, RowsAreFunctions
<1>2. QED
  BY <1>1 DEF Authoring!Over

\* A question whose wording or marks at most are changed.
LEMMA RewordedPaper ==
  ASSUME GoodNow, NEW q \in DOMAIN questions, NEW columns, DOMAIN columns \subseteq {"text", "marks"}
  PROVE  GoodThen([Authoring!NoWrite EXCEPT !.rows = [x \in {q} |-> columns]])
<1> DEFINE w == [Authoring!NoWrite EXCEPT !.rows = [x \in {q} |-> columns]]
           rows == Authoring!Applied(w)
           S == DOMAIN questions
<1>1. w.rows = [x \in {q} |-> columns] /\ w.gone = {} /\ w.columns = <<>>
  BY DEF Authoring!NoWrite
<1>2. GoodPaper(questions, exam.kind)
  BY DEF GoodNow
<1>3. Authoring!Over(exam, w.columns).kind = exam.kind
  BY <1>1, KindStays
<1> HIDE DEF w
<1>4. DOMAIN w.rows = {q}
  BY <1>1
<1>5. (Authoring!Rows \cup DOMAIN w.rows) \ w.gone = S
  BY <1>1, <1>4 DEF Authoring!Rows
<1>6. /\ DOMAIN rows = S
      /\ rows[q] = Authoring!Over(questions[q], columns)
      /\ \A x \in S : x # q => rows[x] = questions[x]
  BY <1>1, <1>4, <1>5 DEF Authoring!Applied, Authoring!Rows
<1> HIDE DEF rows
<1>7. GoodRow(questions[q], exam.kind)
  BY <1>2 DEF GoodPaper
<1>8. /\ DOMAIN rows[q] = Columns
      /\ rows[q].type = questions[q].type
      /\ rows[q].problem = questions[q].problem
      /\ rows[q].position = questions[q].position
  <2>1. DOMAIN questions[q] = Columns
    BY <1>7 DEF GoodRow
  <2>2. QED
    BY <1>6, <2>1 DEF Authoring!Over, Columns
<1>9. GoodRow(rows[q], exam.kind)
  BY <1>7, <1>8 DEF GoodRow
<1>10. \A x \in S : GoodRow(rows[x], exam.kind)
  BY <1>2, <1>6, <1>9 DEF GoodPaper
<1>11. \A x \in S : rows[x].position = questions[x].position /\ rows[x].problem = questions[x].problem
  BY <1>6, <1>8
<1>12. {rows[x].position : x \in S} = {questions[x].position : x \in S}
  BY <1>11
<1>13. GoodPaper(rows, exam.kind)
  BY <1>2, <1>6, <1>10, <1>11, <1>12 DEF GoodPaper
<1>14. QED
  BY <1>3, <1>13 DEF GoodThen, rows, w

\* A question that moves to its place in a list, or is there.
LEMMA MovedQuestion ==
  ASSUME GoodNow, NEW s, NEW w, NEW q \in DOMAIN questions, q \notin w.gone,
         q \in DOMAIN w.rows => w.rows[q] = At(Authoring!Place(s, q) - 1),
         q \notin DOMAIN w.rows => questions[q].position = Authoring!Place(s, q) - 1
  PROVE  /\ GoodRow(Authoring!Applied(w)[q], exam.kind)
         /\ Authoring!Applied(w)[q].position = Authoring!Place(s, q) - 1
         /\ Authoring!Applied(w)[q].problem = questions[q].problem
<1>1. GoodRow(questions[q], exam.kind)
  BY DEF GoodNow, GoodPaper
<1>2. q \in (Authoring!Rows \cup DOMAIN w.rows) \ w.gone /\ q \in Authoring!Rows
  BY DEF Authoring!Rows
<1>3. CASE q \in DOMAIN w.rows
  <2> DEFINE position == Authoring!Place(s, q) - 1
  <2>1. Authoring!Applied(w)[q] = Authoring!Over(questions[q], At(position))
    BY <1>2, <1>3 DEF Authoring!Applied
  <2> HIDE DEF position
  <2>2. /\ GoodRow(Authoring!Over(questions[q], At(position)), exam.kind)
        /\ Authoring!Over(questions[q], At(position)).position = position
        /\ Authoring!Over(questions[q], At(position)).problem
             = questions[q].problem
    BY <1>1, MovedRow
  <2>3. QED
    BY <2>1, <2>2 DEF position
<1>4. CASE q \notin DOMAIN w.rows
  <2>1. Authoring!Applied(w)[q] = questions[q]
    BY <1>2, <1>4 DEF Authoring!Applied
  <2>2. QED
    BY <1>1, <1>4, <2>1
<1>5. QED
  BY <1>3, <1>4

\* What renumbering writes of a question of the list, and of which.
LEMMA RenumberedRow ==
  ASSUME NEW S, NEW s, Lists(s, S), NEW q \in DOMAIN questions, q \in S
  PROVE  /\ q \in DOMAIN Authoring!Renumbered(s) =>
              Authoring!Renumbered(s)[q] = At(Authoring!Place(s, q) - 1)
         /\ q \notin DOMAIN Authoring!Renumbered(s) =>
              questions[q].position = Authoring!Place(s, q) - 1
<1>1. DOMAIN s = 1..Len(s) /\ \E i \in 1..Len(s) : s[i] = q
  BY DEF Lists
<1>2. q \in Authoring!Rows \cap Authoring!ToSet(s)
  BY <1>1 DEF Authoring!Rows, Authoring!ToSet
<1> DEFINE R == {r \in Authoring!Rows \cap Authoring!ToSet(s) :
                    Authoring!Position(r) # Authoring!Place(s, r) - 1}
<1>3. Authoring!Renumbered(s) = [x \in R |-> [position |-> Authoring!Place(s, x) - 1]]
  BY DEF Authoring!Renumbered
<1>4. q \notin R => questions[q].position = Authoring!Place(s, q) - 1
  BY <1>2 DEF Authoring!Position
<1> HIDE DEF R
<1>5. q \in R => Authoring!Renumbered(s)[q] = At(Authoring!Place(s, q) - 1)
  BY <1>3 DEF At
<1>6. DOMAIN Authoring!Renumbered(s) = R
  BY <1>3
<1>7. QED
  BY <1>4, <1>5, <1>6

\* The questions that are left, and a new order of all of them.
LEMMA RenumberedPaper ==
  ASSUME GoodNow, NEW w, NEW s, Lists(s, DOMAIN questions \ w.gone),
         w.columns = <<>>, DOMAIN w.rows \subseteq DOMAIN questions \ w.gone,
         \A q \in DOMAIN questions \ w.gone :
            /\ q \in DOMAIN w.rows =>
                 w.rows[q] = At(Authoring!Place(s, q) - 1)
            /\ q \notin DOMAIN w.rows => questions[q].position = Authoring!Place(s, q) - 1
  PROVE  GoodThen(w)
<1> DEFINE rows == Authoring!Applied(w)
           S == DOMAIN questions \ w.gone
<1>1. GoodPaper(questions, exam.kind) /\ IsFiniteSet(DOMAIN questions)
  BY DEF GoodNow, GoodPaper
<1>2. IsFiniteSet(S)
  BY <1>1, FS_Subset
<1>3. DOMAIN rows = S
  BY DEF Authoring!Applied, Authoring!Rows
<1>4. ASSUME NEW q \in S
      PROVE  /\ GoodRow(rows[q], exam.kind) /\ rows[q].position = Authoring!Place(s, q) - 1
             /\ rows[q].problem = questions[q].problem
  BY MovedQuestion
<1> HIDE DEF rows
<1>5. \A q, r \in S : rows[q].problem = rows[r].problem => q = r \/ rows[q].problem = None
  BY <1>1, <1>4 DEF GoodPaper
<1> HIDE DEF S
<1>6. \A q \in S : GoodRow(rows[q], exam.kind) /\ rows[q].position = Authoring!Place(s, q) - 1
  BY <1>4
<1>7. Lists(s, S)
  BY DEF S
<1>8. GoodPaper(rows, exam.kind)
  BY <1>2, <1>3, <1>5, <1>6, <1>7, ListedPaper
<1>9. Authoring!Over(exam, w.columns).kind = exam.kind
  BY KindStays
<1>10. QED
  BY <1>8, <1>9 DEF GoodThen, rows

LEMMA DeletedPaper ==
  ASSUME GoodNow, NEW a, NEW q, Authoring!DeleteQuestion(a, q)
  PROVE  \E w : IsWrite(w) /\ Authoring!Decide(a, w) /\ GoodThen(w)
<1> DEFINE S == DOMAIN questions
           Written(s) == [Authoring!NoWrite EXCEPT !.gone = {q},
                            !.rows = Authoring!Renumbered(Authoring!RemoveAt(s, Authoring!Place(s, q)))]
<1>1. q \in S /\ IsFiniteSet(S)
  BY DEF Authoring!DeleteQuestion, Authoring!Rows, GoodNow, GoodPaper
<1>2. PICK s \in Authoring!Listings : Authoring!Decide(a, Written(s))
  BY DEF Authoring!DeleteQuestion
<1>3. s \in Authoring!SetToSeqs(S)
  BY <1>2 DEF Authoring!Listings, Authoring!Rows
<1>4. Lists(s, S)
  BY <1>1, <1>3, ListsOfASet
<1> DEFINE t == Authoring!RemoveAt(s, Authoring!Place(s, q))
           w == Written(s)
<1>5. Lists(t, S \ {q})
  BY <1>1, <1>4, ListWithout
<1> HIDE DEF t
<1>6. IsWrite(w) /\ w.gone = {q} /\ w.columns = <<>> /\ w.rows = Authoring!Renumbered(t)
  BY DEF IsWrite, Authoring!NoWrite, t
<1> HIDE DEF w
<1>7. \A x \in S \ {q} :
         /\ x \in DOMAIN Authoring!Renumbered(t) =>
              Authoring!Renumbered(t)[x] = At(Authoring!Place(t, x) - 1)
         /\ x \notin DOMAIN Authoring!Renumbered(t) =>
              questions[x].position = Authoring!Place(t, x) - 1
  <2> SUFFICES ASSUME NEW x \in DOMAIN questions, x # q
               PROVE  /\ x \in DOMAIN Authoring!Renumbered(t) =>
                           Authoring!Renumbered(t)[x]
                             = At(Authoring!Place(t, x) - 1)
                      /\ x \notin DOMAIN Authoring!Renumbered(t) =>
                           questions[x].position = Authoring!Place(t, x) - 1
    OBVIOUS
  <2> DEFINE T == S \ {q}
  <2>1. Lists(t, T) /\ x \in T
    BY <1>5
  <2> HIDE DEF T
  <2>2. QED
    BY <2>1, RenumberedRow
<1>8. DOMAIN Authoring!Renumbered(t) \subseteq S \ {q}
  <2>1. \A i \in DOMAIN t : t[i] \in S \ {q}
    BY <1>5 DEF Lists
  <2>2. Authoring!ToSet(t) \subseteq S \ {q}
    BY <2>1 DEF Authoring!ToSet
  <2>3. DOMAIN Authoring!Renumbered(t) \subseteq Authoring!ToSet(t)
    BY DEF Authoring!Renumbered
  <2>4. QED
    BY <2>2, <2>3
<1>9. GoodThen(w)
  <2>1. Lists(t, DOMAIN questions \ w.gone) /\ DOMAIN w.rows \subseteq DOMAIN questions \ w.gone
    BY <1>5, <1>6, <1>8
  <2>2. \A x \in DOMAIN questions \ w.gone :
           /\ x \in DOMAIN w.rows =>
                w.rows[x] = At(Authoring!Place(t, x) - 1)
           /\ x \notin DOMAIN w.rows => questions[x].position = Authoring!Place(t, x) - 1
    BY <1>6, <1>7
  <2>3. QED
    BY <1>6, <2>1, <2>2, RenumberedPaper
<1>10. QED
  BY <1>2, <1>6, <1>9 DEF w

LEMMA ReorderedPaper ==
  ASSUME GoodNow, NEW a, NEW s, Authoring!Reorder(a, s)
  PROVE  \E w : IsWrite(w) /\ Authoring!Decide(a, w) /\ GoodThen(w)
<1> DEFINE S == DOMAIN questions
           rows == [q \in S |-> [position |-> Authoring!Place(s, q) - 1]]
           w == [Authoring!NoWrite EXCEPT !.rows = rows]
<1>1. IsFiniteSet(S)
  BY DEF GoodNow, GoodPaper
<1>2. s \in Authoring!SetToSeqs(S) /\ Authoring!Decide(a, w)
  BY DEF Authoring!Reorder, Authoring!Rows, Authoring!WriteRows
<1>3. Lists(s, S)
  BY <1>1, <1>2, ListsOfASet
<1>4. IsWrite(w) /\ w.gone = {} /\ w.columns = <<>> /\ w.rows = rows
  BY DEF IsWrite, Authoring!NoWrite
<1> HIDE DEF w
<1>5. \A q \in S : rows[q] = At(Authoring!Place(s, q) - 1)
  BY DEF At
<1>6. DOMAIN rows = S
  OBVIOUS
<1> HIDE DEF rows
<1>7. S \ w.gone = S
  BY <1>4
<1>8. GoodThen(w)
  <2>1. Lists(s, DOMAIN questions \ w.gone) /\ DOMAIN w.rows \subseteq DOMAIN questions \ w.gone
    BY <1>3, <1>4, <1>6, <1>7
  <2>2. \A x \in DOMAIN questions \ w.gone :
           /\ x \in DOMAIN w.rows =>
                w.rows[x] = At(Authoring!Place(s, x) - 1)
           /\ x \notin DOMAIN w.rows => questions[x].position = Authoring!Place(s, x) - 1
    BY <1>4, <1>5, <1>6, <1>7
  <2>3. QED
    BY <1>4, <2>1, <2>2, RenumberedPaper
<1>9. QED
  BY <1>2, <1>4, <1>8

LEMMA DuplicatedPaper ==
  ASSUME GoodNow, NEW a, NEW q, NEW n, Authoring!DuplicateQuestion(a, q, n)
  PROVE  \E w : IsWrite(w) /\ Authoring!Decide(a, w) /\ GoodThen(w)
<1> DEFINE Q == DOMAIN questions
           S == Q \cup {n}
           before == {r \in Q : Authoring!Position(r) <= Authoring!Position(q)}
           List(s) == Authoring!InsertAt(s, Authoring!Cardinality(before) + 1, n)
           Rows(t) == [r \in {n} \cup (Q \ before) \cup DOMAIN Authoring!Renumbered(t) |->
                          IF r = n
                          THEN [questions[q] EXCEPT !.position = Authoring!Place(t, n) - 1]
                          ELSE [position |-> Authoring!Place(t, r) - 1]]
<1>1. /\ q \in Q /\ n \notin Q /\ IsFiniteSet(Q)
      /\ questions[q].type = "OBJECTIVE"
  BY DEF Authoring!DuplicateQuestion, Authoring!Fresh, Authoring!Rows, GoodNow, GoodPaper
<1>2. PICK s \in Authoring!Listings : Authoring!WriteRows(a, Rows(List(s)))
  BY DEF Authoring!DuplicateQuestion, Authoring!Rows
<1>3. s \in Authoring!SetToSeqs(Q)
  BY <1>2 DEF Authoring!Listings, Authoring!Rows
<1>4. Lists(s, Q)
  BY <1>1, <1>3, ListsOfASet
<1>5. Authoring!Cardinality(before) + 1 \in 1..(Cardinality(Q) + 1)
  <2>1. before \subseteq Q
    OBVIOUS
  <2> HIDE DEF before
  <2>2. IsFiniteSet(before) /\ Cardinality(before) <= Cardinality(Q)
    BY <1>1, <2>1, FS_Subset
  <2>3. Cardinality(before) \in Nat /\ Cardinality(Q) \in Nat
    BY <1>1, <2>2, FS_CardinalityType
  <2>4. Authoring!Cardinality(before) = Cardinality(before)
    BY SameCount
  <2>5. QED
    BY <2>2, <2>3, <2>4
<1> DEFINE t == List(s)
           w == [Authoring!NoWrite EXCEPT !.rows = Rows(t)]
<1>6. Lists(t, S)
  BY <1>1, <1>4, <1>5, ListWith
<1> HIDE DEF t, before
<1>7. IsWrite(w) /\ w.gone = {} /\ w.columns = <<>> /\ w.rows = Rows(t)
  BY DEF IsWrite, Authoring!NoWrite
<1>8. Authoring!Decide(a, w)
  BY <1>2 DEF Authoring!WriteRows, t
<1> HIDE DEF w
<1>9. DOMAIN Authoring!Renumbered(t) \subseteq Q
  BY DEF Authoring!Renumbered, Authoring!Rows
<1>10. /\ DOMAIN w.rows = {n} \cup (Q \ before) \cup DOMAIN Authoring!Renumbered(t)
       /\ w.rows[n] = [questions[q] EXCEPT !.position = Authoring!Place(t, n) - 1]
       /\ \A r \in Q : r \in DOMAIN w.rows =>
             w.rows[r] = At(Authoring!Place(t, r) - 1)
  <2> DEFINE D == {n} \cup (Q \ before) \cup DOMAIN Authoring!Renumbered(t)
  <2>1. w.rows = [r \in D |-> IF r = n
                     THEN [questions[q] EXCEPT !.position = Authoring!Place(t, n) - 1]
                     ELSE [position |-> Authoring!Place(t, r) - 1]]
    BY <1>7
  <2>2. n \in D
    OBVIOUS
  <2> HIDE DEF D
  <2>3. DOMAIN w.rows = D
    BY <2>1
  <2>4. w.rows[n] = [questions[q] EXCEPT !.position = Authoring!Place(t, n) - 1]
    BY <2>1, <2>2
  <2>5. \A r \in D : r # n => w.rows[r] = [position |-> Authoring!Place(t, r) - 1]
    BY <2>1
  <2>6. \A r \in Q : r \in DOMAIN w.rows =>
           w.rows[r] = At(Authoring!Place(t, r) - 1)
    BY <1>1, <2>3, <2>5 DEF At
  <2>7. QED
    BY <2>3, <2>4, <2>6 DEF D
<1>11. \A r \in Q : r \notin DOMAIN w.rows => questions[r].position = Authoring!Place(t, r) - 1
  <2> SUFFICES ASSUME NEW r \in Q, r \notin DOMAIN w.rows
               PROVE  questions[r].position = Authoring!Place(t, r) - 1
    OBVIOUS
  <2>1. r \in S /\ r \notin DOMAIN Authoring!Renumbered(t)
    BY <1>10
  <2> HIDE DEF S
  <2>2. Lists(t, S) /\ r \in DOMAIN questions
    BY <1>6
  <2>3. QED
    BY ONLY <2>1, <2>2, RenumberedRow
<1> DEFINE rows == Authoring!Applied(w)
<1>12. \A r \in Q :
          /\ GoodRow(rows[r], exam.kind) /\ rows[r].position = Authoring!Place(t, r) - 1
          /\ rows[r].problem = questions[r].problem
  <2> SUFFICES ASSUME NEW r \in DOMAIN questions
               PROVE  /\ GoodRow(rows[r], exam.kind)
                      /\ rows[r].position = Authoring!Place(t, r) - 1
                      /\ rows[r].problem = questions[r].problem
    OBVIOUS
  <2>1. r \notin w.gone
    BY <1>7
  <2>2. r \in DOMAIN w.rows => w.rows[r] = At(Authoring!Place(t, r) - 1)
    BY <1>10
  <2>3. r \notin DOMAIN w.rows => questions[r].position = Authoring!Place(t, r) - 1
    BY <1>11
  <2> HIDE DEF rows
  <2>4. /\ GoodRow(Authoring!Applied(w)[r], exam.kind)
        /\ Authoring!Applied(w)[r].position = Authoring!Place(t, r) - 1
        /\ Authoring!Applied(w)[r].problem = questions[r].problem
    BY ONLY GoodNow, r \in DOMAIN questions, <2>1, <2>2, <2>3, MovedQuestion
  <2>5. QED
    BY <2>4 DEF rows
<1>13. DOMAIN rows = S
  <2>1. (Authoring!Rows \cup DOMAIN w.rows) \ w.gone = S
    BY <1>7, <1>9, <1>10 DEF Authoring!Rows
  <2>2. QED
    BY <2>1 DEF Authoring!Applied
<1>14. rows[n] = [questions[q] EXCEPT !.position = Authoring!Place(t, n) - 1]
  BY <1>1, <1>10, <1>7 DEF Authoring!Applied, Authoring!Rows
<1> HIDE DEF rows
<1>15. GoodPaper(questions, exam.kind)
  BY DEF GoodNow
<1>16. GoodRow(questions[q], exam.kind)
  BY <1>1, <1>15 DEF GoodPaper
<1>17. /\ DOMAIN rows[n] = Columns
       /\ rows[n].type = questions[q].type /\ rows[n].problem = questions[q].problem
       /\ rows[n].position = Authoring!Place(t, n) - 1
  BY <1>14, <1>16 DEF GoodRow, Columns
<1>18. GoodRow(rows[n], exam.kind) /\ rows[n].problem = None
  BY <1>1, <1>16, <1>17 DEF GoodRow
<1>19. \A x \in S : GoodRow(rows[x], exam.kind) /\ rows[x].position = Authoring!Place(t, x) - 1
  BY <1>12, <1>17, <1>18
<1>20. \A x, r \in Q :
          questions[x].problem = questions[r].problem => x = r \/ questions[x].problem = None
  BY <1>15 DEF GoodPaper
<1>21. \A x, r \in S : rows[x].problem = rows[r].problem => x = r \/ rows[x].problem = None
  BY <1>12, <1>18, <1>20
<1>22. IsFiniteSet(S)
  BY <1>1, FS_AddElement
<1> HIDE DEF S
<1>23. GoodPaper(rows, exam.kind)
  BY <1>6, <1>13, <1>19, <1>21, <1>22, ListedPaper
<1>24. Authoring!Over(exam, w.columns).kind = exam.kind
  BY <1>7, KindStays
<1>25. QED
  BY <1>7, <1>8, <1>23, <1>24 DEF GoodThen, rows

LEMMA EarlyOrNot ==
  ASSUME NEW w, IsWrite(w), NEW early
  PROVE  GoodThen([w EXCEPT !.early = early]) <=> GoodThen(w)
<1> DEFINE new == [w EXCEPT !.early = early]
<1>1. new.rows = w.rows /\ new.gone = w.gone /\ new.columns = w.columns
  BY DEF IsWrite
<1> HIDE DEF new
<1>2. Authoring!Applied(new) = Authoring!Applied(w)
  BY <1>1 DEF Authoring!Applied
<1>3. QED
  BY <1>1, <1>2 DEF GoodThen, new

LEMMA GoodIsNow ==
  ASSUME WellFormedInv, NEW a, team = {a}, exam # None
  PROVE  GoodNow /\ (tx[a] # None => GoodThen(tx[a]))
  BY DEF WellFormedInv, SettledInv, GoodNow, GoodThen

\* A decision that would leave a good paper.
LEMMA DecidedGood ==
  ASSUME WellFormedInv, SettledInv', NEW p, NEW w, IsWrite(w), Authoring!Decide(p, w),
         team = {p} => GoodThen(w)
  PROVE  WellFormedInv'
<1> DEFINE new == [w EXCEPT !.early = attempts = {}]
<1>1. /\ exam # None
      /\ tx' = [tx EXCEPT ![p] = new]
      /\ UNCHANGED <<team, exam, questions, assigned, attempts>>
  BY DEF Authoring!Decide
<1>2. GoodThen(new) <=> GoodThen(w)
  BY EarlyOrNot
<1> HIDE DEF new
<1>3. ASSUME NEW a, team = {a}
      PROVE  /\ GoodPaper(questions, exam.kind)
             /\ tx'[a] # None =>
                  GoodPaper(Authoring!Applied(tx'[a]), Authoring!Over(exam, tx'[a].columns).kind)
  <2>1. GoodPaper(questions, exam.kind) /\ (tx[a] # None => GoodThen(tx[a]))
    BY <1>1, <1>3, GoodIsNow DEF GoodNow
  <2>2. a \in DOMAIN tx
    BY <1>3 DEF WellFormedInv, SettledInv, RowsAreFunctions, People
  <2>3. CASE a = p
    <3>1. tx'[a] = new
      BY <1>1, <2>2, <2>3
    <3>2. GoodThen(new)
      BY <1>2, <1>3, <2>3
    <3>3. QED
      BY <2>1, <3>1, <3>2 DEF GoodThen
  <2>4. CASE a # p
    <3>1. tx'[a] = tx[a]
      BY <1>1, <2>2, <2>4
    <3>2. QED
      BY <2>1, <3>1 DEF GoodThen
  <2>5. QED
    BY <2>3, <2>4
<1>4. ASSUME NEW a, team' = {a}, exam' # None
      PROVE  /\ GoodPaper(questions, exam.kind)'
             /\ (tx[a] # None)' =>
                  GoodPaper(Authoring!Applied(tx[a]), Authoring!Over(exam, tx[a].columns).kind)'
  <2>1. Authoring!Applied(tx[a])' = Authoring!Applied(tx'[a])
    BY <1>1 DEF Authoring!Applied, Authoring!Rows
  <2>2. (Authoring!Over(exam, tx[a].columns).kind)' = Authoring!Over(exam, tx'[a].columns).kind
    BY <1>1
  <2>3. team = {a}
    BY <1>1, <1>4
  <2>4. GoodPaper(questions, exam.kind)'
    BY <1>1, <1>3, <2>3
  <2>5. ASSUME (tx[a] # None)'
        PROVE  GoodPaper(Authoring!Applied(tx[a]), Authoring!Over(exam, tx[a].columns).kind)'
    <3>1. GoodPaper(Authoring!Applied(tx'[a]), Authoring!Over(exam, tx'[a].columns).kind)
      BY <1>3, <2>3, <2>5
    <3>2. GoodPaper(Authoring!Applied(tx[a])', (Authoring!Over(exam, tx[a].columns).kind)')
      BY <2>1, <2>2, <3>1
    <3>3. QED
      BY <3>2
  <2>6. QED
    BY <2>4, <2>5
<1>5. QED
  BY <1>4 DEF WellFormedInv

\* The invariant of the next state, said of what it is made of.
LEMMA WellFormedNext ==
  ASSUME SettledInv',
         ASSUME NEW a, team' = {a}, exam' # None
         PROVE  /\ GoodPaper(questions', exam'.kind)
                /\ tx'[a] # None =>
                     GoodPaper(Authoring!Applied(tx[a])', Authoring!Over(exam', tx'[a].columns).kind)
  PROVE  WellFormedInv'
  BY DEF WellFormedInv

\* A request without questions and without a kind leaves the paper good.
LEMMA PlainGood ==
  ASSUME GoodNow, NEW w, Plain(w)
  PROVE  GoodThen(w)
<1>1. w.rows = <<>> /\ w.gone = {} /\ w.columns \in {<<>>} \cup [status : Statuses]
  BY DEF Plain
<1>2. questions = [q \in DOMAIN questions |-> questions[q]]
  BY DEF GoodNow, RowsAreFunctions
<1>3. DOMAIN w.rows = {}
  BY <1>1
<1>4. (Authoring!Rows \cup DOMAIN w.rows) \ w.gone = DOMAIN questions
  BY <1>1, <1>3 DEF Authoring!Rows
<1>5. Authoring!Applied(w) = [q \in DOMAIN questions |-> questions[q]]
  BY <1>3, <1>4 DEF Authoring!Applied
<1>6. "kind" \notin DOMAIN w.columns
  <2>1. CASE w.columns = <<>>
    BY <2>1
  <2>2. CASE w.columns \in [status : Statuses]
    BY <2>2
  <2>3. QED
    BY <1>1, <2>1, <2>2
<1>7. Authoring!Over(exam, w.columns).kind = exam.kind
  BY <1>6, KindStays
<1>8. QED
  BY <1>2, <1>5, <1>7 DEF GoodThen, GoodNow

LEMMA CommitGood ==
  ASSUME WellFormedInv, SettledInv', NEW p \in People, Authoring!Commit(p)
  PROVE  WellFormedInv'
<1>1. /\ tx[p] # None /\ exam # None
      /\ tx' = [tx EXCEPT ![p] = None]
      /\ team' = team
  BY DEF Authoring!Commit
<1>2. SettledInv /\ DOMAIN tx = People /\ team \subseteq Writers
  BY DEF WellFormedInv, SettledInv, RowsAreFunctions
<1>3. ASSUME NEW a, team' = {a}, exam' # None
      PROVE  /\ GoodPaper(questions', exam'.kind)
             /\ tx'[a] # None =>
                  GoodPaper(Authoring!Applied(tx[a])', Authoring!Over(exam', tx'[a].columns).kind)
  <2>1. GoodNow /\ (tx[a] # None => GoodThen(tx[a]))
    BY <1>1, <1>3, GoodIsNow
  <2>2. ~tx[p].drops
    BY <1>3 DEF Authoring!Commit
  <2>3. /\ exam' = Authoring!Over(exam, tx[p].columns)
        /\ questions' = Authoring!Applied(tx[p])
    BY <2>2 DEF Authoring!Commit
  <2>4. a \in People
    BY <1>1, <1>2, <1>3 DEF People
  <2>5. CASE a = p
    <3>1. tx'[a] = None
      BY <1>1, <1>2, <2>4, <2>5
    <3>2. GoodThen(tx[p])
      BY <1>1, <2>1, <2>5
    <3>3. QED
      BY <2>3, <3>1, <3>2 DEF GoodThen
  <2>6. CASE a # p
    <3>1. tx'[a] = tx[a]
      BY <1>1, <1>2, <2>4, <2>6
    <3>2. Plain(tx[p])
      BY <1>1, <1>2, <1>3, <2>6 DEF SettledInv, PlainLate
    <3>3. questions' = questions /\ exam'.kind = exam.kind
      BY <1>2, <1>3, <3>2, PlainCommit
    <3>4. GoodPaper(questions', exam'.kind)
      BY <2>1, <3>3 DEF GoodNow
    <3>5. ASSUME tx'[a] # None
          PROVE  GoodPaper(Authoring!Applied(tx[a])', Authoring!Over(exam', tx'[a].columns).kind)
      <4>1. Authoring!Applied(tx[a])' = Authoring!Applied(tx[a])
        BY <3>1, <3>3 DEF Authoring!Applied, Authoring!Rows
      <4>2. Authoring!Over(exam', tx'[a].columns).kind = Authoring!Over(exam, tx[a].columns).kind
        <5>1. "kind" \in DOMAIN exam
          BY <1>1, <1>2 DEF SettledInv, RowsAreFunctions
        <5>2. DOMAIN exam' = DOMAIN exam
          BY <2>3 DEF Authoring!Over
        <5>3. QED
          BY <3>1, <3>3, <5>1, <5>2 DEF Authoring!Over
      <4>3. GoodThen(tx[a])
        BY <2>1, <3>1, <3>5
      <4>4. QED
        BY <4>1, <4>2, <4>3 DEF GoodThen
    <3>6. QED
      BY <3>4, <3>5
  <2>7. QED
    BY <2>5, <2>6
<1>4. QED
  BY <1>3, WellFormedNext

LEMMA RollBackGood ==
  ASSUME WellFormedInv, SettledInv', NEW p \in People, Authoring!RollBack(p)
  PROVE  WellFormedInv'
<1>1. tx' = [tx EXCEPT ![p] = None] /\ UNCHANGED <<team, exam, questions>>
  BY DEF Authoring!RollBack
<1>2. DOMAIN tx = People /\ team \subseteq Writers
  BY DEF WellFormedInv, SettledInv, RowsAreFunctions
<1>3. ASSUME NEW a, team' = {a}, exam' # None
      PROVE  /\ GoodPaper(questions', exam'.kind)
             /\ tx'[a] # None =>
                  GoodPaper(Authoring!Applied(tx[a])', Authoring!Over(exam', tx'[a].columns).kind)
  <2>1. GoodNow /\ (tx[a] # None => GoodThen(tx[a]))
    BY <1>1, <1>3, GoodIsNow
  <2>2. a \in People
    BY <1>1, <1>2, <1>3 DEF People
  <2>3. tx'[a] # None => tx'[a] = tx[a]
    BY <1>1, <1>2, <2>2
  <2>4. ASSUME tx'[a] # None
        PROVE  GoodPaper(Authoring!Applied(tx[a])', Authoring!Over(exam', tx'[a].columns).kind)
    <3>1. tx'[a] = tx[a]
      BY <2>3, <2>4
    <3>2. Authoring!Applied(tx[a])' = Authoring!Applied(tx[a])
      BY <1>1, <3>1 DEF Authoring!Applied, Authoring!Rows
    <3>3. GoodThen(tx[a])
      BY <2>1, <2>4, <3>1
    <3>4. QED
      BY <1>1, <3>1, <3>2, <3>3 DEF GoodThen
  <2>5. QED
    BY <1>1, <2>1, <2>4 DEF GoodNow
<1>4. QED
  BY <1>3, WellFormedNext

LEMMA UpdatedKind ==
  ASSUME GoodNow, NEW a, NEW kind, NEW total, Authoring!Update(a, kind, total)
  PROVE  \E w : IsWrite(w) /\ Authoring!Decide(a, w) /\ GoodThen(w)
<1> DEFINE fields == [kind |-> kind, total |-> total]
           columns == Authoring!Changed(exam, fields)
           w == [Authoring!NoWrite EXCEPT !.columns = columns]
<1>1. Authoring!Decide(a, w)
  BY DEF Authoring!Update, Authoring!WriteColumns
<1>2. IsWrite(w) /\ w.rows = <<>> /\ w.gone = {} /\ w.columns = columns
  BY DEF IsWrite, Authoring!NoWrite
<1> HIDE DEF w
<1>3. GoodPaper(questions, exam.kind) /\ questions = [q \in DOMAIN questions |-> questions[q]]
  BY DEF GoodNow, RowsAreFunctions
<1>4. DOMAIN exam = {"status", "kind", "total"}
  BY DEF GoodNow, RowsAreFunctions
<1>5. Authoring!Applied(w) = questions
  <2>1. DOMAIN w.rows = {}
    BY <1>2
  <2>2. (Authoring!Rows \cup DOMAIN w.rows) \ w.gone = DOMAIN questions
    BY <1>2, <2>1 DEF Authoring!Rows
  <2>3. Authoring!Applied(w) = [q \in DOMAIN questions |-> questions[q]]
    BY <2>1, <2>2 DEF Authoring!Applied
  <2>4. QED
    BY <1>3, <2>3
<1>6. Authoring!Over(exam, columns).kind = kind
  <2>1. DOMAIN fields = {"kind", "total"} /\ fields.kind = kind
    OBVIOUS
  <2> HIDE DEF fields
  <2>2. CASE exam.kind = kind
    <3>1. "kind" \notin DOMAIN columns
      BY <2>1, <2>2 DEF Authoring!Changed
    <3>2. QED
      BY <3>1, <2>2, KindStays
  <2>3. CASE exam.kind # kind
    <3>1. "kind" \in DOMAIN columns /\ columns["kind"] = kind
      BY <2>1, <2>3 DEF Authoring!Changed
    <3>2. QED
      BY <3>1, <1>4 DEF Authoring!Over
  <2>4. QED
    BY <2>2, <2>3
<1>7. \A q \in DOMAIN questions : Authoring!TypeAllows(kind, questions[q].type)
  BY <1>3 DEF Authoring!Update, Authoring!Rows, GoodPaper, GoodRow
<1>8. GoodPaper(questions, kind)
  BY <1>3, <1>7 DEF GoodPaper, GoodRow
<1>9. QED
  BY <1>1, <1>2, <1>5, <1>6, <1>8 DEF GoodThen

LEMMA AddedObjective ==
  ASSUME GoodNow, NEW a, NEW q, NEW text, NEW marks, Authoring!AddQuestion(a, q, text, marks)
  PROVE  \E w : IsWrite(w) /\ Authoring!Decide(a, w) /\ GoodThen(w)
<1> DEFINE row == [type |-> "OBJECTIVE", problem |-> None, text |-> text, marks |-> marks,
                   position |-> Authoring!NextPosition]
           w == [Authoring!NoWrite EXCEPT !.rows = [x \in {q} |-> row]]
<1>1. Authoring!Decide(a, w) /\ q \notin DOMAIN questions
  BY DEF Authoring!AddQuestion, Authoring!WriteRows, Authoring!Fresh, Authoring!Rows
<1>2. GoodRow(row, exam.kind)
  BY DEF Authoring!AddQuestion, GoodRow, Columns
<1>3. row.position = Cardinality(DOMAIN questions) /\ row.problem = None
  BY NextIsTheNumber
<1> HIDE DEF row
<1>4. GoodThen(w)
  BY <1>1, <1>2, <1>3, AddedPaper
<1>5. QED
  BY <1>1, <1>4, RowsAreAWrite

LEMMA AddedCoding ==
  ASSUME GoodNow, NEW a, NEW q, NEW problem, NEW text, NEW marks,
         Authoring!AddCodingQuestion(a, q, problem, text, marks)
  PROVE  \E w : IsWrite(w) /\ Authoring!Decide(a, w) /\ GoodThen(w)
<1> DEFINE row == [type |-> "CODING", problem |-> problem, text |-> text, marks |-> marks,
                   position |-> Authoring!NextPosition]
           w == [Authoring!NoWrite EXCEPT !.rows = [x \in {q} |-> row]]
<1>1. Authoring!Decide(a, w) /\ q \notin DOMAIN questions
  BY DEF Authoring!AddCodingQuestion, Authoring!WriteRows, Authoring!Fresh, Authoring!Rows
<1>2. GoodRow(row, exam.kind)
  BY DEF Authoring!AddCodingQuestion, GoodRow, Columns
<1>3. /\ row.position = Cardinality(DOMAIN questions)
      /\ \A r \in DOMAIN questions : questions[r].problem # row.problem
  BY NextIsTheNumber DEF Authoring!AddCodingQuestion, Authoring!Rows
<1> HIDE DEF row
<1>4. GoodThen(w)
  BY <1>1, <1>2, <1>3, AddedPaper
<1>5. QED
  BY <1>1, <1>4, RowsAreAWrite

LEMMA Reworded ==
  ASSUME GoodNow, NEW a, NEW q, NEW text, NEW marks, Authoring!UpdateQuestion(a, q, text, marks)
  PROVE  \E w : IsWrite(w) /\ Authoring!Decide(a, w) /\ GoodThen(w)
<1> DEFINE columns == Authoring!Changed(questions[q], [text |-> text, marks |-> marks])
           w == [Authoring!NoWrite EXCEPT !.rows = [x \in {q} |-> columns]]
<1>1. Authoring!Decide(a, w) /\ q \in DOMAIN questions
  BY DEF Authoring!UpdateQuestion, Authoring!WriteRows, Authoring!Rows
<1>2. DOMAIN columns \subseteq {"text", "marks"}
  BY DEF Authoring!Changed
<1> HIDE DEF columns
<1>3. GoodThen(w)
  BY <1>1, <1>2, RewordedPaper
<1>4. QED
  BY <1>1, <1>3, RowsAreAWrite

LEMMA Repinned ==
  ASSUME GoodNow, NEW a, NEW q, NEW text, Authoring!SetCodingVersion(a, q, text)
  PROVE  \E w : IsWrite(w) /\ Authoring!Decide(a, w) /\ GoodThen(w)
<1> DEFINE columns == [text |-> text]
           w == [Authoring!NoWrite EXCEPT !.rows = [x \in {q} |-> columns]]
<1>1. Authoring!Decide(a, w) /\ q \in DOMAIN questions
  BY DEF Authoring!SetCodingVersion, Authoring!WriteRows, Authoring!Rows
<1>2. DOMAIN columns \subseteq {"text", "marks"}
  OBVIOUS
<1> HIDE DEF columns
<1>3. GoodThen(w)
  BY <1>1, <1>2, RewordedPaper
<1>4. QED
  BY <1>1, <1>3, RowsAreAWrite

\* An exam that several administrators write is promised nothing.
LEMMA SeveralGood ==
  ASSUME WellFormedInv, SettledInv', NEW a \in team, NEW w, Authoring!Decide(a, w), ~GoodNow
  PROVE  WellFormedInv'
<1>1. exam # None /\ team' = team
  BY DEF Authoring!Decide
<1>2. \A b : team # {b}
  BY <1>1, GoodIsNow
<1>3. QED
  BY <1>1, <1>2 DEF WellFormedInv

\* Every edit of the team.
LEMMA EditGood ==
  ASSUME WellFormedInv, SettledInv', NEW a \in team, \E w : Authoring!Decide(a, w),
         GoodNow => \E w : IsWrite(w) /\ Authoring!Decide(a, w) /\ GoodThen(w)
  PROVE  WellFormedInv'
<1>1. CASE GoodNow
  BY <1>1, DecidedGood
<1>2. CASE ~GoodNow
  BY <1>2, SeveralGood
<1>3. QED
  BY <1>1, <1>2

\* A decision that leaves the questions and the kind.
LEMMA PlainDecision ==
  ASSUME WellFormedInv, SettledInv', NEW p, NEW w, IsWrite(w), Plain(w), Authoring!Decide(p, w)
  PROVE  WellFormedInv'
<1>1. exam # None
  BY DEF Authoring!Decide
<1>2. team = {p} => GoodNow
  BY <1>1, GoodIsNow
<1>3. team = {p} => GoodThen(w)
  BY <1>2, PlainGood
<1>4. QED
  BY <1>3, DecidedGood

\* Every step of the authoring scene keeps the invariant.
LEMMA WellFormedStep ==
  ASSUME WellFormedInv, Authoring!Next
  PROVE  WellFormedInv'
<1>1. SettledInv'
  BY AuthoringSettles DEF WellFormedInv
<1>2. ASSUME NEW a \in team, NEW kind, NEW total,
             Authoring!Update(a, kind, total)
      PROVE  WellFormedInv'
  <2>1. \E w : Authoring!Decide(a, w)
    BY <1>2 DEF Authoring!Update, Authoring!WriteColumns
  <2>2. GoodNow => \E w : IsWrite(w) /\ Authoring!Decide(a, w) /\ GoodThen(w)
    BY <1>2, UpdatedKind
  <2>3. QED
    BY <1>1, <2>1, <2>2, EditGood
<1>3. ASSUME NEW a \in team, NEW q, NEW text, NEW marks,
             Authoring!AddQuestion(a, q, text, marks)
      PROVE  WellFormedInv'
  <2>1. \E w : Authoring!Decide(a, w)
    BY <1>3 DEF Authoring!AddQuestion, Authoring!WriteRows
  <2>2. GoodNow => \E w : IsWrite(w) /\ Authoring!Decide(a, w) /\ GoodThen(w)
    BY <1>3, AddedObjective
  <2>3. QED
    BY <1>1, <2>1, <2>2, EditGood
<1>4. ASSUME NEW a \in team, NEW q, NEW problem, NEW text, NEW marks,
             Authoring!AddCodingQuestion(a, q, problem, text, marks)
      PROVE  WellFormedInv'
  <2>1. \E w : Authoring!Decide(a, w)
    BY <1>4 DEF Authoring!AddCodingQuestion, Authoring!WriteRows
  <2>2. GoodNow => \E w : IsWrite(w) /\ Authoring!Decide(a, w) /\ GoodThen(w)
    BY <1>4, AddedCoding
  <2>3. QED
    BY <1>1, <2>1, <2>2, EditGood
<1>5. ASSUME NEW a \in team, NEW q, NEW text, NEW marks,
             Authoring!UpdateQuestion(a, q, text, marks)
      PROVE  WellFormedInv'
  <2>1. \E w : Authoring!Decide(a, w)
    BY <1>5 DEF Authoring!UpdateQuestion, Authoring!WriteRows
  <2>2. GoodNow => \E w : IsWrite(w) /\ Authoring!Decide(a, w) /\ GoodThen(w)
    BY <1>5, Reworded
  <2>3. QED
    BY <1>1, <2>1, <2>2, EditGood
<1>6. ASSUME NEW a \in team, NEW q, NEW text,
             Authoring!SetCodingVersion(a, q, text)
      PROVE  WellFormedInv'
  <2>1. \E w : Authoring!Decide(a, w)
    BY <1>6 DEF Authoring!SetCodingVersion, Authoring!WriteRows
  <2>2. GoodNow => \E w : IsWrite(w) /\ Authoring!Decide(a, w) /\ GoodThen(w)
    BY <1>6, Repinned
  <2>3. QED
    BY <1>1, <2>1, <2>2, EditGood
<1>7. ASSUME NEW a \in team, NEW q,
             Authoring!DeleteQuestion(a, q)
      PROVE  WellFormedInv'
  <2>1. \E w : Authoring!Decide(a, w)
    BY <1>7 DEF Authoring!DeleteQuestion
  <2>2. GoodNow => \E w : IsWrite(w) /\ Authoring!Decide(a, w) /\ GoodThen(w)
    BY <1>7, DeletedPaper
  <2>3. QED
    BY <1>1, <2>1, <2>2, EditGood
<1>8. ASSUME NEW a \in team, NEW q, NEW n,
             Authoring!DuplicateQuestion(a, q, n)
      PROVE  WellFormedInv'
  <2>1. \E w : Authoring!Decide(a, w)
    BY <1>8 DEF Authoring!DuplicateQuestion, Authoring!WriteRows
  <2>2. GoodNow => \E w : IsWrite(w) /\ Authoring!Decide(a, w) /\ GoodThen(w)
    BY <1>8, DuplicatedPaper
  <2>3. QED
    BY <1>1, <2>1, <2>2, EditGood
<1>9. ASSUME NEW a \in team, NEW s,
             Authoring!Reorder(a, s)
      PROVE  WellFormedInv'
  <2>1. \E w : Authoring!Decide(a, w)
    BY <1>9 DEF Authoring!Reorder, Authoring!WriteRows
  <2>2. GoodNow => \E w : IsWrite(w) /\ Authoring!Decide(a, w) /\ GoodThen(w)
    BY <1>9, ReorderedPaper
  <2>3. QED
    BY <1>1, <2>1, <2>2, EditGood
<1>10. ASSUME NEW a \in team, NEW status \in Statuses,
              Authoring!WriteColumns(a, [status |-> status])
       PROVE  WellFormedInv'
  <2> DEFINE w == [Authoring!NoWrite EXCEPT !.columns = [status |-> status]]
  <2>1. Authoring!Decide(a, w)
    BY <1>10 DEF Authoring!WriteColumns
  <2>2. IsWrite(w)
    BY ColumnsAreAWrite
  <2>3. Plain(w)
    BY DEF Plain, Authoring!NoWrite
  <2> HIDE DEF w
  <2>4. QED
    BY <1>1, <2>1, <2>2, <2>3, PlainDecision
<1>11. ASSUME NEW a \in team, Authoring!MarkReady(a)
       PROVE  WellFormedInv'
  BY <1>10, <1>11 DEF Authoring!MarkReady, Statuses
<1>12. ASSUME NEW a \in team, Authoring!Publish(a)
       PROVE  WellFormedInv'
  BY <1>10, <1>12 DEF Authoring!Publish, Statuses
<1>13. ASSUME NEW a \in team, Authoring!Unpublish(a)
       PROVE  WellFormedInv'
  BY <1>10, <1>13 DEF Authoring!Unpublish, Statuses
<1>14. ASSUME NEW a \in team, Authoring!RevertToDraft(a)
       PROVE  WellFormedInv'
  BY <1>10, <1>14 DEF Authoring!RevertToDraft, Statuses
<1>15. ASSUME NEW a \in team, Authoring!Delete(a)
       PROVE  WellFormedInv'
  <2> DEFINE w == [Authoring!NoWrite EXCEPT !.drops = TRUE]
  <2>1. IsWrite(w) /\ Plain(w)
    BY DEF IsWrite, Plain, Authoring!NoWrite
  <2>2. Authoring!Decide(a, w)
    BY <1>15 DEF Authoring!Delete
  <2> HIDE DEF w
  <2>3. QED
    BY <1>1, <2>1, <2>2, PlainDecision
<1>16. ASSUME NEW a \in team, NEW cs, Authoring!Assign(a, cs)
       PROVE  WellFormedInv'
  <2> DEFINE w == [Authoring!NoWrite EXCEPT !.joins = cs]
  <2>1. IsWrite(w) /\ Plain(w)
    BY DEF IsWrite, Plain, Authoring!NoWrite
  <2>2. Authoring!Decide(a, w)
    BY <1>16 DEF Authoring!Assign
  <2> HIDE DEF w
  <2>3. QED
    BY <1>1, <2>1, <2>2, PlainDecision
<1>17. ASSUME NEW a \in team, NEW c, Authoring!Unassign(a, c)
       PROVE  WellFormedInv'
  <2> DEFINE w == [Authoring!NoWrite EXCEPT !.leaves = {c}]
  <2>1. IsWrite(w) /\ Plain(w)
    BY DEF IsWrite, Plain, Authoring!NoWrite
  <2>2. Authoring!Decide(a, w)
    BY <1>17 DEF Authoring!Unassign
  <2> HIDE DEF w
  <2>3. QED
    BY <1>1, <2>1, <2>2, PlainDecision
<1>18. ASSUME NEW c, Authoring!Start(c)
       PROVE  WellFormedInv'
  <2> DEFINE w == [Authoring!NoWrite EXCEPT !.starts = TRUE]
  <2>1. IsWrite(w) /\ Plain(w)
    BY DEF IsWrite, Plain, Authoring!NoWrite
  <2>2. Authoring!Decide(c, w)
    BY <1>18 DEF Authoring!Start
  <2> HIDE DEF w
  <2>3. QED
    BY <1>1, <2>1, <2>2, PlainDecision
<1>19. ASSUME NEW p \in DOMAIN tx, Authoring!Commit(p) \/ Authoring!RollBack(p)
       PROVE  WellFormedInv'
  <2>1. p \in People
    BY DEF WellFormedInv, SettledInv, RowsAreFunctions
  <2>2. QED
    BY <1>1, <1>19, <2>1, CommitGood, RollBackGood
<1>20. QED
  BY <1>2, <1>3, <1>4, <1>5, <1>6, <1>7, <1>8, <1>9, <1>11,
     <1>12, <1>13, <1>14, <1>15, <1>16, <1>17, <1>18, <1>19
     DEF Authoring!Next, Authoring!QuestionRequest

LEMMA WellFormedFromInit == AllInit => WellFormedInv
<1> SUFFICES ASSUME AllInit PROVE WellFormedInv
  OBVIOUS
<1>1. Authoring!Init
  BY DEF AllInit
<1>2. /\ exam \in [status : {"DRAFT"}, kind : Authoring!Kinds, total : Totals]
      /\ questions = <<>>
      /\ tx = [p \in Writers \cup Candidates |-> None]
      /\ team \in {{a} : a \in Writers} \cup {Writers}
  BY <1>1 DEF Authoring!Init
<1>3. SettledInv
  <2>1. DOMAIN exam = {"status", "kind", "total"}
    BY <1>2
  <2>2. team \subseteq Writers
    BY <1>2
  <2>3. tx = [p \in People |-> tx[p]] /\ \A p \in People : tx[p] = None
    BY <1>2 DEF People
  <2>4. questions = [q \in DOMAIN questions |-> questions[q]]
    BY <1>2
  <2>5. QED
    BY <2>1, <2>2, <2>3, <2>4 DEF SettledInv, RowsAreFunctions, PlainLate
<1>4. DOMAIN questions = {}
  BY <1>2
<1>5. IsFiniteSet({}) /\ Cardinality({}) = 0
  BY FS_EmptySet
<1>6. GoodPaper(questions, exam.kind)
  <2>1. {questions[q].position : q \in DOMAIN questions} = {}
    BY <1>4
  <2>2. 0..(Cardinality(DOMAIN questions) - 1) = {}
    <3>1. Cardinality(DOMAIN questions) = 0
      BY ONLY <1>4, <1>5, Zenon
    <3>2. QED
      BY <3>1
  <2>3. IsFiniteSet(DOMAIN questions)
    BY ONLY <1>4, <1>5, Zenon
  <2>4. QED
    BY <1>4, <2>1, <2>2, <2>3 DEF GoodPaper
<1>7. \A a : team = {a} => tx[a] = None
  BY <1>2
<1>8. QED
  BY <1>3, <1>6, <1>7 DEF WellFormedInv

\* While one administrator at a time writes the exam, its questions are numbered without gaps,
\* fit its kind and hold each problem once, whatever the requests and the order of their
\* commits (_compact_positions, reorder_questions, type_allows, add_coding_question).
THEOREM PaperIsWellFormed == AdministrationSpec => []PaperWellFormed
<1>1. WellFormedInv /\ [AllNext]_allVars => WellFormedInv'
  <2> SUFFICES ASSUME WellFormedInv, [AllNext]_allVars PROVE WellFormedInv'
    OBVIOUS
  <2>1. CASE Authoring!Next
    BY <2>1, WellFormedStep
  <2>2. CASE UNCHANGED authoringVars
    <3>1. UNCHANGED <<team, exam, questions, attempts, tx>>
      BY <2>2 DEF authoringVars
    <3>2. SettledInv'
      BY <3>1 DEF WellFormedInv, SettledInv, RowsAreFunctions, PlainLate, Plain
    <3>3. ASSUME NEW a, team' = {a}, exam' # None
          PROVE  /\ GoodPaper(questions', exam'.kind)
                 /\ tx'[a] # None =>
                      GoodPaper(Authoring!Applied(tx[a])',
                                Authoring!Over(exam', tx'[a].columns).kind)
      <4>1. GoodNow /\ (tx[a] # None => GoodThen(tx[a]))
        BY <3>1, <3>3, GoodIsNow
      <4>2. Authoring!Applied(tx[a])' = Authoring!Applied(tx[a])
        BY <3>1 DEF Authoring!Applied, Authoring!Rows
      <4>3. QED
        BY <3>1, <4>1, <4>2 DEF GoodNow, GoodThen
    <3>4. QED
      BY <3>2, <3>3, WellFormedNext
  <2>3. QED
    BY <2>1, <2>2 DEF AllNext, AuthoringStep, ReviewStep, LibraryStep, allVars
<1>2. WellFormedInv => PaperWellFormed
  <2> SUFFICES ASSUME WellFormedInv, NEW a \in Writers, team = {a}, exam # None
               PROVE  /\ {Authoring!Position(q) : q \in Authoring!Rows}
                            = 0..(Authoring!Cardinality(Authoring!Rows) - 1)
                      /\ \A q \in Authoring!Rows :
                            Authoring!TypeAllows(exam.kind, questions[q].type)
                      /\ \A q, r \in Authoring!Rows :
                            questions[q].problem = questions[r].problem
                              => q = r \/ questions[q].problem = None
    BY DEF PaperWellFormed, Authoring!PaperWellFormed
  <2>1. GoodPaper(questions, exam.kind)
    BY GoodIsNow DEF GoodNow
  <2>2. Authoring!Cardinality(Authoring!Rows) = Cardinality(DOMAIN questions)
    BY SameCount DEF Authoring!Rows
  <2>3. {Authoring!Position(q) : q \in Authoring!Rows} = 0..(Cardinality(DOMAIN questions) - 1)
    BY <2>1 DEF GoodPaper, Authoring!Position, Authoring!Rows
  <2>4. QED
    BY <2>1, <2>2, <2>3 DEF GoodPaper, GoodRow, Authoring!Rows
<1>3. QED
  BY WellFormedFromInit, <1>1, <1>2, PTL DEF AdministrationSpec

-----------------------------------------------------------------------------
(* The library of coding problems. *)

\* A bounded set of numbers has a largest one.
LEMMA Largest ==
  ASSUME NEW n \in Nat, NEW T, T \subseteq 1..n, T # {}
  PROVE  \E x \in T : \A y \in T : x >= y
<1> DEFINE Above(x) == {y \in T : y > x}
           F == {Above(x) : x \in T}
           R == StrictSubsetOrdering(1..n)
<1>1. IsWellFoundedOn(R, FiniteSubsetsOf(1..n))
  BY FS_StrictSubsetOrderingWellFounded
<1>2. F # {}
  OBVIOUS
<1>3. F \subseteq FiniteSubsetsOf(1..n)
  <2>1. IsFiniteSet(1..n)
    BY FS_Interval
  <2>2. FiniteSubsetsOf(1..n) = SUBSET (1..n)
    BY <2>1, FS_FiniteSubsetsOfFinite
  <2>3. QED
    BY <2>2, ZenonT(60)
<1>4. \E B \in F : \A C \in F : ~(<<C, B>> \in R)
  <2> HIDE DEF F, R
  <2>1. QED
    BY <1>1, <1>2, <1>3, WFMin
<1>5. PICK x \in T : \A C \in F : ~(<<C, Above(x)>> \in R)
  BY <1>4
<1>6. ASSUME NEW y \in T, y > x
      PROVE  FALSE
  <2>1. Above(y) \in F
    OBVIOUS
  <2>2. Above(y) \subseteq Above(x) /\ y \in Above(x) /\ y \notin Above(y)
    <3>1. \A z \in T : z \in Int
      OBVIOUS
    <3>2. \A z \in T : z > y => z > x
      BY <1>6, <3>1
    <3>3. ~(y > y)
      BY <3>1
    <3>4. QED
      BY <1>6, <3>2, <3>3
  <2>3. Above(x) \in SUBSET (1..n) /\ Above(y) \in SUBSET (1..n)
    OBVIOUS
  <2> HIDE DEF Above, F
  <2>4. <<Above(y), Above(x)>> \in R
    BY <2>2, <2>3 DEF StrictSubsetOrdering
  <2>5. QED
    BY <1>5, <2>1, <2>4
<1>7. QED
  BY <1>6

\* A sequence, whatever it is made of.
IsSequence(s) == s \in Seq({s[i] : i \in DOMAIN s})

LEMMA SequenceGrows ==
  ASSUME NEW s, IsSequence(s), NEW e
  PROVE  /\ IsSequence(Append(s, e))
         /\ Len(s) \in Nat /\ DOMAIN s = 1..Len(s)
         /\ DOMAIN Append(s, e) = 1..(Len(s) + 1)
         /\ \A i \in DOMAIN s : Append(s, e)[i] = s[i]
         /\ Append(s, e)[Len(s) + 1] = e
<1> DEFINE S == {s[i] : i \in DOMAIN s}
           t == Append(s, e)
<1>1. s \in Seq(S)
  BY DEF IsSequence
<1>2. \A i \in DOMAIN s : s[i] \in S
  OBVIOUS
<1> HIDE DEF S
<1>3. Len(s) \in Nat /\ DOMAIN s = 1..Len(s) /\ s \in Seq(S \cup {e})
  BY <1>1
<1>4. /\ t \in Seq(S \cup {e})
      /\ DOMAIN t = 1..(Len(s) + 1)
      /\ \A i \in DOMAIN s : t[i] = s[i]
      /\ t[Len(s) + 1] = e
  BY <1>3
<1>5. IsSequence(t)
  <2> HIDE DEF t
  <2> DEFINE T == {t[i] : i \in DOMAIN t}
  <2>1. t = [i \in 1..(Len(s) + 1) |-> t[i]] /\ \A i \in 1..(Len(s) + 1) : t[i] \in T
    BY <1>4
  <2> HIDE DEF T
  <2>2. t \in Seq(T)
    BY <1>3, <1>4, <2>1
  <2>3. QED
    BY <2>2 DEF IsSequence, T
<1>6. QED
  BY <1>3, <1>4, <1>5

LEMMA SequenceShrinks ==
  ASSUME NEW s, IsSequence(s), NEW i \in DOMAIN s
  PROVE  /\ IsSequence(Library!RemoveAt(s, i))
         /\ Len(Library!RemoveAt(s, i)) = Len(s) - 1
         /\ DOMAIN Library!RemoveAt(s, i) = 1..(Len(s) - 1)
         /\ \A j \in 1..(Len(s) - 1) :
               Library!RemoveAt(s, i)[j] = IF j < i THEN s[j] ELSE s[j + 1]
         /\ Len(s) \in Nat /\ Len(s) >= 1 /\ DOMAIN s = 1..Len(s)
<1> DEFINE S == {s[k] : k \in DOMAIN s}
           t == Library!RemoveAt(s, i)
<1>1. s \in Seq(S)
  BY DEF IsSequence
<1> HIDE DEF S
<1>2. Len(s) \in Nat /\ DOMAIN s = 1..Len(s) /\ i \in 1..Len(s)
  BY <1>1
<1>3. /\ t \in Seq(S)
      /\ Len(t) = Len(s) - 1
      /\ \A j \in 1..(Len(s) - 1) : t[j] = IF j < i THEN s[j] ELSE s[j + 1]
  <2> DEFINE a == SubSeq(s, 1, i - 1)
             b == SubSeq(s, i + 1, Len(s))
  <2>1. a \in Seq(S) /\ Len(a) = i - 1 /\ \A j \in 1..(i - 1) : a[j] = s[j]
    BY <1>1, <1>2
  <2>2. b \in Seq(S) /\ Len(b) = Len(s) - i /\ \A j \in 1..(Len(s) - i) : b[j] = s[i + j]
    BY <1>1, <1>2
  <2>3. t = a \o b
    BY DEF Library!RemoveAt
  <2> HIDE DEF a, b, t
  <2>4. t \in Seq(S) /\ Len(t) = Len(s) - 1
    <3>1. t \in Seq(S)
      BY ONLY <2>1, <2>2, <2>3
    <3>2. Len(t) = Len(a) + Len(b)
      <4>1. a \in Seq(S) /\ b \in Seq(S)
        BY <2>1, <2>2
      <4>2. Len(a \o b) = Len(a) + Len(b)
        BY ONLY <4>1
      <4>3. QED
        BY <2>3, <4>2
    <3>3. QED
      BY <1>2, <2>1, <2>2, <3>1, <3>2
  <2>5. ASSUME NEW j \in 1..(Len(s) - 1), j < i
        PROVE  t[j] = s[j]
    BY <1>2, <2>1, <2>2, <2>3, <2>5
  <2>6. ASSUME NEW j \in 1..(Len(s) - 1), ~(j < i)
        PROVE  t[j] = s[j + 1]
    <3>1. t[j] = b[j - (i - 1)]
      BY <1>2, <2>1, <2>2, <2>3, <2>6, SMTT(30)
    <3>2. j - (i - 1) \in 1..(Len(s) - i) /\ i + (j - (i - 1)) = j + 1
      BY <1>2, <2>6
    <3>3. QED
      BY <2>2, <3>1, <3>2
  <2>7. QED
    BY <2>4, <2>5, <2>6
<1>4. IsSequence(t)
  <2> HIDE DEF t
  <2> DEFINE T == {t[k] : k \in DOMAIN t}
             n == Len(t)
  <2>1. n \in Nat /\ DOMAIN t = 1..n /\ t = [k \in 1..n |-> t[k]]
    BY <1>3
  <2>2. \A k \in 1..n : t[k] \in T
    BY <2>1
  <2> HIDE DEF T, n
  <2>3. t \in Seq(T)
    BY <2>1, <2>2
  <2>4. QED
    BY <2>3 DEF IsSequence, T
<1>5. DOMAIN t = 1..(Len(s) - 1)
  <2> HIDE DEF t
  <2>1. QED
    BY <1>3
<1>6. QED
  BY <1>2, <1>3, <1>4, <1>5

Fields == {"kind", "version", "columns", "rows", "gone", "job", "new", "drops", "touches", "outdates"}

VersionColumns == {"status", "solution", "tests", "validated", "crossed"}

JobColumns == {"version", "state", "solution", "inputs", "outdated", "crossed"}

IsVersion(row) ==
    /\ DOMAIN row = VersionColumns
    /\ row.tests = [t \in DOMAIN row.tests |-> row.tests[t]]

\* What each kind of request writes.
IsRequest(o) ==
    /\ DOMAIN o = Fields
    /\ \E n \in Nat : DOMAIN o.new \subseteq 1..n
    /\ \A v \in DOMAIN o.new :
          IsVersion(o.new[v]) /\ o.new[v].status = "DRAFT" /\ o.new[v].validated = None
    /\ DOMAIN o.columns \subseteq {"status", "solution", "validated"}
    /\ "status" \in DOMAIN o.columns => o.kind = "publish" /\ o.columns["status"] = "PUBLISHED"
    /\ o.kind # "edit" => DOMAIN o.rows = {} /\ o.gone = {} /\ "solution" \notin DOMAIN o.columns
    /\ "validated" \in DOMAIN o.columns =>
          o.kind = "verdict" \/ (o.kind = "edit" /\ o.columns["validated"] = None)

LibraryShape ==
    /\ IsSequence(open)
    /\ versions = [v \in DOMAIN versions |-> versions[v]]
    /\ \E n \in Nat : DOMAIN versions \subseteq 1..n
    /\ \A v \in DOMAIN versions : IsVersion(versions[v])
    /\ pinned \subseteq DOMAIN versions
    /\ \A o \in Library!Open :
          IsRequest(o) /\ (o.kind # "verdict" => o.version \in DOMAIN versions \cup {0})

\* An edit that is under way is of a draft, or crosses the publication.
EditsCross ==
    \A o \in Library!Open : o.kind = "edit" /\ o.version \in DOMAIN versions =>
        /\ versions[o.version].status = "DRAFT" \/ versions[o.version].crossed
        /\ \A p \in Library!Open :
              p.kind = "publish" /\ p.version = o.version => versions[o.version].crossed

PublishedInv == LibraryShape /\ EditsCross

LEMMA OpenGrows ==
  ASSUME IsSequence(open), NEW w, open' = Append(open, w)
  PROVE  /\ IsSequence(open')
         /\ Library!Open' = Library!Open \cup {w}
         /\ DOMAIN open' = DOMAIN open \cup {Len(open) + 1}
         /\ \A k \in DOMAIN open : open'[k] = open[k]
         /\ open'[Len(open) + 1] = w
<1>1. /\ IsSequence(open')
      /\ Len(open) \in Nat /\ DOMAIN open = 1..Len(open)
      /\ DOMAIN open' = 1..(Len(open) + 1)
      /\ \A k \in DOMAIN open : open'[k] = open[k]
      /\ open'[Len(open) + 1] = w
  BY SequenceGrows
<1>2. DOMAIN open' = DOMAIN open \cup {Len(open) + 1}
  BY <1>1
<1>3. Library!Open' = {open'[k] : k \in DOMAIN open'}
  BY DEF Library!Open, Library!ToSet
<1>4. Library!Open = {open[k] : k \in DOMAIN open}
  BY DEF Library!Open, Library!ToSet
<1>5. Library!Open' = Library!Open \cup {w}
  BY <1>1, <1>2, <1>3, <1>4
<1>6. QED
  BY <1>1, <1>2, <1>5

\* Where a request that stays was, once the i-th is gone.
Was(i, k) == IF k < i THEN k ELSE k + 1

\* A request whose version is gone.
Dropped(o, drops) == IF o.version \in drops THEN [o EXCEPT !.version = 0] ELSE o

LEMMA WasApart ==
  ASSUME IsSequence(open), NEW i \in DOMAIN open
  PROVE  \A k, l \in 1..(Len(open) - 1) :
            /\ Was(i, k) \in DOMAIN open /\ Was(i, k) # i
            /\ Was(i, k) = Was(i, l) => k = l
<1>1. Len(open) \in Nat /\ DOMAIN open = 1..Len(open)
  BY SequenceShrinks
<1>2. QED
  BY <1>1 DEF Was

LEMMA OpenShrinks ==
  ASSUME IsSequence(open), NEW i \in DOMAIN open, open' = Library!RemoveAt(open, i)
  PROVE  /\ IsSequence(open')
         /\ DOMAIN open' = 1..(Len(open) - 1)
         /\ \A k \in DOMAIN open' : open'[k] = open[Was(i, k)]
         /\ \A o \in Library!Open' : o \in Library!Open
<1>1. /\ IsSequence(open')
      /\ DOMAIN open' = 1..(Len(open) - 1)
      /\ \A k \in 1..(Len(open) - 1) : open'[k] = IF k < i THEN open[k] ELSE open[k + 1]
      /\ Len(open) \in Nat /\ Len(open) >= 1 /\ DOMAIN open = 1..Len(open)
  BY SequenceShrinks
<1>2. DOMAIN open' = 1..(Len(open) - 1)
  BY <1>1
<1>3. \A k \in DOMAIN open' : open'[k] = open[Was(i, k)]
  BY <1>1, <1>2 DEF Was
<1>4. Library!Open' = {open'[k] : k \in DOMAIN open'}
  BY DEF Library!Open, Library!ToSet
<1>5. Library!Open = {open[k] : k \in DOMAIN open}
  BY DEF Library!Open, Library!ToSet
<1>6. \A o \in Library!Open' : o \in Library!Open
  BY <1>2, <1>3, <1>4, <1>5, WasApart
<1>7. QED
  BY <1>1, <1>2, <1>3, <1>6

LEMMA OpenRests ==
  ASSUME IsSequence(open), NEW i \in DOMAIN open, NEW drops, open' = Library!Rest(i, drops)
  PROVE  /\ IsSequence(open')
         /\ DOMAIN open' = 1..(Len(open) - 1)
         /\ \A k \in DOMAIN open' : open'[k] = Dropped(open[Was(i, k)], drops)
         /\ \A o \in Library!Open' : \E p \in Library!Open : o = Dropped(p, drops)
<1> DEFINE n == Len(open) - 1
           t == Library!RemoveAt(open, i)
<1>1. /\ \A k \in 1..n : t[k] = IF k < i THEN open[k] ELSE open[k + 1]
      /\ Len(open) \in Nat /\ Len(open) >= 1 /\ DOMAIN open = 1..Len(open)
  BY SequenceShrinks
<1>2. n \in Nat
  BY <1>1
<1>3. open' = [k \in 1..n |-> IF t[k].version \in drops THEN [t[k] EXCEPT !.version = 0] ELSE t[k]]
  BY DEF Library!Rest
<1> HIDE DEF t
<1>4. \A k \in 1..n : t[k] = open[Was(i, k)]
  BY <1>1 DEF Was
<1> HIDE DEF n
<1>5. DOMAIN open' = 1..n /\ \A k \in 1..n : open'[k] = Dropped(open[Was(i, k)], drops)
  BY <1>3, <1>4 DEF Dropped
<1>6. IsSequence(open')
  <2> DEFINE T == {open'[k] : k \in DOMAIN open'}
  <2>1. open' = [k \in 1..n |-> open'[k]]
    BY <1>3
  <2>2. \A k \in 1..n : open'[k] \in T
    BY <1>5
  <2> HIDE DEF T
  <2>3. open' \in Seq(T)
    BY <1>2, <2>1, <2>2
  <2>4. QED
    BY <2>3 DEF IsSequence, T
<1>7. Library!Open' = {open'[k] : k \in DOMAIN open'}
  BY DEF Library!Open, Library!ToSet
<1>8. Library!Open = {open[k] : k \in DOMAIN open}
  BY DEF Library!Open, Library!ToSet
<1>9. ASSUME NEW o \in Library!Open'
      PROVE  \E p \in Library!Open : o = Dropped(p, drops)
  <2>1. PICK k \in 1..n : o = open'[k]
    BY <1>5, <1>7
  <2>2. Was(i, k) \in DOMAIN open
    BY WasApart DEF n
  <2>3. QED
    BY <1>5, <1>8, <2>1, <2>2
<1>10. QED
  BY <1>5, <1>6, <1>9 DEF n

\* A dropped request is what it was, but for its version.
LEMMA DroppedIs ==
  ASSUME NEW o, DOMAIN o = Fields, NEW drops
  PROVE  /\ DOMAIN Dropped(o, drops) = Fields
         /\ \A f \in Fields : f # "version" => Dropped(o, drops)[f] = o[f]
         /\ o.version \in drops => Dropped(o, drops).version = 0
         /\ o.version \notin drops => Dropped(o, drops) = o
  BY DEF Dropped, Fields

LEMMA DroppedIsRequest ==
  ASSUME NEW o, IsRequest(o), NEW drops
  PROVE  IsRequest(Dropped(o, drops))
<1>1. DOMAIN o = Fields
  BY DEF IsRequest
<1> DEFINE p == Dropped(o, drops)
<1>2. /\ DOMAIN p = Fields
      /\ p.kind = o.kind /\ p.columns = o.columns /\ p.rows = o.rows /\ p.gone = o.gone
      /\ p.new = o.new
  BY <1>1, DroppedIs DEF Fields
<1> HIDE DEF p
<1>3. IsRequest(p)
  BY <1>2 DEF IsRequest
<1>4. QED
  BY <1>3 DEF p

\* What flushing leaves of the versions.
LEMMA FlushKeeps ==
  ASSUME LibraryShape, NEW w, Library!Decide(w)
  PROVE  /\ DOMAIN versions' = DOMAIN versions
         /\ versions' = [v \in DOMAIN versions |-> versions'[v]]
         /\ \A v \in DOMAIN versions :
               /\ DOMAIN versions'[v] = DOMAIN versions[v]
               /\ versions'[v].status = versions[v].status
               /\ versions'[v].solution = versions[v].solution
               /\ versions'[v].tests = versions[v].tests
               /\ versions'[v].validated = versions[v].validated
               /\ versions[v].crossed => versions'[v].crossed
               /\ w.kind = "publish" /\ v = w.version /\ Library!Crosses(w, "edit")
                    => versions'[v].crossed
               /\ w.kind = "edit" /\ v = w.version /\ Library!Crosses(w, "publish")
                    => versions'[v].crossed
<1> DEFINE C(v) == \/ w.kind = "publish" /\ v = w.version /\ Library!Crosses(w, "edit")
                   \/ w.kind = "edit" /\ v = w.version /\ Library!Crosses(w, "publish")
<1>1. versions' = [v \in DOMAIN versions |->
                     IF C(v) THEN [versions[v] EXCEPT !.crossed = TRUE] ELSE versions[v]]
  BY DEF Library!Decide
<1>2. \A v \in DOMAIN versions : DOMAIN versions[v] = VersionColumns
  BY DEF LibraryShape, IsVersion
<1>3. ASSUME NEW v \in DOMAIN versions
      PROVE  /\ DOMAIN versions'[v] = DOMAIN versions[v]
             /\ versions'[v].status = versions[v].status
             /\ versions'[v].solution = versions[v].solution
             /\ versions'[v].tests = versions[v].tests
             /\ versions'[v].validated = versions[v].validated
             /\ versions[v].crossed => versions'[v].crossed
             /\ C(v) => versions'[v].crossed
  <2> HIDE DEF C
  <2>1. CASE C(v)
    <3>1. versions'[v] = [versions[v] EXCEPT !.crossed = TRUE]
      BY <1>1, <2>1
    <3>2. QED
      BY <1>2, <3>1 DEF VersionColumns
  <2>2. CASE ~C(v)
    <3>1. versions'[v] = versions[v]
      BY <1>1, <2>2
    <3>2. QED
      BY <2>2, <3>1
  <2>3. QED
    BY <2>1, <2>2
<1>4. DOMAIN versions' = DOMAIN versions /\ versions' = [v \in DOMAIN versions |-> versions'[v]]
  BY <1>1
<1>5. QED
  BY <1>3, <1>4

LEMMA OpenIs == Library!Open = {open[k] : k \in DOMAIN open}
  BY DEF Library!Open, Library!ToSet

\* A request that flushes keeps the shape, and edits only drafts.
LEMMA FlushShape ==
  ASSUME PublishedInv, NEW w, Library!Decide(w), IsRequest(w),
         w.kind # "verdict" => w.version \in DOMAIN versions \cup {0},
         w.kind = "edit" /\ w.version \in DOMAIN versions => versions[w.version].status = "DRAFT"
  PROVE  PublishedInv'
<1>1. LibraryShape /\ EditsCross
  BY DEF PublishedInv
<1>2. open' = Append(open, w) /\ pinned' = pinned
  BY DEF Library!Decide
<1>3. IsSequence(open') /\ Library!Open' = Library!Open \cup {w}
  BY <1>1, <1>2, OpenGrows DEF LibraryShape
<1>4. /\ DOMAIN versions' = DOMAIN versions
      /\ versions' = [v \in DOMAIN versions |-> versions'[v]]
  BY <1>1, FlushKeeps
<1>5. \A v \in DOMAIN versions :
         /\ DOMAIN versions'[v] = DOMAIN versions[v]
         /\ versions'[v].status = versions[v].status
         /\ versions'[v].tests = versions[v].tests
         /\ versions[v].crossed => versions'[v].crossed
  BY <1>1, FlushKeeps
<1>6. \A v \in DOMAIN versions :
         /\ w.kind = "publish" /\ v = w.version /\ Library!Crosses(w, "edit")
              => versions'[v].crossed
         /\ w.kind = "edit" /\ v = w.version /\ Library!Crosses(w, "publish")
              => versions'[v].crossed
  BY <1>1, FlushKeeps
<1>7. LibraryShape'
  <2>1. \A v \in DOMAIN versions' : IsVersion(versions'[v])
    BY <1>1, <1>4, <1>5 DEF LibraryShape, IsVersion
  <2>2. pinned' \subseteq DOMAIN versions' /\ \E n \in Nat : DOMAIN versions' \subseteq 1..n
    BY <1>1, <1>2, <1>4 DEF LibraryShape
  <2>3. \A o \in Library!Open' :
           IsRequest(o) /\ (o.kind # "verdict" => o.version \in DOMAIN versions' \cup {0})
    BY <1>1, <1>3, <1>4 DEF LibraryShape
  <2>4. versions' = [v \in DOMAIN versions' |-> versions'[v]]
    BY <1>4
  <2>5. QED
    BY <1>3, <2>1, <2>2, <2>3, <2>4 DEF LibraryShape
<1>8. EditsCross'
  <2> SUFFICES ASSUME NEW o \in Library!Open', o.kind = "edit", o.version \in DOMAIN versions'
               PROVE  /\ versions'[o.version].status = "DRAFT" \/ versions'[o.version].crossed
                      /\ \A p \in Library!Open' : p.kind = "publish" /\ p.version = o.version
                           => versions'[o.version].crossed
    BY DEF EditsCross
  <2>1. o.version \in DOMAIN versions
    BY <1>4
  <2>2. CASE o \in Library!Open
    <3>1. /\ versions[o.version].status = "DRAFT" \/ versions[o.version].crossed
          /\ \A p \in Library!Open : p.kind = "publish" /\ p.version = o.version
               => versions[o.version].crossed
      BY <1>1, <2>1, <2>2 DEF EditsCross
    <3>2. w.kind = "publish" /\ w.version = o.version => versions'[o.version].crossed
      BY <1>6, <2>1, <2>2 DEF Library!Crosses
    <3>3. QED
      BY <1>3, <1>5, <2>1, <3>1, <3>2
  <2>3. CASE o = w
    <3>1. versions'[o.version].status = "DRAFT"
      BY <1>5, <2>1, <2>3
    <3>2. \A p \in Library!Open : p.kind = "publish" /\ p.version = o.version
            => versions'[o.version].crossed
      BY <1>6, <2>1, <2>3 DEF Library!Crosses
    <3>3. QED
      BY <1>3, <2>3, <3>1, <3>2
  <2>4. QED
    BY <1>3, <2>2, <2>3
<1>9. QED
  BY <1>7, <1>8 DEF PublishedInv

\* The row of a version once a request has written it.
LEMMA WrittenIs ==
  ASSUME NEW w, IsRequest(w), NEW version, IsVersion(version)
  PROVE  /\ IsVersion(Library!Written(w, version))
         /\ Library!Written(w, version).crossed = version.crossed
         /\ Library!Written(w, version).status =
              IF "status" \in DOMAIN w.columns THEN "PUBLISHED" ELSE version.status
         /\ Library!Written(w, version).validated =
              IF "validated" \in DOMAIN w.columns THEN w.columns["validated"]
              ELSE version.validated
         /\ "solution" \notin DOMAIN w.columns =>
              Library!Written(w, version).solution = version.solution
         /\ w.kind # "edit" => Library!Written(w, version).tests = version.tests
<1> DEFINE rows == [t \in (DOMAIN version.tests \cup DOMAIN w.rows) \ w.gone |->
                      IF t \notin DOMAIN w.rows THEN version.tests[t]
                      ELSE IF t \in DOMAIN version.tests
                           THEN Library!Over(version.tests[t], w.rows[t])
                      ELSE w.rows[t]]
           new == [version EXCEPT !.tests = rows]
           written == Library!Over(new, w.columns)
<1>1. Library!Written(w, version) = written
  BY DEF Library!Written
<1>2. /\ DOMAIN version = VersionColumns
      /\ version.tests = [t \in DOMAIN version.tests |-> version.tests[t]]
  BY DEF IsVersion
<1>3. rows = [t \in DOMAIN rows |-> rows[t]]
  OBVIOUS
<1>4. w.kind # "edit" => rows = version.tests
  <2> SUFFICES ASSUME w.kind # "edit" PROVE rows = version.tests
    OBVIOUS
  <2>1. DOMAIN w.rows = {} /\ w.gone = {}
    BY DEF IsRequest
  <2>2. (DOMAIN version.tests \cup DOMAIN w.rows) \ w.gone = DOMAIN version.tests
    BY <2>1
  <2>3. rows = [t \in DOMAIN version.tests |-> version.tests[t]]
    BY <2>1, <2>2
  <2>4. QED
    BY <1>2, <2>3
<1> HIDE DEF rows
<1>5. /\ DOMAIN new = VersionColumns
      /\ new.tests = rows
      /\ new.status = version.status /\ new.solution = version.solution
      /\ new.validated = version.validated /\ new.crossed = version.crossed
  BY <1>2 DEF VersionColumns
<1> HIDE DEF new
<1>6. /\ DOMAIN w.columns \subseteq {"status", "solution", "validated"}
      /\ "status" \in DOMAIN w.columns => w.columns["status"] = "PUBLISHED"
  BY DEF IsRequest
<1>7. written = [f \in VersionColumns |-> IF f \in DOMAIN w.columns THEN w.columns[f] ELSE new[f]]
  BY <1>5 DEF Library!Over
<1> HIDE DEF written
<1>8. DOMAIN written = VersionColumns
  BY <1>7
<1>9. written.tests = rows /\ written.crossed = version.crossed
  BY <1>5, <1>6, <1>7 DEF VersionColumns
<1>10. written.status = IF "status" \in DOMAIN w.columns THEN "PUBLISHED" ELSE version.status
  BY <1>5, <1>6, <1>7 DEF VersionColumns
<1>11. written.validated = IF "validated" \in DOMAIN w.columns THEN w.columns["validated"]
                           ELSE version.validated
  BY <1>5, <1>6, <1>7 DEF VersionColumns
<1>12. "solution" \notin DOMAIN w.columns => written.solution = version.solution
  BY <1>5, <1>7 DEF VersionColumns
<1>13. IsVersion(written)
  BY <1>3, <1>8, <1>9 DEF IsVersion
<1>14. QED
  BY <1>1, <1>4, <1>9, <1>10, <1>11, <1>12, <1>13

\* What a commit leaves of the versions.
LEMMA CommitWrites ==
  ASSUME LibraryShape, NEW i \in DOMAIN open, Library!Commit(i)
  PROVE  \E drops :
           /\ open' = Library!Rest(i, drops)
           /\ open[i] \in Library!Open /\ IsRequest(open[i])
           /\ drops \cap pinned = {} /\ pinned' = pinned
           /\ DOMAIN open[i].new \cap DOMAIN versions = {}
           /\ DOMAIN versions' = (DOMAIN versions \cup DOMAIN open[i].new) \ drops
           /\ versions' = [v \in DOMAIN versions' |-> versions'[v]]
           /\ \A v \in DOMAIN versions' \cap DOMAIN open[i].new : versions'[v] = open[i].new[v]
           /\ \A v \in DOMAIN versions' \cap DOMAIN versions :
                 versions'[v] = IF v = open[i].version THEN Library!Written(open[i], versions[v])
                                ELSE versions[v]
           /\ jobs' = [j \in DOMAIN jobs |->
                 IF jobs[j].version \in drops THEN [jobs[j] EXCEPT !.state = "gone"]
                 ELSE IF j = open[i].job
                 THEN [jobs[j] EXCEPT !.state =
                         IF open[i].kind = "validate" THEN "queued" ELSE "done"]
                 ELSE [jobs[j] EXCEPT !.outdated = @ \/ j \in open[i].outdates]]
<1> DEFINE w == open[i]
           drops == IF w.kind = "delete" THEN DOMAIN versions ELSE w.drops
<1>1. w \in Library!Open /\ IsRequest(w)
  BY OpenIs DEF LibraryShape
<1>2. DOMAIN w = Fields
  BY <1>1 DEF IsRequest
<1>3. /\ Library!Admits(i)
      /\ Library!Releases([w EXCEPT !.drops = drops])
      /\ open' = Library!Rest(i, drops)
      /\ versions' = [v \in (DOMAIN versions \cup DOMAIN w.new) \ drops |->
                        IF v \in DOMAIN w.new THEN w.new[v]
                        ELSE IF v = w.version THEN Library!Written(w, versions[v])
                        ELSE versions[v]]
      /\ jobs' = [j \in DOMAIN jobs |->
                    IF jobs[j].version \in drops THEN [jobs[j] EXCEPT !.state = "gone"]
                    ELSE IF j = w.job
                    THEN [jobs[j] EXCEPT !.state = IF w.kind = "validate" THEN "queued" ELSE "done"]
                    ELSE [jobs[j] EXCEPT !.outdated = @ \/ j \in w.outdates]]
      /\ pinned' = pinned
  BY DEF Library!Commit
<1>4. drops \cap pinned = {}
  <2> HIDE DEF drops
  <2>1. [w EXCEPT !.drops = drops].drops = drops
    BY <1>2 DEF Fields
  <2>2. QED
    BY <1>3, <2>1 DEF Library!Releases
<1>5. DOMAIN w.new \cap DOMAIN versions = {}
  <2>1. w.new # <<>> => DOMAIN w.new \cap DOMAIN versions = {}
    BY <1>3 DEF Library!Admits
  <2>2. w.new = <<>> => DOMAIN w.new = {}
    OBVIOUS
  <2>3. QED
    BY <2>1, <2>2
<1> HIDE DEF drops, w
<1>6. DOMAIN versions' = (DOMAIN versions \cup DOMAIN w.new) \ drops
  BY <1>3
<1>7. versions' = [v \in DOMAIN versions' |-> versions'[v]]
  BY <1>3
<1>8. \A v \in DOMAIN versions' \cap DOMAIN w.new : versions'[v] = w.new[v]
  BY <1>3
<1>9. \A v \in DOMAIN versions' \cap DOMAIN versions :
         versions'[v] = IF v = w.version THEN Library!Written(w, versions[v]) ELSE versions[v]
  BY <1>3, <1>5
<1>10. QED
  BY <1>1, <1>3, <1>4, <1>5, <1>6, <1>7, <1>8, <1>9 DEF w

\* A version whose publication no edit overlapped stays as it is, and pinned ones are there.
PublishedKept ==
    /\ pinned \subseteq DOMAIN versions'
    /\ \A v \in DOMAIN versions \cap DOMAIN versions' :
         versions[v].status = "PUBLISHED" /\ ~versions[v].crossed =>
           /\ versions'[v].status = "PUBLISHED"
           /\ versions'[v].solution = versions[v].solution
           /\ versions'[v].tests = versions[v].tests

LEMMA FlushKept ==
  ASSUME LibraryShape, NEW w, Library!Decide(w)
  PROVE  PublishedKept
<1>1. DOMAIN versions' = DOMAIN versions
  BY FlushKeeps
<1>2. \A v \in DOMAIN versions :
         /\ versions'[v].status = versions[v].status
         /\ versions'[v].solution = versions[v].solution
         /\ versions'[v].tests = versions[v].tests
  BY FlushKeeps
<1>3. QED
  BY <1>1, <1>2 DEF PublishedKept, LibraryShape

LEMMA CommitKept ==
  ASSUME PublishedInv, NEW i \in DOMAIN open, Library!Commit(i)
  PROVE  PublishedInv' /\ PublishedKept
<1> DEFINE w == open[i]
<1>1. LibraryShape /\ EditsCross
  BY DEF PublishedInv
<1>2. PICK drops :
        /\ open' = Library!Rest(i, drops)
        /\ w \in Library!Open /\ IsRequest(w)
        /\ drops \cap pinned = {} /\ pinned' = pinned
        /\ DOMAIN w.new \cap DOMAIN versions = {}
        /\ DOMAIN versions' = (DOMAIN versions \cup DOMAIN w.new) \ drops
        /\ versions' = [v \in DOMAIN versions' |-> versions'[v]]
        /\ \A v \in DOMAIN versions' \cap DOMAIN w.new : versions'[v] = w.new[v]
        /\ \A v \in DOMAIN versions' \cap DOMAIN versions :
              versions'[v] = IF v = w.version THEN Library!Written(w, versions[v])
                             ELSE versions[v]
  BY <1>1, CommitWrites
<1> HIDE DEF w
<1>3. /\ pinned \subseteq DOMAIN versions
      /\ \A v \in DOMAIN versions : IsVersion(versions[v])
      /\ \A o \in Library!Open :
            IsRequest(o) /\ (o.kind # "verdict" => o.version \in DOMAIN versions \cup {0})
  BY <1>1 DEF LibraryShape
<1>4. /\ IsSequence(open')
      /\ \A o \in Library!Open' : \E p \in Library!Open : o = Dropped(p, drops)
  BY <1>1, <1>2, OpenRests DEF LibraryShape
<1>5. \E n \in Nat : DOMAIN versions' \subseteq 1..n
  <2>1. PICK n \in Nat : DOMAIN versions \subseteq 1..n
    BY <1>1 DEF LibraryShape
  <2>2. PICK m \in Nat : DOMAIN w.new \subseteq 1..m
    BY <1>2 DEF IsRequest
  <2>3. DOMAIN versions' \subseteq 1..(n + m)
    BY <1>2, <2>1, <2>2
  <2>4. QED
    BY <2>3
<1>6. ASSUME NEW v \in DOMAIN versions' \cap DOMAIN versions
      PROVE  /\ IsVersion(versions'[v])
             /\ versions'[v].crossed = versions[v].crossed
             /\ versions'[v].status = versions[v].status
                  \/ (versions'[v].status = "PUBLISHED" /\ w.version = v /\ w.kind = "publish")
             /\ w.kind # "edit" \/ w.version # v =>
                  versions'[v].solution = versions[v].solution /\ versions'[v].tests = versions[v].tests
  <2>1. CASE v = w.version
    <3>1. versions'[v] = Library!Written(w, versions[v])
      BY <1>2, <2>1
    <3>2. /\ IsVersion(versions'[v])
          /\ versions'[v].crossed = versions[v].crossed
          /\ versions'[v].status =
               IF "status" \in DOMAIN w.columns THEN "PUBLISHED" ELSE versions[v].status
          /\ "solution" \notin DOMAIN w.columns =>
               versions'[v].solution = versions[v].solution
          /\ w.kind # "edit" => versions'[v].tests = versions[v].tests
      BY <1>2, <1>3, <3>1, WrittenIs
    <3>3. /\ "status" \in DOMAIN w.columns => w.kind = "publish"
          /\ w.kind # "edit" => "solution" \notin DOMAIN w.columns
      BY <1>2 DEF IsRequest
    <3>4. QED
      BY <2>1, <3>2, <3>3
  <2>2. CASE v # w.version
    <3>1. versions'[v] = versions[v]
      BY <1>2, <2>2
    <3>2. QED
      BY <1>3, <2>2, <3>1
  <2>3. QED
    BY <2>1, <2>2
<1>7. \A v \in DOMAIN versions' : v \in DOMAIN versions \/ v \in DOMAIN w.new
  BY <1>2
<1>8. ASSUME NEW o \in Library!Open'
      PROVE  /\ IsRequest(o)
             /\ o.version = 0 \/ o \in Library!Open
             /\ o.kind # "verdict" =>
                  o.version = 0 \/ o.version \in DOMAIN versions' \cap DOMAIN versions
  <2>1. PICK p \in Library!Open : o = Dropped(p, drops)
    BY <1>4
  <2>2. /\ IsRequest(p) /\ DOMAIN p = Fields
        /\ p.kind # "verdict" => p.version \in DOMAIN versions \cup {0}
    BY <1>3 DEF IsRequest
  <2>3. IsRequest(o)
    BY <2>1, <2>2, DroppedIsRequest
  <2>4. CASE p.version \in drops
    BY <2>1, <2>2, <2>3, <2>4, DroppedIs
  <2>5. CASE p.version \notin drops
    <3>1. o = p
      BY <2>1, <2>2, <2>5, DroppedIs
    <3>2. QED
      BY <1>2, <2>2, <2>3, <2>5, <3>1
  <2>6. QED
    BY <2>4, <2>5
<1>9. 0 \notin DOMAIN versions'
  BY <1>5
<1>10. LibraryShape'
  <2>1. \A v \in DOMAIN versions' : IsVersion(versions'[v])
    <3>1. \A v \in DOMAIN w.new : IsVersion(w.new[v])
      BY <1>2 DEF IsRequest
    <3>2. QED
      BY <1>2, <1>6, <1>7, <3>1
  <2>2. pinned' \subseteq DOMAIN versions'
    BY <1>2, <1>3
  <2>3. \A o \in Library!Open' :
           IsRequest(o) /\ (o.kind # "verdict" => o.version \in DOMAIN versions' \cup {0})
    BY <1>8
  <2>4. QED
    BY <1>2, <1>4, <1>5, <2>1, <2>2, <2>3 DEF LibraryShape
<1>11. EditsCross'
  <2> SUFFICES ASSUME NEW o \in Library!Open', o.kind = "edit", o.version \in DOMAIN versions'
               PROVE  /\ versions'[o.version].status = "DRAFT" \/ versions'[o.version].crossed
                      /\ \A p \in Library!Open' : p.kind = "publish" /\ p.version = o.version
                           => versions'[o.version].crossed
    BY DEF EditsCross
  <2>1. o \in Library!Open /\ o.version \in DOMAIN versions' \cap DOMAIN versions
    BY <1>8, <1>9
  <2>2. /\ versions[o.version].status = "DRAFT" \/ versions[o.version].crossed
        /\ \A p \in Library!Open : p.kind = "publish" /\ p.version = o.version
             => versions[o.version].crossed
    BY <1>1, <2>1 DEF EditsCross
  <2>3. \A p \in Library!Open' : p.version = o.version => p \in Library!Open
    BY <1>8, <1>9
  <2>4. /\ versions'[o.version].crossed = versions[o.version].crossed
        /\ versions'[o.version].status = versions[o.version].status
             \/ (w.version = o.version /\ w.kind = "publish")
    BY <1>6, <2>1
  <2>5. QED
    BY <1>2, <2>2, <2>3, <2>4
<1>12. PublishedKept
  <2>1. pinned \subseteq DOMAIN versions'
    BY <1>2, <1>3
  <2>2. ASSUME NEW v \in DOMAIN versions \cap DOMAIN versions',
               versions[v].status = "PUBLISHED", ~versions[v].crossed
        PROVE  /\ versions'[v].status = "PUBLISHED"
               /\ versions'[v].solution = versions[v].solution
               /\ versions'[v].tests = versions[v].tests
    <3>1. w.kind # "edit" \/ w.version # v
      BY <1>1, <1>2, <2>2 DEF EditsCross
    <3>2. QED
      BY <1>6, <2>2, <3>1
  <2>3. QED
    BY <2>1, <2>2 DEF PublishedKept
<1>13. QED
  BY <1>10, <1>11, <1>12 DEF PublishedInv

LEMMA RollBackKept ==
  ASSUME PublishedInv, NEW i \in DOMAIN open, Library!RollBack(i)
  PROVE  PublishedInv' /\ PublishedKept
<1>1. LibraryShape /\ EditsCross
  BY DEF PublishedInv
<1>2. open' = Library!RemoveAt(open, i) /\ versions' = versions /\ pinned' = pinned
  BY DEF Library!RollBack
<1>3. IsSequence(open') /\ \A o \in Library!Open' : o \in Library!Open
  BY <1>1, <1>2, OpenShrinks DEF LibraryShape
<1>4. LibraryShape'
  BY <1>1, <1>2, <1>3 DEF LibraryShape
<1>5. EditsCross'
  BY <1>1, <1>2, <1>3 DEF EditsCross
<1>6. PublishedKept
  BY <1>1, <1>2 DEF PublishedKept, LibraryShape
<1>7. QED
  BY <1>4, <1>5, <1>6 DEF PublishedInv

LEMMA PinKept ==
  ASSUME PublishedInv, NEW v, Library!Pin(v)
  PROVE  PublishedInv' /\ PublishedKept
<1>1. /\ v \in DOMAIN versions /\ pinned' = pinned \cup {v}
      /\ versions' = versions /\ open' = open
  BY DEF Library!Pin
<1>2. LibraryShape /\ EditsCross
  BY DEF PublishedInv
<1>3. Library!Open' = Library!Open
  BY <1>1 DEF Library!Open, Library!ToSet
<1>4. LibraryShape'
  BY <1>1, <1>2, <1>3 DEF LibraryShape
<1>5. EditsCross'
  BY <1>1, <1>2, <1>3 DEF EditsCross
<1>6. PublishedKept
  BY <1>1, <1>2 DEF PublishedKept, LibraryShape
<1>7. QED
  BY <1>4, <1>5, <1>6 DEF PublishedInv

LEMMA OthersKept ==
  ASSUME PublishedInv, UNCHANGED <<versions, pinned, open>>
  PROVE  PublishedInv' /\ PublishedKept
<1>1. LibraryShape /\ EditsCross
  BY DEF PublishedInv
<1>2. Library!Open' = Library!Open
  BY DEF Library!Open, Library!ToSet
<1>3. LibraryShape'
  BY <1>1, <1>2 DEF LibraryShape
<1>4. EditsCross'
  BY <1>1, <1>2 DEF EditsCross
<1>5. PublishedKept
  BY <1>1 DEF PublishedKept, LibraryShape
<1>6. QED
  BY <1>3, <1>4, <1>5 DEF PublishedInv

LEMMA NoWriteIs ==
  /\ IsRequest(Library!NoWrite)
  /\ DOMAIN Library!NoWrite = Fields
  /\ DOMAIN Library!NoWrite.columns = {} /\ DOMAIN Library!NoWrite.rows = {}
  /\ DOMAIN Library!NoWrite.new = {} /\ Library!NoWrite.gone = {}
  /\ Library!NoWrite.kind = "edit" /\ Library!NoWrite.version = 0 /\ Library!NoWrite.job = 0
<1> DEFINE w == Library!NoWrite
<1>1. /\ DOMAIN w = Fields
      /\ w.columns = <<>> /\ w.rows = <<>> /\ w.new = <<>> /\ w.gone = {}
      /\ w.kind = "edit" /\ w.version = 0 /\ w.job = 0
  BY DEF Library!NoWrite, Fields
<1> HIDE DEF w
<1>2. DOMAIN w.columns = {} /\ DOMAIN w.rows = {} /\ DOMAIN w.new = {}
  BY <1>1
<1>3. \E n \in Nat : DOMAIN w.new \subseteq 1..n
  <2>1. DOMAIN w.new \subseteq 1..0
    BY <1>2
  <2>2. QED
    BY <2>1
<1>4. IsRequest(w)
  BY <1>1, <1>2, <1>3 DEF IsRequest
<1>5. QED
  BY <1>1, <1>2, <1>4 DEF w

LEMMA TouchingIs ==
  ASSUME NEW w, IsRequest(w)
  PROVE  /\ IsRequest(Library!Touching(w))
         /\ DOMAIN Library!Touching(w) = Fields
         /\ Library!Touching(w).kind = w.kind
         /\ Library!Touching(w).version = w.version
         /\ Library!Touching(w).job = w.job
         /\ Library!Touching(w).columns = w.columns
         /\ Library!Touching(w).outdates = Library!Jobs(w.version)
<1> DEFINE t == Library!Touching(w)
<1>1. DOMAIN w = Fields
  BY DEF IsRequest
<1>2. /\ DOMAIN t = Fields
      /\ t.kind = w.kind /\ t.version = w.version /\ t.columns = w.columns /\ t.rows = w.rows
      /\ t.gone = w.gone /\ t.job = w.job /\ t.new = w.new
      /\ t.outdates = Library!Jobs(w.version)
  BY <1>1 DEF Library!Touching, Fields
<1> HIDE DEF t
<1>3. IsRequest(t)
  BY <1>2 DEF IsRequest
<1>4. QED
  BY <1>2, <1>3 DEF t

\* The request of an edit: it ends a validation it sees, and outdates the jobs if it writes the
\* version's row.
LEMMA EditRequest ==
  ASSUME NEW v, NEW w, IsRequest(w), w.kind = "edit", w.job = 0,
         "validated" \notin DOMAIN w.columns
  PROVE  LET u == Library!Unvalidated(v, [w EXCEPT !.version = v])
         IN  /\ IsRequest(u)
             /\ u.kind = "edit" /\ u.version = v /\ u.job = 0
             /\ versions[v].validated # None => "validated" \in DOMAIN u.columns
             /\ "solution" \in DOMAIN u.columns => u.outdates = Library!Jobs(v)
<1> DEFINE a == [w EXCEPT !.version = v]
           cols == [f \in {"validated"} \cup DOMAIN a.columns |->
                      IF f = "validated" THEN None ELSE a.columns[f]]
           b == [a EXCEPT !.columns = cols]
           u == Library!Unvalidated(v, a)
<1>1. DOMAIN w = Fields
  BY DEF IsRequest
<1>2. /\ DOMAIN a = Fields
      /\ a.kind = "edit" /\ a.version = v /\ a.job = 0
      /\ a.columns = w.columns /\ a.rows = w.rows /\ a.gone = w.gone /\ a.new = w.new
  BY <1>1 DEF Fields
<1>3. u = IF versions[v].validated = None /\ a.columns = <<>> THEN a ELSE Library!Touching(b)
  BY DEF Library!Unvalidated
<1> HIDE DEF a, u
<1>4. IsRequest(a)
  BY <1>2 DEF IsRequest
<1>5. /\ DOMAIN cols = {"validated"} \cup DOMAIN w.columns
      /\ cols["validated"] = None
  BY <1>2
<1>6. /\ DOMAIN b = Fields
      /\ b.kind = "edit" /\ b.version = v /\ b.job = 0
      /\ b.columns = cols /\ b.rows = w.rows /\ b.gone = w.gone /\ b.new = w.new
  BY <1>2 DEF Fields
<1> HIDE DEF b, cols
<1>7. IsRequest(b)
  <2>1. /\ DOMAIN w.columns \subseteq {"status", "solution", "validated"}
        /\ "status" \notin DOMAIN w.columns
    BY DEF IsRequest
  <2>2. DOMAIN b.columns \subseteq {"status", "solution", "validated"}
    BY <1>5, <1>6, <2>1
  <2>3. "status" \notin DOMAIN b.columns
    BY <1>5, <1>6, <2>1
  <2>4. "validated" \in DOMAIN b.columns => b.columns["validated"] = None
    BY <1>5, <1>6
  <2>5. (\E n \in Nat : DOMAIN b.new \subseteq 1..n)
        /\ \A x \in DOMAIN b.new :
              IsVersion(b.new[x]) /\ b.new[x].status = "DRAFT" /\ b.new[x].validated = None
    BY <1>6 DEF IsRequest
  <2>6. QED
    BY <1>6, <2>2, <2>3, <2>4, <2>5 DEF IsRequest
<1>8. CASE versions[v].validated = None /\ a.columns = <<>>
  <2>1. u = a
    BY <1>3, <1>8
  <2>2. DOMAIN a.columns = {}
    BY <1>8
  <2>3. QED
    BY <1>2, <1>4, <1>8, <2>1, <2>2 DEF u, a
<1>9. CASE ~(versions[v].validated = None /\ a.columns = <<>>)
  <2>1. u = Library!Touching(b)
    BY <1>3, <1>9
  <2>2. /\ IsRequest(u)
        /\ u.kind = "edit" /\ u.version = v /\ u.job = 0
        /\ u.columns = cols /\ u.outdates = Library!Jobs(v)
    BY <1>6, <1>7, <2>1, TouchingIs
  <2>3. "validated" \in DOMAIN u.columns
    BY <1>5, <2>2
  <2>4. QED
    BY <2>2, <2>3 DEF u, a
<1>10. QED
  BY <1>8, <1>9

\* Every edit is one of a draft, by such a request.
LEMMA EditIs ==
  ASSUME NEW v, NEW w, IsRequest(w), w.kind = "edit", w.job = 0,
         "validated" \notin DOMAIN w.columns, Library!Edit(v, w)
  PROVE  \E u : /\ IsRequest(u)
                /\ u.kind = "edit" /\ u.version = v /\ u.job = 0
                /\ versions[v].validated # None => "validated" \in DOMAIN u.columns
                /\ "solution" \in DOMAIN u.columns => u.outdates = Library!Jobs(v)
                /\ Library!Decide(u)
                /\ v \in DOMAIN versions /\ versions[v].status = "DRAFT"
                /\ jobs' = [j \in DOMAIN jobs |->
                      IF \E o \in Library!Open : o.kind = "verdict" /\ o.version = v /\ o.job = j
                      THEN [jobs[j] EXCEPT !.crossed = TRUE] ELSE jobs[j]]
<1> DEFINE u == Library!Unvalidated(v, [w EXCEPT !.version = v])
<1>1. /\ IsRequest(u)
      /\ u.kind = "edit" /\ u.version = v /\ u.job = 0
      /\ versions[v].validated # None => "validated" \in DOMAIN u.columns
      /\ "solution" \in DOMAIN u.columns => u.outdates = Library!Jobs(v)
  BY EditRequest
<1>2. /\ Library!Decide(u)
      /\ v \in DOMAIN versions /\ versions[v].status = "DRAFT"
      /\ jobs' = [j \in DOMAIN jobs |->
            IF \E o \in Library!Open : o.kind = "verdict" /\ o.version = v /\ o.job = j
            THEN [jobs[j] EXCEPT !.crossed = TRUE] ELSE jobs[j]]
  BY DEF Library!Edit, Library!IsDraft
<1> HIDE DEF u
<1>3. QED
  BY <1>1, <1>2

\* The four edits of a draft.
AnEdit(v) ==
    \/ \E s : Library!UpdateVersion(v, s)
    \/ \E t, test : Library!AddTest(v, t, test) \/ Library!UpdateTest(v, t, test)
    \/ \E t : Library!DeleteTest(v, t)

LEMMA AnEditIs ==
  ASSUME NEW v, AnEdit(v)
  PROVE  \E w : IsRequest(w) /\ w.kind = "edit" /\ w.job = 0
                  /\ "validated" \notin DOMAIN w.columns /\ Library!Edit(v, w)
<1> DEFINE N == Library!NoWrite
<1>1. /\ IsRequest(N) /\ DOMAIN N = Fields /\ DOMAIN N.columns = {}
      /\ N.kind = "edit" /\ N.job = 0
  BY NoWriteIs
<1> HIDE DEF N
<1>2. ASSUME NEW s, Library!UpdateVersion(v, s)
      PROVE  \E w : IsRequest(w) /\ w.kind = "edit" /\ w.job = 0
                      /\ "validated" \notin DOMAIN w.columns /\ Library!Edit(v, w)
  <2> DEFINE c == [solution |-> s]
             w == [N EXCEPT !.columns = c]
  <2>1. DOMAIN c = {"solution"}
    OBVIOUS
  <2>2. Library!Edit(v, w)
    BY <1>2 DEF Library!UpdateVersion, N
  <2> HIDE DEF c
  <2>3. /\ DOMAIN w = Fields /\ w.kind = "edit" /\ w.job = 0 /\ w.columns = c
        /\ w.rows = N.rows /\ w.gone = N.gone /\ w.new = N.new
    BY <1>1 DEF Fields
  <2> HIDE DEF w
  <2>4. IsRequest(w)
    BY <1>1, <2>1, <2>3 DEF IsRequest
  <2>5. QED
    BY <2>1, <2>2, <2>3, <2>4
<1>3. ASSUME NEW rows, Library!Edit(v, [N EXCEPT !.rows = rows])
      PROVE  \E w : IsRequest(w) /\ w.kind = "edit" /\ w.job = 0
                      /\ "validated" \notin DOMAIN w.columns /\ Library!Edit(v, w)
  <2> DEFINE w == [N EXCEPT !.rows = rows]
  <2>1. /\ DOMAIN w = Fields /\ w.kind = "edit" /\ w.job = 0 /\ w.columns = N.columns
        /\ w.gone = N.gone /\ w.new = N.new
    BY <1>1 DEF Fields
  <2>2. Library!Edit(v, w)
    BY <1>3
  <2> HIDE DEF w
  <2>3. IsRequest(w)
    BY <1>1, <2>1 DEF IsRequest
  <2>4. QED
    BY <1>1, <2>1, <2>2, <2>3
<1>4. ASSUME NEW gone, Library!Edit(v, [N EXCEPT !.gone = gone])
      PROVE  \E w : IsRequest(w) /\ w.kind = "edit" /\ w.job = 0
                      /\ "validated" \notin DOMAIN w.columns /\ Library!Edit(v, w)
  <2> DEFINE w == [N EXCEPT !.gone = gone]
  <2>1. /\ DOMAIN w = Fields /\ w.kind = "edit" /\ w.job = 0 /\ w.columns = N.columns
        /\ w.rows = N.rows /\ w.new = N.new
    BY <1>1 DEF Fields
  <2>2. Library!Edit(v, w)
    BY <1>4
  <2> HIDE DEF w
  <2>3. IsRequest(w)
    BY <1>1, <2>1 DEF IsRequest
  <2>4. QED
    BY <1>1, <2>1, <2>2, <2>3
<1>5. ASSUME NEW t, NEW test, Library!AddTest(v, t, test) \/ Library!UpdateTest(v, t, test)
      PROVE  \E rows : Library!Edit(v, [N EXCEPT !.rows = rows])
  BY <1>5 DEF Library!AddTest, Library!UpdateTest, N
<1>6. ASSUME NEW t, Library!DeleteTest(v, t)
      PROVE  \E gone : Library!Edit(v, [N EXCEPT !.gone = gone])
  BY <1>6 DEF Library!DeleteTest, N
<1>7. QED
  BY <1>2, <1>3, <1>4, <1>5, <1>6 DEF AnEdit

LEMMA PublishIs ==
  ASSUME NEW v, Library!Publish(v)
  PROVE  \E w : /\ IsRequest(w) /\ w.kind = "publish" /\ w.version = v /\ w.job = 0
                /\ v \in DOMAIN versions
                /\ Library!Decide(w) /\ UNCHANGED <<jobs, edits>>
<1> DEFINE N == Library!NoWrite
           c == [status |-> "PUBLISHED"]
           a == [N EXCEPT !.kind = "publish", !.version = v, !.columns = c]
           w == Library!Touching(a)
<1>1. /\ IsRequest(N) /\ DOMAIN N = Fields /\ N.job = 0
      /\ DOMAIN N.rows = {} /\ N.gone = {}
  BY NoWriteIs
<1>2. Library!Decide(w) /\ UNCHANGED <<jobs, edits>> /\ v \in DOMAIN versions
  BY DEF Library!Publish, Library!IsDraft
<1>3. DOMAIN c = {"status"} /\ c["status"] = "PUBLISHED"
  OBVIOUS
<1> HIDE DEF N, c
<1>4. /\ DOMAIN a = Fields /\ a.kind = "publish" /\ a.version = v /\ a.job = 0 /\ a.columns = c
      /\ a.rows = N.rows /\ a.gone = N.gone /\ a.new = N.new
  BY <1>1 DEF Fields
<1> HIDE DEF a
<1>5. IsRequest(a)
  BY <1>1, <1>3, <1>4 DEF IsRequest
<1>6. IsRequest(w) /\ w.kind = "publish" /\ w.version = v /\ w.job = 0
  BY <1>4, <1>5, TouchingIs
<1>7. QED
  BY <1>2, <1>6

LEMMA DiscardIs ==
  ASSUME NEW v, Library!DiscardDraft(v)
  PROVE  \E w : /\ IsRequest(w) /\ w.kind = "drop" /\ w.version = v /\ w.job = 0
                /\ v \in DOMAIN versions
                /\ Library!Decide(w) /\ UNCHANGED <<jobs, edits>>
<1> DEFINE N == Library!NoWrite
           w == [N EXCEPT !.kind = "drop", !.version = v, !.drops = {v}, !.touches = TRUE]
<1>1. /\ IsRequest(N) /\ DOMAIN N = Fields /\ N.job = 0
      /\ DOMAIN N.columns = {} /\ DOMAIN N.rows = {} /\ N.gone = {}
  BY NoWriteIs
<1>2. Library!Decide(w) /\ UNCHANGED <<jobs, edits>> /\ v \in DOMAIN versions
  BY DEF Library!DiscardDraft, Library!IsDraft
<1> HIDE DEF N
<1>3. /\ DOMAIN w = Fields /\ w.kind = "drop" /\ w.version = v /\ w.job = 0
      /\ w.columns = N.columns /\ w.rows = N.rows /\ w.gone = N.gone /\ w.new = N.new
  BY <1>1 DEF Fields
<1> HIDE DEF w
<1>4. IsRequest(w)
  BY <1>1, <1>3 DEF IsRequest
<1>5. QED
  BY <1>2, <1>3, <1>4

LEMMA DeleteIs ==
  ASSUME Library!Delete
  PROVE  \E w : /\ IsRequest(w) /\ w.kind = "delete" /\ w.version = 0 /\ w.job = 0
                /\ Library!Decide(w) /\ UNCHANGED <<jobs, edits>>
<1> DEFINE N == Library!NoWrite
           w == [N EXCEPT !.kind = "delete"]
<1>1. /\ IsRequest(N) /\ DOMAIN N = Fields /\ N.job = 0 /\ N.version = 0
      /\ DOMAIN N.columns = {} /\ DOMAIN N.rows = {} /\ N.gone = {}
  BY NoWriteIs
<1>2. Library!Decide(w) /\ UNCHANGED <<jobs, edits>>
  BY DEF Library!Delete
<1> HIDE DEF N
<1>3. /\ DOMAIN w = Fields /\ w.kind = "delete" /\ w.version = 0 /\ w.job = 0
      /\ w.columns = N.columns /\ w.rows = N.rows /\ w.gone = N.gone /\ w.new = N.new
  BY <1>1 DEF Fields
<1> HIDE DEF w
<1>4. IsRequest(w)
  BY <1>1, <1>3 DEF IsRequest
<1>5. QED
  BY <1>2, <1>3, <1>4

LEMMA NewVersionIs ==
  ASSUME LibraryShape, Library!NewVersion
  PROVE  \E w : /\ IsRequest(w) /\ w.kind = "new" /\ w.version = 0 /\ w.job = 0
                /\ Library!Decide(w) /\ UNCHANGED <<jobs, edits>>
<1> DEFINE N == Library!NoWrite
           newest == Library!Max(DOMAIN versions)
           draft == Library!Draft(versions[newest].solution, versions[newest].tests)
           new == [v \in {newest + 1} |-> draft]
           w == [N EXCEPT !.kind = "new", !.new = new]
<1>1. /\ IsRequest(N) /\ DOMAIN N = Fields /\ N.job = 0 /\ N.version = 0
      /\ DOMAIN N.columns = {} /\ DOMAIN N.rows = {} /\ N.gone = {}
  BY NoWriteIs
<1>2. Library!Decide(w) /\ UNCHANGED <<jobs, edits>> /\ versions # <<>>
  BY DEF Library!NewVersion
<1>3. newest \in DOMAIN versions /\ newest \in Nat
  <2>1. PICK n \in Nat : DOMAIN versions \subseteq 1..n
    BY DEF LibraryShape
  <2>2. DOMAIN versions # {}
    <3>1. versions = [v \in DOMAIN versions |-> versions[v]]
      BY DEF LibraryShape
    <3>2. QED
      BY <1>2, <3>1
  <2>3. \E x \in DOMAIN versions : \A y \in DOMAIN versions : x >= y
    BY <2>1, <2>2, Largest
  <2>4. newest \in DOMAIN versions
    BY <2>3 DEF Library!Max
  <2>5. QED
    BY <2>1, <2>4
<1>4. IsVersion(versions[newest])
  BY <1>3 DEF LibraryShape
<1>5. IsVersion(draft) /\ draft.status = "DRAFT" /\ draft.validated = None
  BY <1>4 DEF IsVersion, Library!Draft, VersionColumns
<1> HIDE DEF N, newest, draft
<1>6. DOMAIN new = {newest + 1} /\ \A v \in DOMAIN new : new[v] = draft
  OBVIOUS
<1>7. DOMAIN new \subseteq 1..(newest + 1) /\ newest + 1 \in Nat
  BY <1>3, <1>6
<1> HIDE DEF new
<1>8. /\ DOMAIN w = Fields /\ w.kind = "new" /\ w.version = 0 /\ w.job = 0
      /\ w.columns = N.columns /\ w.rows = N.rows /\ w.gone = N.gone /\ w.new = new
  BY <1>1 DEF Fields
<1> HIDE DEF w
<1>9. IsRequest(w)
  BY <1>1, <1>5, <1>6, <1>7, <1>8 DEF IsRequest
<1>10. QED
  BY <1>2, <1>8, <1>9

LEMMA ValidationIs ==
  ASSUME NEW v, Library!RequestValidation(v)
  PROVE  \E w : /\ IsRequest(w) /\ w.kind = "validate" /\ w.version = v /\ w.job = Len(jobs) + 1
                /\ v \in DOMAIN versions
                /\ Library!Decide(w)
                /\ jobs' = Append(jobs, [version |-> v, state |-> "new",
                             solution |-> versions[v].solution, inputs |-> <<>>,
                             outdated |-> FALSE,
                             crossed |-> Library!Crosses([version |-> v], "edit")])
<1> DEFINE N == Library!NoWrite
           n == Len(jobs) + 1
           w == [N EXCEPT !.kind = "validate", !.version = v, !.job = n]
<1>1. /\ IsRequest(N) /\ DOMAIN N = Fields
      /\ DOMAIN N.columns = {} /\ DOMAIN N.rows = {} /\ N.gone = {}
  BY NoWriteIs
<1>2. /\ Library!Decide(w) /\ v \in DOMAIN versions
      /\ jobs' = Append(jobs, [version |-> v, state |-> "new",
                   solution |-> versions[v].solution, inputs |-> <<>>,
                   outdated |-> FALSE,
                   crossed |-> Library!Crosses([version |-> v], "edit")])
  BY DEF Library!RequestValidation
<1> HIDE DEF N, n
<1>3. /\ DOMAIN w = Fields /\ w.kind = "validate" /\ w.version = v /\ w.job = n
      /\ w.columns = N.columns /\ w.rows = N.rows /\ w.gone = N.gone /\ w.new = N.new
  BY <1>1 DEF Fields
<1> HIDE DEF w
<1>4. IsRequest(w)
  BY <1>1, <1>3 DEF IsRequest
<1>5. QED
  BY <1>2, <1>3, <1>4 DEF n

\* An accepted verdict; it says what the outputs were if the job still stands.
LEMMA AcceptIs ==
  ASSUME NEW j, Library!Accept(j)
  PROVE  \E w : /\ IsRequest(w) /\ w.kind = "verdict" /\ w.version = jobs[j].version /\ w.job = j
                /\ Library!Decide(w)
                /\ jobs[j].state = "running"
                /\ ~\E o \in Library!Open : o.job = j
                /\ "validated" \in DOMAIN w.columns =>
                     /\ ~jobs[j].outdated
                     /\ w.columns["validated"] =
                          [job |-> j, outputs |-> [t \in DOMAIN versions[w.version].tests |->
                                                     versions[w.version].tests[t].output]]
                /\ jobs' = [jobs EXCEPT ![j].crossed = @ \/ Library!Crosses(w, "edit")]
<1> DEFINE N == Library!NoWrite
           v == jobs[j].version
           by == [job |-> j, outputs |-> [t \in DOMAIN versions[v].tests |->
                                            versions[v].tests[t].output]]
           c == [validated |-> by]
           verdict == [N EXCEPT !.kind = "verdict", !.version = v, !.job = j]
           a == [verdict EXCEPT !.columns = c]
<1>1. /\ IsRequest(N) /\ DOMAIN N = Fields
      /\ DOMAIN N.columns = {} /\ DOMAIN N.rows = {} /\ N.gone = {}
  BY NoWriteIs
<1>2. /\ jobs[j].state = "running"
      /\ ~\E o \in Library!Open : o.job = j
      /\ Library!Decide(IF Library!StillStands(j) THEN Library!Touching(a) ELSE verdict)
      /\ jobs' = [jobs EXCEPT ![j].crossed = @ \/ Library!Crosses(verdict, "edit")]
  BY DEF Library!Accept
<1> HIDE DEF N, by
<1>3. DOMAIN c = {"validated"} /\ c["validated"] = by
  OBVIOUS
<1>4. /\ DOMAIN verdict = Fields
      /\ verdict.kind = "verdict" /\ verdict.version = v /\ verdict.job = j
      /\ verdict.columns = N.columns /\ verdict.rows = N.rows /\ verdict.gone = N.gone
      /\ verdict.new = N.new
  BY <1>1 DEF Fields
<1> HIDE DEF c, verdict
<1>5. /\ DOMAIN a = Fields /\ a.kind = "verdict" /\ a.version = v /\ a.job = j /\ a.columns = c
      /\ a.rows = N.rows /\ a.gone = N.gone /\ a.new = N.new
  BY <1>4 DEF Fields
<1> HIDE DEF a
<1>6. IsRequest(a)
  BY <1>1, <1>3, <1>5 DEF IsRequest
<1>7. IsRequest(verdict) /\ "validated" \notin DOMAIN verdict.columns
  BY <1>1, <1>4 DEF IsRequest
<1>8. CASE Library!StillStands(j)
  <2> DEFINE w == Library!Touching(a)
  <2>1. /\ IsRequest(w) /\ w.kind = "verdict" /\ w.version = v /\ w.job = j /\ w.columns = c
    BY <1>5, <1>6, TouchingIs
  <2>2. Library!Decide(w) /\ ~jobs[j].outdated
    BY <1>2, <1>8 DEF Library!StillStands
  <2> HIDE DEF w
  <2>3. jobs' = [jobs EXCEPT ![j].crossed = @ \/ Library!Crosses(w, "edit")]
    BY <1>2, <1>4, <2>1 DEF Library!Crosses
  <2>4. w.columns["validated"] =
          [job |-> j, outputs |-> [t \in DOMAIN versions[w.version].tests |->
                                     versions[w.version].tests[t].output]]
    <3>1. w.columns["validated"] = by
      BY <1>3, <2>1
    <3>2. w.version = v
      BY <2>1
    <3>3. QED
      BY <3>1, <3>2, Zenon DEF by
  <2>5. w.version = jobs[j].version
    BY <2>1
  <2> HIDE DEF v
  <2>6. QED
    BY <1>2, <2>1, <2>2, <2>3, <2>4, <2>5
<1>9. CASE ~Library!StillStands(j)
  <2>1. Library!Decide(verdict)
    BY <1>2, <1>9
  <2>2. QED
    BY <1>2, <1>4, <1>7, <2>1
<1>10. QED
  BY <1>8, <1>9

\* Every step of the library scene keeps the invariant, and what is published.
LEMMA PublishedStep ==
  ASSUME PublishedInv, Library!Next
  PROVE  PublishedInv' /\ PublishedKept
<1>0. LibraryShape
  BY DEF PublishedInv
<1>1. ASSUME NEW w, Library!Decide(w), IsRequest(w),
             w.kind # "verdict" => w.version \in DOMAIN versions \cup {0},
             w.kind = "edit" /\ w.version \in DOMAIN versions => versions[w.version].status = "DRAFT"
      PROVE  PublishedInv' /\ PublishedKept
  BY <1>0, <1>1, FlushShape, FlushKept
<1>2. ASSUME NEW v, AnEdit(v)
      PROVE  PublishedInv' /\ PublishedKept
  <2>1. PICK w : IsRequest(w) /\ w.kind = "edit" /\ w.job = 0
                   /\ "validated" \notin DOMAIN w.columns /\ Library!Edit(v, w)
    BY <1>2, AnEditIs
  <2>2. PICK u : /\ IsRequest(u) /\ u.kind = "edit" /\ u.version = v /\ Library!Decide(u)
                 /\ v \in DOMAIN versions /\ versions[v].status = "DRAFT"
    BY <2>1, EditIs
  <2>3. QED
    BY <1>1, <2>2
<1>3. ASSUME NEW v, Library!Publish(v)
      PROVE  PublishedInv' /\ PublishedKept
  <2>1. PICK w : /\ IsRequest(w) /\ w.kind = "publish" /\ w.version = v /\ v \in DOMAIN versions
                 /\ Library!Decide(w)
    BY <1>3, PublishIs
  <2>2. QED
    BY <1>1, <2>1
<1>4. ASSUME NEW v, Library!DiscardDraft(v)
      PROVE  PublishedInv' /\ PublishedKept
  <2>1. PICK w : /\ IsRequest(w) /\ w.kind = "drop" /\ w.version = v /\ v \in DOMAIN versions
                 /\ Library!Decide(w)
    BY <1>4, DiscardIs
  <2>2. QED
    BY <1>1, <2>1
<1>5. ASSUME NEW v, Library!RequestValidation(v)
      PROVE  PublishedInv' /\ PublishedKept
  <2>1. PICK w : /\ IsRequest(w) /\ w.kind = "validate" /\ w.version = v /\ v \in DOMAIN versions
                 /\ Library!Decide(w)
    BY <1>5, ValidationIs
  <2>2. QED
    BY <1>1, <2>1
<1>6. ASSUME Library!NewVersion
      PROVE  PublishedInv' /\ PublishedKept
  <2>1. PICK w : IsRequest(w) /\ w.kind = "new" /\ w.version = 0 /\ Library!Decide(w)
    BY <1>0, <1>6, NewVersionIs
  <2>2. QED
    BY <1>1, <2>1
<1>7. ASSUME Library!Delete
      PROVE  PublishedInv' /\ PublishedKept
  <2>1. PICK w : IsRequest(w) /\ w.kind = "delete" /\ w.version = 0 /\ Library!Decide(w)
    BY <1>7, DeleteIs
  <2>2. QED
    BY <1>1, <2>1
<1>8. ASSUME NEW j, Library!Accept(j)
      PROVE  PublishedInv' /\ PublishedKept
  <2>1. PICK w : IsRequest(w) /\ w.kind = "verdict" /\ Library!Decide(w)
    BY <1>8, AcceptIs
  <2>2. QED
    BY <1>1, <2>1
<1>9. ASSUME NEW j, Library!Claim(j) \/ Library!Reject(j)
      PROVE  PublishedInv' /\ PublishedKept
  BY <1>9, OthersKept DEF Library!Claim, Library!Reject
<1>10. QED
  <2>1. \/ \E v : AnEdit(v) \/ Library!Publish(v) \/ Library!DiscardDraft(v) \/ Library!Pin(v)
                    \/ Library!RequestValidation(v)
        \/ Library!NewVersion \/ Library!Delete
        \/ \E j : Library!Claim(j) \/ Library!Accept(j) \/ Library!Reject(j)
        \/ \E i \in DOMAIN open : Library!Commit(i) \/ Library!RollBack(i)
    BY DEF Library!Next, AnEdit
  <2>2. QED
    BY <2>1, <1>2, <1>3, <1>4, <1>5, <1>6, <1>7, <1>8, <1>9, CommitKept, RollBackKept, PinKept

LEMMA PublishedFromInit == AllInit => PublishedInv
<1> SUFFICES ASSUME AllInit PROVE PublishedInv
  OBVIOUS
<1>1. Library!Init
  BY DEF AllInit
<1>2. pinned = {} /\ open = <<>>
  BY <1>1 DEF Library!Init
<1>3. PICK draft : versions = <<draft>> /\ IsVersion(draft)
  <2>1. PICK t \in Library!Test, s \in Solutions :
          versions \in {<<Library!Draft(None, <<>>)>>,
                        <<Library!Draft(s, [i \in Library!TestIds |-> t])>>}
    BY <1>1 DEF Library!Init
  <2>2. IsVersion(Library!Draft(None, <<>>))
    BY DEF IsVersion, Library!Draft, VersionColumns
  <2>3. IsVersion(Library!Draft(s, [i \in Library!TestIds |-> t]))
    BY DEF IsVersion, Library!Draft, VersionColumns
  <2>4. QED
    BY <2>1, <2>2, <2>3
<1>4. DOMAIN versions = {1} /\ versions[1] = draft /\ versions = [v \in {1} |-> draft]
  BY <1>3
<1>5. Library!Open = {}
  BY <1>2, OpenIs
<1>6. IsSequence(open)
  BY <1>2 DEF IsSequence
<1>7. DOMAIN versions \subseteq 1..1 /\ 1 \in Nat
  BY <1>4
<1>8. versions = [v \in DOMAIN versions |-> versions[v]]
  BY <1>4
<1>9. LibraryShape
  BY <1>2, <1>3, <1>4, <1>5, <1>6, <1>7, <1>8 DEF LibraryShape
<1>10. EditsCross
  BY <1>5 DEF EditsCross
<1>11. QED
  BY <1>9, <1>10 DEF PublishedInv

\* A version whose publication no edit overlapped never changes again, and a version that an
\* exam examines is there, for any number of versions and of requests at once
\* (CodingProblemService; the foreign key of questions).
THEOREM PublishedDoesStand == AdministrationSpec => PublishedStands
<1>1. PublishedInv /\ [AllNext]_allVars => PublishedInv' /\ [PublishedKept]_libraryVars
  <2> SUFFICES ASSUME PublishedInv, [AllNext]_allVars
               PROVE  PublishedInv' /\ [PublishedKept]_libraryVars
    OBVIOUS
  <2>1. CASE Library!Next
    BY <2>1, PublishedStep
  <2>2. CASE UNCHANGED libraryVars
    <3>1. UNCHANGED <<versions, pinned, open>>
      BY <2>2 DEF libraryVars
    <3>2. QED
      BY <2>2, <3>1, OthersKept
  <2>3. QED
    BY <2>1, <2>2 DEF AllNext, AuthoringStep, ReviewStep, LibraryStep, allVars
<1>2. QED
  BY PublishedFromInit, <1>1, PTL
     DEF AdministrationSpec, PublishedStands, Library!PublishedStands, PublishedKept,
         Library!vars, libraryVars

-----------------------------------------------------------------------------
(* Validation. *)

\* A job that may still count.
Live(j) == jobs[j].state \in {"new", "queued", "running"}

\* A request of a job.
OfJob(o) == o.kind \in {"validate", "verdict"}

\* It says which job, and the job waits for it while the version is there.
NamesJob(o) ==
    /\ ~OfJob(o) => o.job = 0
    /\ OfJob(o) => o.job \in DOMAIN jobs
    /\ OfJob(o) /\ o.version # 0 => jobs[o.job].version = o.version /\ Live(o.job)

\* A job has one request at a time.
JobsApart ==
    \A i, k \in DOMAIN open :
        OfJob(open[i]) /\ OfJob(open[k]) /\ open[i].job = open[k].job => i = k

JobsShape ==
    /\ IsSequence(jobs)
    /\ \A j \in DOMAIN jobs : DOMAIN jobs[j] = JobColumns
    /\ \A o \in Library!Open : NamesJob(o)
    /\ JobsApart

\* A job that may count is of the solution the version has, and every edit of the solution that
\* is under way will outdate it.
JobFits(j) ==
    Live(j) =>
      /\ jobs[j].version \in DOMAIN versions
      /\ ~jobs[j].crossed /\ ~jobs[j].outdated =>
            jobs[j].solution = versions[jobs[j].version].solution
      /\ ~jobs[j].crossed =>
            \A e \in Library!Open :
               e.kind = "edit" /\ e.version = jobs[j].version /\ "solution" \in DOMAIN e.columns
                  => j \in e.outdates

JobsFit == \A j \in DOMAIN jobs : JobFits(j)

\* by validates this version.
Validates(by, version) ==
    /\ jobs[by.job].solution = version.solution
    /\ \A t \in DOMAIN version.tests :
          t \in DOMAIN by.outputs /\ by.outputs[t] = version.tests[t].output

\* A verdict that is under way names its job, and has no edit beside it unless it is crossed.
VerdictFits(o) ==
    o.kind = "verdict" =>
      /\ "validated" \in DOMAIN o.columns => o.columns["validated"].job = o.job
      /\ o.version \in DOMAIN versions /\ ~jobs[o.job].crossed =>
            /\ \A e \in Library!Open : e.kind = "edit" => e.version # o.version
            /\ "validated" \in DOMAIN o.columns =>
                  Validates(o.columns["validated"], versions[o.version])

VerdictsFit == \A o \in Library!Open : VerdictFits(o)

\* A validation that is not crossed is of the version as it stands, and every edit that is under
\* way will end it.
ValidationFits(v) ==
    versions[v].validated # None =>
      /\ versions[v].validated.job \in DOMAIN jobs
      /\ ~jobs[versions[v].validated.job].crossed =>
            /\ Validates(versions[v].validated, versions[v])
            /\ \A e \in Library!Open :
                  e.kind = "edit" /\ e.version = v => "validated" \in DOMAIN e.columns

ValidationsFit == \A v \in DOMAIN versions : ValidationFits(v)

ValidatedInv == PublishedInv /\ JobsShape /\ JobsFit /\ VerdictsFit /\ ValidationsFit

\* What jobs and versions keep in every step but a commit.
Onward ==
    /\ DOMAIN jobs \subseteq DOMAIN jobs'
    /\ \A j \in DOMAIN jobs :
          /\ DOMAIN jobs'[j] = JobColumns
          /\ jobs'[j].version = jobs[j].version
          /\ jobs'[j].solution = jobs[j].solution
          /\ jobs'[j].outdated = jobs[j].outdated
          /\ jobs[j].crossed => jobs'[j].crossed
          /\ Live(j)' => Live(j)
    /\ DOMAIN versions' = DOMAIN versions
    /\ \A v \in DOMAIN versions :
          /\ versions'[v].solution = versions[v].solution
          /\ versions'[v].tests = versions[v].tests
          /\ versions'[v].validated = versions[v].validated

\* An edit that comes to what is under way outdates the jobs, crosses the verdicts, and ends the
\* validation.
Arrives(e) ==
    /\ "solution" \in DOMAIN e.columns =>
          \A j \in DOMAIN jobs : Live(j) /\ jobs[j].version = e.version => j \in e.outdates
    /\ \A o \in Library!Open :
          o.kind = "verdict" /\ o.version = e.version => jobs'[o.job].crossed
    /\ e.version \in DOMAIN versions /\ versions[e.version].validated # None =>
          "validated" \in DOMAIN e.columns

EditsArrive == \A e \in Library!Open' : e.kind = "edit" => e \in Library!Open \/ Arrives(e)

LEMMA ValidatesOnward ==
  ASSUME Onward, NEW by, by.job \in DOMAIN jobs, NEW v \in DOMAIN versions,
         Validates(by, versions[v])
  PROVE  Validates(by, versions[v])'
<1>1. jobs'[by.job].solution = jobs[by.job].solution
  BY DEF Onward
<1>2. versions'[v].solution = versions[v].solution /\ versions'[v].tests = versions[v].tests
  BY DEF Onward
<1>3. QED
  BY <1>1, <1>2 DEF Validates

LEMMA JobsOnward ==
  ASSUME JobsFit, Onward, EditsArrive, NEW j \in DOMAIN jobs
  PROVE  JobFits(j)'
<1> SUFFICES ASSUME Live(j)'
             PROVE  /\ jobs'[j].version \in DOMAIN versions'
                    /\ ~jobs'[j].crossed /\ ~jobs'[j].outdated =>
                          jobs'[j].solution = versions'[jobs'[j].version].solution
                    /\ ~jobs'[j].crossed =>
                          \A e \in Library!Open' :
                             e.kind = "edit" /\ e.version = jobs'[j].version
                                 /\ "solution" \in DOMAIN e.columns => j \in e.outdates
  BY DEF JobFits
<1>1. /\ jobs'[j].version = jobs[j].version
      /\ jobs'[j].solution = jobs[j].solution
      /\ jobs'[j].outdated = jobs[j].outdated
      /\ jobs[j].crossed => jobs'[j].crossed
      /\ Live(j)
      /\ DOMAIN versions' = DOMAIN versions
  BY DEF Onward
<1>2. /\ jobs[j].version \in DOMAIN versions
      /\ ~jobs[j].crossed /\ ~jobs[j].outdated =>
            jobs[j].solution = versions[jobs[j].version].solution
      /\ ~jobs[j].crossed =>
            \A e \in Library!Open :
               e.kind = "edit" /\ e.version = jobs[j].version /\ "solution" \in DOMAIN e.columns
                  => j \in e.outdates
  BY <1>1 DEF JobsFit, JobFits
<1>3. versions'[jobs[j].version].solution = versions[jobs[j].version].solution
  BY <1>2 DEF Onward
<1>4. ~jobs'[j].crossed /\ ~jobs'[j].outdated =>
         jobs'[j].solution = versions'[jobs'[j].version].solution
  BY <1>1, <1>2, <1>3
<1>5. ASSUME ~jobs'[j].crossed, NEW e \in Library!Open', e.kind = "edit",
             e.version = jobs'[j].version, "solution" \in DOMAIN e.columns
      PROVE  j \in e.outdates
  BY <1>1, <1>2, <1>5 DEF EditsArrive, Arrives
<1>6. QED
  BY <1>1, <1>2, <1>4, <1>5

LEMMA VerdictsOnward ==
  ASSUME VerdictsFit, Onward, EditsArrive, NEW o \in Library!Open, NamesJob(o)
  PROVE  VerdictFits(o)'
<1> SUFFICES ASSUME o.kind = "verdict"
             PROVE  /\ "validated" \in DOMAIN o.columns => o.columns["validated"].job = o.job
                    /\ o.version \in DOMAIN versions' /\ ~jobs'[o.job].crossed =>
                          /\ \A e \in Library!Open' : e.kind = "edit" => e.version # o.version
                          /\ "validated" \in DOMAIN o.columns =>
                                Validates(o.columns["validated"], versions[o.version])'
  BY DEF VerdictFits
<1>1. /\ "validated" \in DOMAIN o.columns => o.columns["validated"].job = o.job
      /\ o.version \in DOMAIN versions /\ ~jobs[o.job].crossed =>
            /\ \A e \in Library!Open : e.kind = "edit" => e.version # o.version
            /\ "validated" \in DOMAIN o.columns =>
                  Validates(o.columns["validated"], versions[o.version])
  BY DEF VerdictsFit, VerdictFits
<1>2. o.job \in DOMAIN jobs
  BY DEF NamesJob, OfJob
<1>3. (jobs[o.job].crossed => jobs'[o.job].crossed) /\ DOMAIN versions' = DOMAIN versions
  BY <1>2 DEF Onward
<1>4. ASSUME o.version \in DOMAIN versions', ~jobs'[o.job].crossed
      PROVE  /\ \A e \in Library!Open' : e.kind = "edit" => e.version # o.version
             /\ "validated" \in DOMAIN o.columns =>
                   Validates(o.columns["validated"], versions[o.version])'
  <2>1. ASSUME NEW e \in Library!Open', e.kind = "edit"
        PROVE  e.version # o.version
    BY <1>1, <1>3, <1>4, <2>1 DEF EditsArrive, Arrives
  <2>2. ASSUME "validated" \in DOMAIN o.columns
        PROVE  Validates(o.columns["validated"], versions[o.version])'
    BY <1>1, <1>2, <1>3, <1>4, <2>2, ValidatesOnward
  <2>3. QED
    BY <2>1, <2>2
<1>5. QED
  BY <1>1, <1>4

LEMMA ValidationsOnward ==
  ASSUME ValidationsFit, Onward, EditsArrive
  PROVE  ValidationsFit'
<1>1. DOMAIN versions' = DOMAIN versions
  BY DEF Onward
<1> SUFFICES ASSUME NEW v \in DOMAIN versions PROVE ValidationFits(v)'
  BY <1>1 DEF ValidationsFit
<1>2. PICK by : by = versions[v].validated
  OBVIOUS
<1>3. versions'[v].validated = by
  BY <1>2 DEF Onward
<1>4. ASSUME by # None
      PROVE  /\ by.job \in DOMAIN jobs'
             /\ ~jobs'[by.job].crossed =>
                   /\ Validates(by, versions[v])'
                   /\ \A e \in Library!Open' :
                         e.kind = "edit" /\ e.version = v => "validated" \in DOMAIN e.columns
  <2>1. /\ by.job \in DOMAIN jobs
        /\ ~jobs[by.job].crossed =>
              /\ Validates(by, versions[v])
              /\ \A e \in Library!Open :
                    e.kind = "edit" /\ e.version = v => "validated" \in DOMAIN e.columns
    BY <1>2, <1>4 DEF ValidationsFit, ValidationFits
  <2>2. by.job \in DOMAIN jobs' /\ (jobs[by.job].crossed => jobs'[by.job].crossed)
    BY <2>1 DEF Onward
  <2>3. ~jobs'[by.job].crossed => Validates(by, versions[v])'
    BY <2>1, <2>2, ValidatesOnward
  <2>4. ASSUME ~jobs'[by.job].crossed, NEW e \in Library!Open', e.kind = "edit", e.version = v
        PROVE  "validated" \in DOMAIN e.columns
    BY <1>2, <1>4, <2>1, <2>2, <2>4 DEF EditsArrive, Arrives
  <2>5. QED
    BY <2>2, <2>3, <2>4
<1>5. by # None => Validates(by, versions[v])' = Validates(versions[v].validated, versions[v])'
  BY <1>3 DEF Validates
<1>6. QED
  BY <1>3, <1>4, <1>5 DEF ValidationFits

LEMMA SameLength ==
  ASSUME NEW s, IsSequence(s), NEW t, t = [i \in DOMAIN s |-> t[i]]
  PROVE  IsSequence(t)
<1> DEFINE S == {s[i] : i \in DOMAIN s}
           T == {t[i] : i \in DOMAIN t}
<1>1. s \in Seq(S)
  BY DEF IsSequence
<1> HIDE DEF S
<1>2. Len(s) \in Nat /\ DOMAIN s = 1..Len(s)
  BY <1>1
<1>3. t = [i \in 1..Len(s) |-> t[i]] /\ \A i \in 1..Len(s) : t[i] \in T
  BY <1>2
<1> HIDE DEF T
<1>4. t \in Seq(T)
  BY <1>2, <1>3
<1>5. QED
  BY <1>4 DEF IsSequence, T

\* A step with no new request, or with one that is not of a job, and that leaves the jobs that
\* requests name alone.
LEMMA OnwardKeeps ==
  ASSUME ValidatedInv, PublishedInv', IsSequence(jobs'), Onward, EditsArrive,
         DOMAIN jobs' = DOMAIN jobs,
         \A o \in Library!Open' :
            \/ /\ o \in Library!Open
               /\ OfJob(o) => (Live(o.job) => Live(o.job)')
            \/ ~OfJob(o) /\ o.job = 0,
         JobsApart'
  PROVE  ValidatedInv'
<1>1. JobsShape /\ JobsFit /\ VerdictsFit /\ ValidationsFit
  BY DEF ValidatedInv
<1>2. \A j \in DOMAIN jobs : DOMAIN jobs'[j] = JobColumns /\ jobs'[j].version = jobs[j].version
  BY DEF Onward
<1>3. ASSUME NEW o \in Library!Open'
      PROVE  NamesJob(o)'
  <2>1. CASE /\ o \in Library!Open
             /\ OfJob(o) => (Live(o.job) => Live(o.job)')
    <3>1. NamesJob(o)
      BY <1>1, <2>1 DEF JobsShape
    <3>2. QED
      BY <1>2, <2>1, <3>1 DEF NamesJob, OfJob
  <2>2. CASE ~OfJob(o) /\ o.job = 0
    BY <2>2 DEF NamesJob, OfJob
  <2>3. QED
    BY <2>1, <2>2
<1>4. JobsShape'
  BY <1>2, <1>3 DEF JobsShape
<1>5. JobsFit'
  BY <1>1, JobsOnward DEF JobsFit
<1>6. ASSUME NEW o \in Library!Open'
      PROVE  VerdictFits(o)'
  <2>1. CASE o \in Library!Open
    <3>1. NamesJob(o)
      BY <1>1, <2>1 DEF JobsShape
    <3>2. QED
      BY <1>1, <2>1, <3>1, VerdictsOnward
  <2>2. CASE ~OfJob(o)
    BY <2>2 DEF VerdictFits, OfJob
  <2>3. QED
    BY <2>1, <2>2
<1>7. VerdictsFit'
  BY <1>6 DEF VerdictsFit
<1>8. ValidationsFit'
  BY <1>1, ValidationsOnward
<1>9. QED
  BY <1>4, <1>5, <1>7, <1>8 DEF ValidatedInv

LEMMA ApartGrows ==
  ASSUME IsSequence(open), JobsApart, NEW w, open' = Append(open, w),
         OfJob(w) => \A o \in Library!Open : OfJob(o) => o.job # w.job
  PROVE  JobsApart'
<1>1. /\ DOMAIN open' = DOMAIN open \cup {Len(open) + 1}
      /\ \A k \in DOMAIN open : open'[k] = open[k]
      /\ open'[Len(open) + 1] = w
  BY OpenGrows
<1> DEFINE n == Len(open) + 1
<1> SUFFICES ASSUME NEW i \in DOMAIN open', NEW k \in DOMAIN open',
                    OfJob(open'[i]), OfJob(open'[k]), open'[i].job = open'[k].job
             PROVE  i = k
  BY DEF JobsApart, OfJob
<1> HIDE DEF n
<1>2. ASSUME NEW x \in DOMAIN open, OfJob(open[x]), OfJob(w)
      PROVE  open[x].job # w.job
  BY <1>2, OpenIs
<1>3. (i \in DOMAIN open \/ i = n) /\ (k \in DOMAIN open \/ k = n)
  BY <1>1 DEF n
<1>4. open'[n] = w
  BY <1>1 DEF n
<1>5. CASE i \in DOMAIN open /\ k \in DOMAIN open
  BY <1>1, <1>5 DEF JobsApart
<1>6. CASE i \in DOMAIN open /\ k = n
  BY <1>1, <1>2, <1>4, <1>6
<1>7. CASE i = n /\ k \in DOMAIN open
  BY <1>1, <1>2, <1>4, <1>7
<1>8. QED
  BY <1>3, <1>5, <1>6, <1>7

\* Publish, discard, delete, a new version.
LEMMA OtherRequestKept ==
  ASSUME ValidatedInv, PublishedInv', NEW w, Library!Decide(w), w.kind # "edit", ~OfJob(w),
         w.job = 0, jobs' = jobs
  PROVE  ValidatedInv'
<1>1. LibraryShape /\ JobsShape /\ IsSequence(open) /\ open' = Append(open, w)
  BY DEF ValidatedInv, PublishedInv, LibraryShape, Library!Decide
<1>2. Library!Open' = Library!Open \cup {w}
  BY <1>1, OpenGrows
<1>3. Onward
  <2>1. /\ DOMAIN versions' = DOMAIN versions
        /\ \A v \in DOMAIN versions :
              /\ versions'[v].solution = versions[v].solution
              /\ versions'[v].tests = versions[v].tests
              /\ versions'[v].validated = versions[v].validated
    BY <1>1, FlushKeeps
  <2>2. QED
    BY <1>1, <2>1 DEF Onward, JobsShape, Live
<1>4. EditsArrive
  BY <1>2 DEF EditsArrive
<1>5. JobsApart'
  BY <1>1, ApartGrows DEF JobsShape
<1>6. \A o \in Library!Open' :
         \/ /\ o \in Library!Open
            /\ OfJob(o) => (Live(o.job) => Live(o.job)')
         \/ ~OfJob(o) /\ o.job = 0
  BY <1>2 DEF Live
<1>7. IsSequence(jobs')
  BY <1>1 DEF JobsShape
<1>8. QED
  BY <1>3, <1>4, <1>5, <1>6, <1>7, OnwardKeeps

LEMMA EditKept ==
  ASSUME ValidatedInv, PublishedInv', NEW v \in DOMAIN versions, NEW w, IsRequest(w),
         w.kind = "edit", w.version = v, w.job = 0,
         versions[v].validated # None => "validated" \in DOMAIN w.columns,
         "solution" \in DOMAIN w.columns => w.outdates = Library!Jobs(v),
         Library!Decide(w),
         jobs' = [j \in DOMAIN jobs |->
                    IF \E o \in Library!Open : o.kind = "verdict" /\ o.version = v /\ o.job = j
                    THEN [jobs[j] EXCEPT !.crossed = TRUE] ELSE jobs[j]]
  PROVE  ValidatedInv'
<1>1. LibraryShape /\ JobsShape /\ IsSequence(open) /\ open' = Append(open, w)
  BY DEF ValidatedInv, PublishedInv, LibraryShape, Library!Decide
<1>2. Library!Open' = Library!Open \cup {w}
  BY <1>1, OpenGrows
<1> DEFINE C(j) == \E o \in Library!Open : o.kind = "verdict" /\ o.version = v /\ o.job = j
<1>3. /\ DOMAIN jobs' = DOMAIN jobs
      /\ \A j \in DOMAIN jobs :
            jobs'[j] = IF C(j) THEN [jobs[j] EXCEPT !.crossed = TRUE] ELSE jobs[j]
  OBVIOUS
<1>4. ASSUME NEW j \in DOMAIN jobs
      PROVE  /\ DOMAIN jobs'[j] = JobColumns
             /\ jobs'[j].version = jobs[j].version
             /\ jobs'[j].solution = jobs[j].solution
             /\ jobs'[j].outdated = jobs[j].outdated
             /\ jobs'[j].state = jobs[j].state
             /\ jobs[j].crossed => jobs'[j].crossed
             /\ C(j) => jobs'[j].crossed
  <2>1. DOMAIN jobs[j] = JobColumns
    BY <1>1 DEF JobsShape
  <2>2. CASE C(j)
    <3>1. jobs'[j] = [jobs[j] EXCEPT !.crossed = TRUE]
      BY <1>3, <2>2
    <3> HIDE DEF C
    <3>2. QED
      BY <2>1, <3>1 DEF JobColumns
  <2>3. CASE ~C(j)
    <3>1. jobs'[j] = jobs[j]
      BY <1>3, <2>3
    <3>2. QED
      BY <2>1, <2>3, <3>1
  <2>4. QED
    BY <2>2, <2>3
<1>5. Onward
  <2>1. /\ DOMAIN versions' = DOMAIN versions
        /\ \A x \in DOMAIN versions :
              /\ versions'[x].solution = versions[x].solution
              /\ versions'[x].tests = versions[x].tests
              /\ versions'[x].validated = versions[x].validated
    BY <1>1, FlushKeeps
  <2>2. QED
    BY <1>3, <1>4, <2>1 DEF Onward, Live
<1>6. Arrives(w)
  <2>1. ASSUME "solution" \in DOMAIN w.columns, NEW j \in DOMAIN jobs, Live(j),
               jobs[j].version = v
        PROVE  j \in w.outdates
    BY <2>1 DEF Library!Jobs, Live
  <2>2. ASSUME NEW o \in Library!Open, o.kind = "verdict", o.version = v
        PROVE  jobs'[o.job].crossed
    <3>1. o.job \in DOMAIN jobs
      BY <1>1, <2>2 DEF JobsShape, NamesJob, OfJob
    <3>2. QED
      BY <1>4, <2>2, <3>1
  <2>3. QED
    BY <2>1, <2>2 DEF Arrives
<1>7. EditsArrive
  BY <1>2, <1>6 DEF EditsArrive
<1>8. JobsApart'
  BY <1>1, ApartGrows DEF JobsShape, OfJob
<1>9. \A o \in Library!Open' :
         \/ /\ o \in Library!Open
            /\ OfJob(o) => (Live(o.job) => Live(o.job)')
         \/ ~OfJob(o) /\ o.job = 0
  <2>1. ASSUME NEW o \in Library!Open, OfJob(o)
        PROVE  Live(o.job) => Live(o.job)'
    <3>1. o.job \in DOMAIN jobs
      BY <1>1, <2>1 DEF JobsShape, NamesJob
    <3>2. QED
      BY <1>4, <3>1 DEF Live
  <2>2. QED
    BY <1>2, <2>1 DEF OfJob
<1>10. IsSequence(jobs')
  <2>1. IsSequence(jobs) /\ jobs' = [j \in DOMAIN jobs |-> jobs'[j]]
    BY <1>1 DEF JobsShape
  <2>2. QED
    BY <2>1, SameLength
<1>11. QED
  BY <1>3, <1>5, <1>7, <1>8, <1>9, <1>10, OnwardKeeps

LEMMA ValidationRequestKept ==
  ASSUME ValidatedInv, PublishedInv', NEW v \in DOMAIN versions, NEW w, IsRequest(w),
         w.kind = "validate", w.version = v, w.job = Len(jobs) + 1,
         Library!Decide(w),
         jobs' = Append(jobs, [version |-> v, state |-> "new",
                    solution |-> versions[v].solution, inputs |-> <<>>,
                    outdated |-> FALSE,
                    crossed |-> Library!Crosses([version |-> v], "edit")])
  PROVE  ValidatedInv'
<1>1. LibraryShape /\ JobsShape /\ IsSequence(open) /\ open' = Append(open, w)
  BY DEF ValidatedInv, PublishedInv, LibraryShape, Library!Decide
<1>2. Library!Open' = Library!Open \cup {w}
  BY <1>1, OpenGrows
<1>0. PICK n : n = Len(jobs) + 1
  OBVIOUS
<1> DEFINE new == [version |-> v, state |-> "new",
                   solution |-> versions[v].solution, inputs |-> <<>>,
                   outdated |-> FALSE,
                   crossed |-> Library!Crosses([version |-> v], "edit")]
<1>3. /\ DOMAIN new = JobColumns /\ new.version = v /\ new.state = "new"
      /\ new.solution = versions[v].solution
      /\ ~new.crossed => ~Library!Crosses([version |-> v], "edit")
  BY DEF JobColumns
<1> HIDE DEF new
<1>4. IsSequence(jobs)
  BY <1>1 DEF JobsShape
<1>5. /\ IsSequence(jobs')
      /\ Len(jobs) \in Nat /\ DOMAIN jobs = 1..Len(jobs)
      /\ DOMAIN jobs' = 1..n
      /\ \A j \in DOMAIN jobs : jobs'[j] = jobs[j]
      /\ jobs'[n] = new
  BY <1>0, <1>4, SequenceGrows DEF new
<1>6. DOMAIN jobs' = DOMAIN jobs \cup {n} /\ n \notin DOMAIN jobs
  BY <1>0, <1>5
<1>7. w.job = n
  BY <1>0
<1>8. /\ DOMAIN versions' = DOMAIN versions
      /\ \A x \in DOMAIN versions :
            /\ versions'[x].solution = versions[x].solution
            /\ versions'[x].tests = versions[x].tests
            /\ versions'[x].validated = versions[x].validated
  BY <1>1, FlushKeeps
<1>9. Onward
  BY <1>1, <1>5, <1>6, <1>8 DEF Onward, JobsShape, Live
<1>10. EditsArrive
  BY <1>2 DEF EditsArrive
<1>11. \A o \in Library!Open : NamesJob(o)
  BY <1>1 DEF JobsShape
<1>12. \A o \in Library!Open : OfJob(o) => o.job \in DOMAIN jobs
  BY <1>11 DEF NamesJob
<1>13. JobsApart'
  BY <1>1, <1>6, <1>7, <1>12, ApartGrows DEF JobsShape
<1>14. \A o \in Library!Open : NamesJob(o)'
  BY <1>5, <1>6, <1>11 DEF NamesJob, OfJob, Live
<1>15. NamesJob(w)'
  BY <1>3, <1>5, <1>6, <1>7 DEF NamesJob, OfJob, Live
<1>16. JobsShape'
  <2>1. \A j \in DOMAIN jobs' : DOMAIN jobs'[j] = JobColumns
    BY <1>1, <1>3, <1>5, <1>6 DEF JobsShape
  <2>2. QED
    BY <1>2, <1>5, <1>13, <1>14, <1>15, <2>1 DEF JobsShape
<1>17. JobFits(n)'
  <2>1. /\ jobs'[n].version \in DOMAIN versions'
        /\ jobs'[n].solution = versions'[jobs'[n].version].solution
    BY <1>3, <1>5, <1>8
  <2>2. ASSUME ~jobs'[n].crossed, NEW e \in Library!Open', e.kind = "edit",
               e.version = jobs'[n].version
        PROVE  FALSE
    BY <1>2, <1>3, <1>5, <2>2 DEF Library!Crosses
  <2>3. QED
    BY <2>1, <2>2 DEF JobFits
<1>18. JobsFit'
  BY <1>6, <1>9, <1>10, <1>17, JobsOnward DEF JobsFit, ValidatedInv
<1>19. VerdictsFit'
  <2>1. \A o \in Library!Open : VerdictFits(o)'
    BY <1>9, <1>10, <1>11, VerdictsOnward DEF ValidatedInv
  <2>2. VerdictFits(w)'
    BY DEF VerdictFits
  <2>3. QED
    BY <1>2, <2>1, <2>2 DEF VerdictsFit
<1>20. ValidationsFit'
  BY <1>9, <1>10, ValidationsOnward DEF ValidatedInv
<1>21. QED
  BY <1>16, <1>18, <1>19, <1>20 DEF ValidatedInv

LEMMA AcceptKept ==
  ASSUME ValidatedInv, PublishedInv', NEW j \in DOMAIN jobs, NEW w, IsRequest(w),
         w.kind = "verdict", w.version = jobs[j].version, w.job = j,
         Library!Decide(w),
         jobs[j].state = "running",
         ~\E o \in Library!Open : o.job = j,
         "validated" \in DOMAIN w.columns =>
            /\ ~jobs[j].outdated
            /\ w.columns["validated"] =
                 [job |-> j, outputs |-> [t \in DOMAIN versions[w.version].tests |->
                                            versions[w.version].tests[t].output]],
         jobs' = [jobs EXCEPT ![j].crossed = @ \/ Library!Crosses(w, "edit")]
  PROVE  ValidatedInv'
<1>1. LibraryShape /\ JobsShape /\ IsSequence(open) /\ open' = Append(open, w)
  BY DEF ValidatedInv, PublishedInv, LibraryShape, Library!Decide
<1>2. Library!Open' = Library!Open \cup {w}
  BY <1>1, OpenGrows
<1>3. /\ DOMAIN versions' = DOMAIN versions
      /\ \A x \in DOMAIN versions :
            /\ versions'[x].solution = versions[x].solution
            /\ versions'[x].tests = versions[x].tests
            /\ versions'[x].validated = versions[x].validated
  BY <1>1, FlushKeeps
<1>4. \A i \in DOMAIN jobs : DOMAIN jobs[i] = JobColumns
  BY <1>1 DEF JobsShape
<1>5. /\ DOMAIN jobs' = DOMAIN jobs
      /\ jobs' = [i \in DOMAIN jobs |-> jobs'[i]]
      /\ \A i \in DOMAIN jobs : i # j => jobs'[i] = jobs[i]
      /\ jobs'[j] = [jobs[j] EXCEPT !.crossed = @ \/ Library!Crosses(w, "edit")]
  OBVIOUS
<1>6. /\ DOMAIN jobs'[j] = JobColumns
      /\ jobs'[j].version = jobs[j].version
      /\ jobs'[j].solution = jobs[j].solution
      /\ jobs'[j].outdated = jobs[j].outdated
      /\ jobs'[j].state = jobs[j].state
      /\ jobs'[j].crossed = (jobs[j].crossed \/ Library!Crosses(w, "edit"))
  <2> DEFINE c == jobs[j].crossed \/ Library!Crosses(w, "edit")
  <2>1. jobs'[j] = [jobs[j] EXCEPT !.crossed = c]
    BY <1>5
  <2> HIDE DEF c
  <2>2. QED
    <3>1. /\ DOMAIN jobs'[j] = JobColumns
          /\ jobs'[j].version = jobs[j].version
          /\ jobs'[j].solution = jobs[j].solution
          /\ jobs'[j].outdated = jobs[j].outdated
          /\ jobs'[j].state = jobs[j].state
          /\ jobs'[j].crossed = c
      BY <1>4, <2>1 DEF JobColumns
    <3>2. QED
      BY <3>1 DEF c
<1>7. \A i \in DOMAIN jobs :
         /\ DOMAIN jobs'[i] = JobColumns
         /\ jobs'[i].version = jobs[i].version
         /\ jobs'[i].solution = jobs[i].solution
         /\ jobs'[i].outdated = jobs[i].outdated
         /\ jobs'[i].state = jobs[i].state
         /\ jobs[i].crossed => jobs'[i].crossed
  BY <1>4, <1>5, <1>6
<1>8. Onward
  BY <1>3, <1>5, <1>7 DEF Onward, Live
<1>9. EditsArrive
  BY <1>2 DEF EditsArrive
<1>10. \A o \in Library!Open : NamesJob(o)
  BY <1>1 DEF JobsShape
<1>11. JobsApart'
  BY <1>1, ApartGrows DEF JobsShape
<1>12. \A o \in Library!Open : NamesJob(o)'
  BY <1>5, <1>7, <1>10 DEF NamesJob, OfJob, Live
<1>13. NamesJob(w)'
  BY <1>5, <1>6 DEF NamesJob, OfJob, Live
<1>14. IsSequence(jobs')
  <2>1. IsSequence(jobs)
    BY <1>1 DEF JobsShape
  <2>2. QED
    BY <1>5, <2>1, SameLength
<1>15. JobsShape'
  BY <1>2, <1>5, <1>7, <1>11, <1>12, <1>13, <1>14 DEF JobsShape
<1>16. JobsFit'
  BY <1>5, <1>8, <1>9, JobsOnward DEF JobsFit, ValidatedInv
<1>17. VerdictFits(w)'
  <2>1. "validated" \in DOMAIN w.columns => w.columns["validated"].job = w.job
    OBVIOUS
  <2>2. ASSUME w.version \in DOMAIN versions', ~jobs'[w.job].crossed
        PROVE  /\ \A e \in Library!Open' : e.kind = "edit" => e.version # w.version
               /\ "validated" \in DOMAIN w.columns =>
                     Validates(w.columns["validated"], versions[w.version])'
    <3>1. ~jobs[j].crossed /\ ~Library!Crosses(w, "edit")
      BY <1>6, <2>2
    <3>2. \A e \in Library!Open' : e.kind = "edit" => e.version # w.version
      BY <1>2, <3>1 DEF Library!Crosses
    <3>3. ASSUME "validated" \in DOMAIN w.columns
          PROVE  Validates(w.columns["validated"], versions[w.version])'
      <4> DEFINE outputs == [t \in DOMAIN versions[w.version].tests |->
                               versions[w.version].tests[t].output]
      <4>1. ~jobs[j].outdated /\ w.columns["validated"] = [job |-> j, outputs |-> outputs]
        BY <3>3
      <4>2. /\ DOMAIN outputs = DOMAIN versions[w.version].tests
            /\ \A t \in DOMAIN outputs : outputs[t] = versions[w.version].tests[t].output
        OBVIOUS
      <4> HIDE DEF outputs
      <4>3. w.columns["validated"].job = j /\ w.columns["validated"].outputs = outputs
        BY <4>1
      <4>4. jobs[j].solution = versions[w.version].solution
        BY <3>1, <4>1 DEF ValidatedInv, JobsFit, JobFits, Live
      <4>5. /\ versions'[w.version].solution = versions[w.version].solution
            /\ versions'[w.version].tests = versions[w.version].tests
        BY <1>3, <2>2
      <4>6. QED
        BY <1>6, <4>2, <4>3, <4>4, <4>5 DEF Validates
    <3>4. QED
      BY <3>2, <3>3
  <2>3. QED
    BY <2>1, <2>2 DEF VerdictFits
<1>18. VerdictsFit'
  <2>1. \A o \in Library!Open : VerdictFits(o)'
    BY <1>8, <1>9, <1>10, VerdictsOnward DEF ValidatedInv
  <2>2. QED
    BY <1>2, <1>17, <2>1 DEF VerdictsFit
<1>19. ValidationsFit'
  BY <1>8, <1>9, ValidationsOnward DEF ValidatedInv
<1>20. QED
  BY <1>15, <1>16, <1>18, <1>19 DEF ValidatedInv

\* What only changes the state and the inputs of a job that no request names.
LEMMA ClaimKept ==
  ASSUME ValidatedInv, PublishedInv', NEW j \in DOMAIN jobs,
         Library!Claim(j) \/ Library!Reject(j)
  PROVE  ValidatedInv'
<1>1. /\ versions' = versions /\ open' = open
      /\ Library!InFlight(j) /\ ~\E o \in Library!Open : o.job = j
  BY DEF Library!Claim, Library!Reject
<1>2. JobsShape
  BY DEF ValidatedInv
<1>3. Library!Open' = Library!Open
  BY <1>1 DEF Library!Open, Library!ToSet
<1>4. \A i \in DOMAIN jobs : DOMAIN jobs[i] = JobColumns
  BY <1>2 DEF JobsShape
<1>5. /\ DOMAIN jobs' = DOMAIN jobs
      /\ jobs' = [i \in DOMAIN jobs |-> jobs'[i]]
      /\ \A i \in DOMAIN jobs : i # j => jobs'[i] = jobs[i]
  BY DEF Library!Claim, Library!Reject
<1>6. /\ DOMAIN jobs'[j] = JobColumns
      /\ jobs'[j].version = jobs[j].version
      /\ jobs'[j].solution = jobs[j].solution
      /\ jobs'[j].outdated = jobs[j].outdated
      /\ jobs'[j].crossed = jobs[j].crossed
  <2>1. CASE Library!Claim(j)
    <3> DEFINE inputs == [t \in DOMAIN versions[jobs[j].version].tests |->
                            versions[jobs[j].version].tests[t].input]
    <3>1. jobs' = [jobs EXCEPT ![j].state = "running", ![j].inputs = inputs]
      BY <2>1 DEF Library!Claim
    <3> HIDE DEF inputs
    <3>2. jobs'[j] = [jobs[j] EXCEPT !.state = "running", !.inputs = inputs]
      BY <3>1
    <3>3. QED
      BY <1>4, <3>2, SMTT(30) DEF JobColumns
  <2>2. CASE Library!Reject(j)
    <3>1. jobs'[j] = [jobs[j] EXCEPT !.state = "done"]
      BY <2>2 DEF Library!Reject
    <3>2. QED
      BY <1>4, <3>1 DEF JobColumns
  <2>3. QED
    BY <2>1, <2>2
<1>7. Live(j)
  BY <1>1 DEF Library!InFlight, Live
<1>8. Onward
  BY <1>1, <1>4, <1>5, <1>6, <1>7 DEF Onward, Live
<1>9. EditsArrive
  BY <1>3 DEF EditsArrive
<1>10. JobsApart'
  BY <1>1, <1>2 DEF JobsApart, JobsShape, OfJob
<1>11. \A o \in Library!Open' :
         \/ /\ o \in Library!Open
            /\ OfJob(o) => (Live(o.job) => Live(o.job)')
         \/ ~OfJob(o) /\ o.job = 0
  <2>1. ASSUME NEW o \in Library!Open, OfJob(o)
        PROVE  Live(o.job) => Live(o.job)'
    <3>1. o.job \in DOMAIN jobs /\ o.job # j
      BY <1>1, <1>2, <2>1 DEF JobsShape, NamesJob
    <3>2. QED
      BY <1>5, <3>1 DEF Live
  <2>2. QED
    BY <1>3, <2>1
<1>12. IsSequence(jobs')
  <2>1. IsSequence(jobs)
    BY <1>2 DEF JobsShape
  <2>2. QED
    BY <1>5, <2>1, SameLength
<1>13. QED
  BY <1>5, <1>8, <1>9, <1>10, <1>11, <1>12, OnwardKeeps

LEMMA ApartShrinks ==
  ASSUME IsSequence(open), JobsApart, NEW i \in DOMAIN open,
         DOMAIN open' = 1..(Len(open) - 1),
         \A k \in DOMAIN open' : /\ open'[k].kind = open[Was(i, k)].kind
                                 /\ open'[k].job = open[Was(i, k)].job
  PROVE  JobsApart'
<1>1. \A k, l \in DOMAIN open' :
         /\ Was(i, k) \in DOMAIN open
         /\ Was(i, k) = Was(i, l) => k = l
  BY WasApart
<1>2. QED
  BY <1>1 DEF JobsApart, OfJob

LEMMA RollBackValidated ==
  ASSUME ValidatedInv, PublishedInv', NEW i \in DOMAIN open, Library!RollBack(i)
  PROVE  ValidatedInv'
<1>1. /\ versions' = versions /\ open' = Library!RemoveAt(open, i)
      /\ jobs' = IF open[i].kind = "validate"
                 THEN [jobs EXCEPT ![open[i].job].state = "gone"] ELSE jobs
  BY DEF Library!RollBack
<1>2. LibraryShape /\ JobsShape /\ IsSequence(open)
  BY DEF ValidatedInv, PublishedInv, LibraryShape
<1>3. /\ DOMAIN open' = 1..(Len(open) - 1)
      /\ \A k \in DOMAIN open' : open'[k] = open[Was(i, k)]
      /\ \A o \in Library!Open' : o \in Library!Open
  BY <1>1, <1>2, OpenShrinks
<1>4. \A k \in DOMAIN jobs : DOMAIN jobs[k] = JobColumns
  BY <1>2 DEF JobsShape
<1> DEFINE g == open[i].job
<1>5. /\ DOMAIN jobs' = DOMAIN jobs
      /\ jobs' = [k \in DOMAIN jobs |-> jobs'[k]]
      /\ \A k \in DOMAIN jobs : ~OfJob(open[i]) \/ k # g => jobs'[k] = jobs[k]
  <2>1. CASE open[i].kind = "validate"
    <3>1. jobs' = [jobs EXCEPT ![g].state = "gone"]
      BY <1>1, <2>1
    <3> HIDE DEF g
    <3>2. OfJob(open[i])
      BY <2>1 DEF OfJob
    <3>3. QED
      BY <3>1, <3>2
  <2>2. CASE open[i].kind # "validate"
    <3>1. jobs' = jobs
      BY <1>1, <2>2
    <3>2. jobs = [k \in DOMAIN jobs |-> jobs[k]]
      <4>1. jobs \in Seq({jobs[k] : k \in DOMAIN jobs})
        BY <1>2 DEF JobsShape, IsSequence
      <4>2. QED
        BY <4>1
    <3>3. QED
      BY <3>1, <3>2
  <2>3. QED
    BY <2>1, <2>2
<1>6. ASSUME NEW k \in DOMAIN jobs
      PROVE  /\ DOMAIN jobs'[k] = JobColumns
             /\ jobs'[k].version = jobs[k].version
             /\ jobs'[k].solution = jobs[k].solution
             /\ jobs'[k].outdated = jobs[k].outdated
             /\ jobs'[k].crossed = jobs[k].crossed
             /\ Live(k)' => Live(k)
  <2>1. CASE jobs'[k] = jobs[k]
    BY <1>4, <2>1 DEF Live
  <2>2. CASE jobs'[k] # jobs[k]
    <3>1. open[i].kind = "validate" /\ k = g
      <4>1. k = g /\ jobs' # jobs
        BY <1>5, <2>2
      <4>2. QED
        BY <1>1, <4>1
    <3>2. jobs'[k] = [jobs[k] EXCEPT !.state = "gone"]
      BY <1>1, <3>1
    <3> HIDE DEF g
    <3>3. QED
      BY <1>4, <3>2 DEF JobColumns, Live
  <2>3. QED
    BY <2>1, <2>2
<1>7. Onward
  BY <1>1, <1>5, <1>6 DEF Onward
<1>8. EditsArrive
  BY <1>3 DEF EditsArrive
<1>9. JobsApart'
  BY <1>2, <1>3, ApartShrinks DEF JobsShape
<1>10. \A o \in Library!Open' :
         \/ /\ o \in Library!Open
            /\ OfJob(o) => (Live(o.job) => Live(o.job)')
         \/ ~OfJob(o) /\ o.job = 0
  <2>1. ASSUME NEW o \in Library!Open', OfJob(o)
        PROVE  Live(o.job) => Live(o.job)'
    <3>1. PICK k \in DOMAIN open' : o = open[Was(i, k)]
      BY <1>3 DEF Library!Open, Library!ToSet
    <3>2. Was(i, k) \in DOMAIN open /\ Was(i, k) # i
      BY <1>2, <1>3, WasApart
    <3>3. ~OfJob(open[i]) \/ o.job # g
      BY <1>2, <2>1, <3>1, <3>2 DEF JobsShape, JobsApart
    <3>4. o.job \in DOMAIN jobs
      BY <1>2, <1>3, <2>1 DEF JobsShape, NamesJob
    <3>5. jobs'[o.job] = jobs[o.job]
      BY <1>5, <3>3, <3>4
    <3>6. QED
      BY <3>5 DEF Live
  <2>2. QED
    BY <1>3, <2>1
<1>11. IsSequence(jobs')
  <2>1. IsSequence(jobs)
    BY <1>2 DEF JobsShape
  <2>2. QED
    BY <1>5, <2>1, SameLength
<1>12. QED
  BY <1>5, <1>7, <1>8, <1>9, <1>10, <1>11, OnwardKeeps

\* How a commit of w writes the jobs, and what it leaves of them.
JobsWritten(w, drops) ==
    jobs' = [j \in DOMAIN jobs |->
       IF jobs[j].version \in drops THEN [jobs[j] EXCEPT !.state = "gone"]
       ELSE IF j = w.job
       THEN [jobs[j] EXCEPT !.state = IF w.kind = "validate" THEN "queued" ELSE "done"]
       ELSE [jobs[j] EXCEPT !.outdated = @ \/ j \in w.outdates]]

JobsLeft(w, drops) ==
    /\ DOMAIN jobs' = DOMAIN jobs
    /\ jobs' = [j \in DOMAIN jobs |-> jobs'[j]]
    /\ \A j \in DOMAIN jobs :
          /\ DOMAIN jobs'[j] = JobColumns
          /\ jobs'[j].version = jobs[j].version
          /\ jobs'[j].solution = jobs[j].solution
          /\ jobs'[j].crossed = jobs[j].crossed
          /\ jobs[j].version \in drops => ~Live(j)'
          /\ jobs[j].version \notin drops /\ j # w.job =>
                /\ jobs'[j].state = jobs[j].state
                /\ ~jobs'[j].outdated => ~jobs[j].outdated /\ j \notin w.outdates
          /\ jobs[j].version \notin drops /\ j = w.job =>
                /\ w.kind # "validate" => ~Live(j)'
                /\ jobs'[j].outdated = jobs[j].outdated

LEMMA CommitJobs ==
  ASSUME JobsShape, NEW drops, NEW w, JobsWritten(w, drops)
  PROVE  JobsLeft(w, drops)
<1> USE DEF JobsWritten
<1>1. DOMAIN jobs' = DOMAIN jobs /\ jobs' = [j \in DOMAIN jobs |-> jobs'[j]]
  OBVIOUS
<1>2. ASSUME NEW j \in DOMAIN jobs
      PROVE  /\ DOMAIN jobs'[j] = JobColumns
             /\ jobs'[j].version = jobs[j].version
             /\ jobs'[j].solution = jobs[j].solution
             /\ jobs'[j].crossed = jobs[j].crossed
             /\ jobs[j].version \in drops => ~Live(j)'
             /\ jobs[j].version \notin drops /\ j # w.job =>
                   /\ jobs'[j].state = jobs[j].state
                   /\ ~jobs'[j].outdated => ~jobs[j].outdated /\ j \notin w.outdates
             /\ jobs[j].version \notin drops /\ j = w.job =>
                   /\ w.kind # "validate" => ~Live(j)'
                   /\ jobs'[j].outdated = jobs[j].outdated
  <2>1. DOMAIN jobs[j] = JobColumns
    BY DEF JobsShape
  <2>2. CASE jobs[j].version \in drops
    <3>1. jobs'[j] = [jobs[j] EXCEPT !.state = "gone"]
      BY <2>2
    <3>2. QED
      BY <2>1, <2>2, <3>1 DEF JobColumns, Live
  <2>3. CASE jobs[j].version \notin drops /\ j = w.job
    <3> DEFINE s == IF w.kind = "validate" THEN "queued" ELSE "done"
    <3>1. jobs'[j] = [jobs[j] EXCEPT !.state = s]
      BY <2>3
    <3>2. w.kind # "validate" => s = "done"
      OBVIOUS
    <3> HIDE DEF s
    <3>3. QED
      BY <2>1, <2>3, <3>1, <3>2 DEF JobColumns, Live
  <2>4. CASE jobs[j].version \notin drops /\ j # w.job
    <3> DEFINE c == jobs[j].outdated \/ j \in w.outdates
    <3>1. jobs'[j] = [jobs[j] EXCEPT !.outdated = c]
      BY <2>4
    <3>2. ~c => ~jobs[j].outdated /\ j \notin w.outdates
      OBVIOUS
    <3> HIDE DEF c
    <3>3. QED
      BY <2>1, <2>4, <3>1, <3>2 DEF JobColumns
  <2>5. QED
    BY <2>2, <2>3, <2>4
<1>3. QED
  BY <1>1, <1>2 DEF JobsLeft

LEMMA CommitValidated ==
  ASSUME ValidatedInv, PublishedInv', NEW i \in DOMAIN open, Library!Commit(i)
  PROVE  ValidatedInv'
<1>1. /\ LibraryShape /\ JobsShape /\ IsSequence(open)
      /\ JobsFit /\ VerdictsFit /\ ValidationsFit
  BY DEF ValidatedInv, PublishedInv, LibraryShape
<1> DEFINE w == open[i]
<1>2. w = open[i]
  OBVIOUS
<1>3. PICK drops :
        /\ open' = Library!Rest(i, drops)
        /\ w \in Library!Open /\ IsRequest(w)
        /\ DOMAIN w.new \cap DOMAIN versions = {}
        /\ DOMAIN versions' = (DOMAIN versions \cup DOMAIN w.new) \ drops
        /\ \A v \in DOMAIN versions' \cap DOMAIN w.new : versions'[v] = w.new[v]
        /\ \A v \in DOMAIN versions' \cap DOMAIN versions :
              versions'[v] = IF v = w.version THEN Library!Written(w, versions[v])
                             ELSE versions[v]
        /\ jobs' = [j \in DOMAIN jobs |->
              IF jobs[j].version \in drops THEN [jobs[j] EXCEPT !.state = "gone"]
              ELSE IF j = w.job
              THEN [jobs[j] EXCEPT !.state =
                      IF w.kind = "validate" THEN "queued" ELSE "done"]
              ELSE [jobs[j] EXCEPT !.outdated = @ \/ j \in w.outdates]]
  BY <1>1, CommitWrites
<1>4. w.kind \notin {"new", "delete"} => w.version \in DOMAIN versions
  BY DEF Library!Commit, Library!Admits
<1> HIDE DEF w
<1>5. /\ DOMAIN jobs' = DOMAIN jobs
      /\ jobs' = [j \in DOMAIN jobs |-> jobs'[j]]
      /\ \A j \in DOMAIN jobs :
            /\ DOMAIN jobs'[j] = JobColumns
            /\ jobs'[j].version = jobs[j].version
            /\ jobs'[j].solution = jobs[j].solution
            /\ jobs'[j].crossed = jobs[j].crossed
            /\ jobs[j].version \in drops => ~Live(j)'
            /\ jobs[j].version \notin drops /\ j # w.job =>
                  /\ jobs'[j].state = jobs[j].state
                  /\ ~jobs'[j].outdated => ~jobs[j].outdated /\ j \notin w.outdates
            /\ jobs[j].version \notin drops /\ j = w.job =>
                  /\ w.kind # "validate" => ~Live(j)'
                  /\ jobs'[j].outdated = jobs[j].outdated
  <2>1. JobsWritten(w, drops)
    BY <1>3 DEF JobsWritten
  <2>2. JobsLeft(w, drops)
    BY <1>1, <2>1, CommitJobs
  <2>3. QED
    BY <2>2 DEF JobsLeft
<1>6. /\ DOMAIN open' = 1..(Len(open) - 1)
      /\ \A k \in DOMAIN open' : open'[k] = Dropped(open[Was(i, k)], drops)
      /\ \A k \in DOMAIN open' : Was(i, k) \in DOMAIN open /\ Was(i, k) # i
  BY <1>1, <1>3, OpenRests, WasApart
<1>7. 0 \notin DOMAIN jobs /\ 0 \notin DOMAIN versions' /\ 0 \notin DOMAIN versions
  <2>1. 0 \notin DOMAIN versions' /\ 0 \notin DOMAIN versions
    BY <1>1 DEF PublishedInv, LibraryShape
  <2>2. Len(jobs) \in Nat /\ DOMAIN jobs = 1..Len(jobs)
    BY <1>1, SequenceGrows DEF JobsShape
  <2>3. QED
    BY <2>1, <2>2
<1>8. ASSUME NEW k \in DOMAIN open'
      PROVE  /\ open[Was(i, k)] \in Library!Open
             /\ open'[k].kind = open[Was(i, k)].kind
             /\ open'[k].job = open[Was(i, k)].job
             /\ open'[k].version = 0
                  \/ (open'[k] = open[Was(i, k)] /\ open'[k].version \notin drops)
             /\ OfJob(open'[k]) /\ OfJob(w) => open'[k].job # w.job
  <2> DEFINE p == open[Was(i, k)]
  <2>1. p \in Library!Open /\ DOMAIN p = Fields /\ open'[k] = Dropped(p, drops)
    BY <1>1, <1>6, OpenIs DEF LibraryShape, IsRequest
  <2>2. OfJob(p) /\ OfJob(w) => p.job # w.job
    BY <1>1, <1>2, <1>6 DEF JobsShape, JobsApart
  <2> HIDE DEF p
  <2>3. Dropped(p, drops).kind = p.kind /\ Dropped(p, drops).job = p.job
    BY <2>1, DroppedIs DEF Fields
  <2>4. Dropped(p, drops).version = 0 \/ (Dropped(p, drops) = p /\ p.version \notin drops)
    BY <2>1, DroppedIs
  <2>5. QED
    BY <2>1, <2>2, <2>3, <2>4 DEF OfJob, p
<1>9. ASSUME NEW o \in Library!Open'
      PROVE  \E k \in DOMAIN open' : o = open'[k]
  BY DEF Library!Open, Library!ToSet
<1>10. \A o \in Library!Open' :
          o.version # 0 => o \in Library!Open /\ o.version \notin drops
  BY <1>8, <1>9
<1>11. ASSUME NEW j \in DOMAIN jobs, j = w.job
       PROVE  OfJob(w)
  BY <1>1, <1>3, <1>7, <1>11 DEF JobsShape, NamesJob
<1>12. ASSUME NEW o \in Library!Open'
       PROVE  NamesJob(o)'
  <2>1. PICK k \in DOMAIN open' : o = open'[k]
    BY <1>9
  <2>2. PICK p : p = open[Was(i, k)]
    OBVIOUS
  <2>3. /\ NamesJob(p) /\ o.kind = p.kind /\ o.job = p.job
        /\ o.version = 0 \/ (o = p /\ o.version \notin drops)
        /\ OfJob(o) /\ OfJob(w) => o.job # w.job
    BY <1>1, <1>8, <2>1, <2>2 DEF JobsShape
  <2>4. CASE OfJob(o)
    <3>1. o.job \in DOMAIN jobs /\ o.job # w.job
      BY <1>11, <2>3, <2>4 DEF NamesJob, OfJob
    <3>2. ASSUME o.version # 0
          PROVE  jobs'[o.job].version = o.version /\ Live(o.job)'
      <4>1. o = p /\ o.version \notin drops
        BY <2>3, <3>2
      <4>2. jobs[o.job].version = o.version /\ Live(o.job)
        BY <2>3, <2>4, <3>2, <4>1 DEF NamesJob
      <4>3. jobs'[o.job].state = jobs[o.job].state /\ jobs'[o.job].version = jobs[o.job].version
        BY <1>5, <3>1, <4>1, <4>2
      <4>4. QED
        BY <4>2, <4>3 DEF Live
    <3>3. QED
      BY <1>5, <2>4, <3>1, <3>2 DEF NamesJob, OfJob
  <2>5. CASE ~OfJob(o)
    BY <2>3, <2>5 DEF NamesJob, OfJob
  <2>6. QED
    BY <2>4, <2>5
<1>13. JobsShape'
  <2>1. IsSequence(jobs')
    <3>1. IsSequence(jobs)
      BY <1>1 DEF JobsShape
    <3>2. QED
      BY <1>5, <3>1, SameLength
  <2>2. JobsApart'
    BY <1>1, <1>6, <1>8, ApartShrinks DEF JobsShape
  <2>3. QED
    BY <1>5, <1>12, <2>1, <2>2 DEF JobsShape
\* What the commit writes of a version that was there.
<1>14. ASSUME NEW v \in DOMAIN versions' \cap DOMAIN versions
       PROVE  /\ \/ v = w.version /\ "solution" \in DOMAIN w.columns
                 \/ versions'[v].solution = versions[v].solution
              /\ (w.kind = "edit" /\ v = w.version) \/ versions'[v].tests = versions[v].tests
              /\ versions'[v].validated =
                   IF v = w.version /\ "validated" \in DOMAIN w.columns
                   THEN w.columns["validated"] ELSE versions[v].validated
  <2>1. CASE v = w.version
    <3>1. versions'[v] = Library!Written(w, versions[v])
      BY <1>3, <2>1
    <3>2. IsVersion(versions[v])
      BY <1>1 DEF LibraryShape
    <3>3. /\ versions'[v].validated =
               IF "validated" \in DOMAIN w.columns THEN w.columns["validated"]
               ELSE versions[v].validated
          /\ "solution" \notin DOMAIN w.columns => versions'[v].solution = versions[v].solution
          /\ w.kind # "edit" => versions'[v].tests = versions[v].tests
      BY <1>3, <3>1, <3>2, WrittenIs
    <3>4. QED
      BY <2>1, <3>3
  <2>2. CASE v # w.version
    BY <1>3, <2>2
  <2>3. QED
    BY <2>1, <2>2
<1>15. "solution" \in DOMAIN w.columns => w.kind = "edit"
  BY <1>3 DEF IsRequest
<1>16. ASSUME NEW j \in DOMAIN jobs
       PROVE  JobFits(j)'
  <2> SUFFICES ASSUME Live(j)'
               PROVE  JobFits(j)'
    BY DEF JobFits
  <2>1. jobs[j].version \notin drops
    BY <1>5
  <2>2. Live(j)
    <3>1. CASE j = w.job
      <4>1. w.kind = "validate"
        BY <1>5, <2>1, <3>1
      <4>2. w.version \in DOMAIN versions /\ OfJob(w)
        BY <1>4, <4>1 DEF OfJob
      <4>3. w.version # 0
        BY <1>7, <4>2
      <4>4. QED
        BY <1>1, <1>3, <3>1, <4>2, <4>3 DEF JobsShape, NamesJob
    <3>2. CASE j # w.job
      BY <1>5, <2>1, <3>2 DEF Live
    <3>3. QED
      BY <3>1, <3>2
  <2>3. /\ jobs[j].version \in DOMAIN versions
        /\ ~jobs[j].crossed /\ ~jobs[j].outdated =>
              jobs[j].solution = versions[jobs[j].version].solution
        /\ ~jobs[j].crossed =>
              \A e \in Library!Open :
                 e.kind = "edit" /\ e.version = jobs[j].version /\ "solution" \in DOMAIN e.columns
                    => j \in e.outdates
    BY <1>1, <2>2 DEF JobsFit, JobFits
  <2>4. jobs'[j].version = jobs[j].version /\ jobs[j].version \in DOMAIN versions'
    BY <1>3, <1>5, <2>1, <2>3
  <2>5. ASSUME ~jobs'[j].crossed, ~jobs'[j].outdated
        PROVE  jobs'[j].solution = versions'[jobs'[j].version].solution
    <3>1. ~jobs[j].crossed /\ ~jobs[j].outdated
      BY <1>5, <2>1, <2>5
    <3>2. ~(jobs[j].version = w.version /\ "solution" \in DOMAIN w.columns)
      <4> SUFFICES ASSUME jobs[j].version = w.version, "solution" \in DOMAIN w.columns
                   PROVE  FALSE
        OBVIOUS
      <4>1. w.kind = "edit" /\ j \in w.outdates
        BY <1>3, <1>15, <2>3, <3>1
      <4>2. j # w.job
        BY <1>11, <4>1 DEF OfJob
      <4>3. QED
        BY <1>5, <2>1, <2>5, <4>1, <4>2
    <3>3. versions'[jobs[j].version].solution = versions[jobs[j].version].solution
      BY <1>14, <2>3, <2>4, <3>2
    <3>4. QED
      BY <1>5, <2>3, <2>4, <3>1, <3>3
  <2>6. ASSUME ~jobs'[j].crossed, NEW e \in Library!Open', e.kind = "edit",
               e.version = jobs'[j].version, "solution" \in DOMAIN e.columns
        PROVE  j \in e.outdates
    <3>1. e \in Library!Open
      BY <1>7, <1>10, <2>4, <2>6
    <3>2. QED
      BY <1>5, <2>3, <2>4, <2>6, <3>1
  <2>7. QED
    BY <2>4, <2>5, <2>6 DEF JobFits
<1>17. JobsFit'
  BY <1>5, <1>16 DEF JobsFit
<1>18. ASSUME NEW o \in Library!Open'
       PROVE  VerdictFits(o)'
  <2> SUFFICES ASSUME o.kind = "verdict"
               PROVE  /\ "validated" \in DOMAIN o.columns => o.columns["validated"].job = o.job
                      /\ o.version \in DOMAIN versions' /\ ~jobs'[o.job].crossed =>
                            /\ \A e \in Library!Open' : e.kind = "edit" => e.version # o.version
                            /\ "validated" \in DOMAIN o.columns =>
                                  Validates(o.columns["validated"], versions[o.version])'
    BY DEF VerdictFits
  <2>1. "validated" \in DOMAIN o.columns => o.columns["validated"].job = o.job
    <3>1. PICK k \in DOMAIN open' : o = open'[k]
      BY <1>9
    <3>2. PICK p : p = open[Was(i, k)]
      OBVIOUS
    <3>3. p \in Library!Open /\ p.kind = "verdict" /\ DOMAIN p = Fields /\ o = Dropped(p, drops)
      BY <1>1, <1>6, <1>8, <3>1, <3>2 DEF LibraryShape, IsRequest
    <3>4. o.columns = p.columns /\ o.job = p.job
      BY <3>3, DroppedIs DEF Fields
    <3>5. QED
      BY <1>1, <3>3, <3>4 DEF VerdictsFit, VerdictFits
  <2>2. ASSUME o.version \in DOMAIN versions', ~jobs'[o.job].crossed
        PROVE  /\ \A e \in Library!Open' : e.kind = "edit" => e.version # o.version
               /\ "validated" \in DOMAIN o.columns =>
                     Validates(o.columns["validated"], versions[o.version])'
    <3>1. o \in Library!Open /\ o.version # 0
      BY <1>7, <1>10, <2>2
    <3>2. o.job \in DOMAIN jobs /\ jobs[o.job].version = o.version /\ Live(o.job)
      BY <1>1, <3>1 DEF JobsShape, NamesJob, OfJob
    <3>3. o.version \in DOMAIN versions
      BY <1>1, <3>2 DEF JobsFit, JobFits
    <3>4. ~jobs[o.job].crossed
      BY <1>5, <2>2, <3>2
    <3>5. /\ \A e \in Library!Open : e.kind = "edit" => e.version # o.version
          /\ "validated" \in DOMAIN o.columns =>
                Validates(o.columns["validated"], versions[o.version])
      BY <1>1, <3>1, <3>3, <3>4 DEF VerdictsFit, VerdictFits
    <3>6. \A e \in Library!Open' : e.kind = "edit" => e.version # o.version
      BY <1>10, <3>1, <3>5
    <3>7. /\ versions'[o.version].solution = versions[o.version].solution
          /\ versions'[o.version].tests = versions[o.version].tests
      BY <1>3, <1>14, <1>15, <2>2, <3>3, <3>5
    <3>8. "validated" \in DOMAIN o.columns =>
             Validates(o.columns["validated"], versions[o.version])'
      BY <1>5, <2>1, <3>2, <3>5, <3>7 DEF Validates
    <3>9. QED
      BY <3>6, <3>8
  <2>3. QED
    BY <2>1, <2>2
<1>19. VerdictsFit'
  BY <1>18 DEF VerdictsFit
<1>20. ASSUME NEW v \in DOMAIN versions'
       PROVE  ValidationFits(v)'
  <2>1. PICK by : by = versions'[v].validated
    OBVIOUS
  <2> SUFFICES ASSUME by # None
               PROVE  /\ by.job \in DOMAIN jobs'
                      /\ ~jobs'[by.job].crossed =>
                            /\ Validates(by, versions[v])'
                            /\ \A e \in Library!Open' :
                                  e.kind = "edit" /\ e.version = v => "validated" \in DOMAIN e.columns
    BY <2>1 DEF ValidationFits, Validates
  <2>2. v \in DOMAIN versions
    BY <1>3, <2>1 DEF IsRequest
  <2>3. v # 0
    BY <1>7
  <2>4. CASE v = w.version /\ "validated" \in DOMAIN w.columns
    <3>1. by = w.columns["validated"]
      BY <1>14, <2>1, <2>2, <2>4
    <3>2. w.kind = "verdict"
      BY <1>3, <2>4, <3>1 DEF IsRequest
    <3>3. by.job = w.job /\ w.job \in DOMAIN jobs
      BY <1>1, <1>3, <2>4, <3>1, <3>2 DEF VerdictsFit, VerdictFits, JobsShape, NamesJob, OfJob
    <3>4. ASSUME ~jobs'[by.job].crossed
          PROVE  /\ Validates(by, versions[v])'
                 /\ \A e \in Library!Open' : e.kind = "edit" => e.version # v
      <4>1. ~jobs[w.job].crossed
        BY <1>5, <3>3, <3>4
      <4>2. /\ \A e \in Library!Open : e.kind = "edit" => e.version # v
            /\ Validates(by, versions[v])
        BY <1>1, <1>3, <2>2, <2>4, <3>1, <3>2, <4>1 DEF VerdictsFit, VerdictFits
      <4>3. /\ versions'[v].solution = versions[v].solution
            /\ versions'[v].tests = versions[v].tests
        BY <1>14, <1>15, <2>2, <3>2
      <4>4. Validates(by, versions[v])'
        BY <1>5, <3>3, <4>2, <4>3 DEF Validates
      <4>5. \A e \in Library!Open' : e.kind = "edit" => e.version # v
        BY <1>10, <2>3, <4>2
      <4>6. QED
        BY <4>4, <4>5
    <3>5. QED
      BY <1>5, <3>3, <3>4
  <2>5. CASE ~(v = w.version /\ "validated" \in DOMAIN w.columns)
    <3>1. by = versions[v].validated
      BY <1>14, <2>1, <2>2, <2>5
    <3>2. /\ by.job \in DOMAIN jobs
          /\ ~jobs[by.job].crossed =>
                /\ Validates(by, versions[v])
                /\ \A e \in Library!Open :
                      e.kind = "edit" /\ e.version = v => "validated" \in DOMAIN e.columns
      BY <1>1, <2>2, <3>1 DEF ValidationsFit, ValidationFits
    <3>3. ASSUME ~jobs'[by.job].crossed
          PROVE  /\ Validates(by, versions[v])'
                 /\ \A e \in Library!Open' :
                       e.kind = "edit" /\ e.version = v => "validated" \in DOMAIN e.columns
      <4>1. ~jobs[by.job].crossed
        BY <1>5, <3>2, <3>3
      <4>2. ~(w.kind = "edit" /\ w.version = v)
        BY <1>3, <2>5, <3>2, <4>1
      <4>3. /\ versions'[v].solution = versions[v].solution
            /\ versions'[v].tests = versions[v].tests
        BY <1>14, <1>15, <2>2, <4>2
      <4>4. Validates(by, versions[v])'
        BY <1>5, <3>2, <4>1, <4>3 DEF Validates
      <4>5. \A e \in Library!Open' :
               e.kind = "edit" /\ e.version = v => "validated" \in DOMAIN e.columns
        BY <1>10, <2>3, <3>2, <4>1
      <4>6. QED
        BY <4>4, <4>5
    <3>4. QED
      BY <1>5, <3>2, <3>3
  <2>6. QED
    BY <2>4, <2>5
<1>21. ValidationsFit'
  BY <1>20 DEF ValidationsFit
<1>22. QED
  BY <1>13, <1>17, <1>19, <1>21 DEF ValidatedInv

\* Pinning a version, and steps elsewhere.
LEMMA OthersValidated ==
  ASSUME ValidatedInv, PublishedInv', UNCHANGED <<versions, jobs, open>>
  PROVE  ValidatedInv'
<1>1. Library!Open' = Library!Open
  BY DEF Library!Open, Library!ToSet
<1>2. JobsShape /\ JobsFit /\ VerdictsFit /\ ValidationsFit
  BY DEF ValidatedInv
<1>3. Onward
  BY <1>2 DEF Onward, JobsShape, Live
<1>4. EditsArrive
  BY <1>1 DEF EditsArrive
<1>5. JobsApart'
  BY <1>2 DEF JobsShape, JobsApart, OfJob
<1>6. \A o \in Library!Open' :
         \/ /\ o \in Library!Open
            /\ OfJob(o) => (Live(o.job) => Live(o.job)')
         \/ ~OfJob(o) /\ o.job = 0
  BY <1>1 DEF Live
<1>7. IsSequence(jobs') /\ DOMAIN jobs' = DOMAIN jobs
  BY <1>2 DEF JobsShape
<1>8. QED
  BY <1>3, <1>4, <1>5, <1>6, <1>7, OnwardKeeps

LEMMA ValidatedStep ==
  ASSUME ValidatedInv, Library!Next
  PROVE  ValidatedInv'
<1>1. PublishedInv /\ PublishedInv' /\ LibraryShape
  BY PublishedStep DEF ValidatedInv, PublishedInv
<1>2. ASSUME NEW v, AnEdit(v)
      PROVE  ValidatedInv'
  <2>1. PICK w : IsRequest(w) /\ w.kind = "edit" /\ w.job = 0
                   /\ "validated" \notin DOMAIN w.columns /\ Library!Edit(v, w)
    BY <1>2, AnEditIs
  <2>2. PICK u : /\ IsRequest(u)
                 /\ u.kind = "edit" /\ u.version = v /\ u.job = 0
                 /\ versions[v].validated # None => "validated" \in DOMAIN u.columns
                 /\ "solution" \in DOMAIN u.columns => u.outdates = Library!Jobs(v)
                 /\ Library!Decide(u)
                 /\ v \in DOMAIN versions
                 /\ jobs' = [j \in DOMAIN jobs |->
                       IF \E o \in Library!Open : o.kind = "verdict" /\ o.version = v /\ o.job = j
                       THEN [jobs[j] EXCEPT !.crossed = TRUE] ELSE jobs[j]]
    BY <2>1, EditIs
  <2>3. QED
    BY <1>1, <2>2, EditKept
<1>3. ASSUME NEW w, Library!Decide(w), w.kind \in {"publish", "drop", "new", "delete"},
             w.job = 0, UNCHANGED <<jobs, edits>>
      PROVE  ValidatedInv'
  BY <1>1, <1>3, OtherRequestKept DEF OfJob
<1>4. ASSUME NEW v, Library!Publish(v) \/ Library!DiscardDraft(v)
      PROVE  ValidatedInv'
  BY <1>3, <1>4, PublishIs, DiscardIs
<1>5. ASSUME Library!NewVersion \/ Library!Delete
      PROVE  ValidatedInv'
  BY <1>1, <1>3, <1>5, NewVersionIs, DeleteIs
<1>6. ASSUME NEW v, Library!RequestValidation(v)
      PROVE  ValidatedInv'
  BY <1>1, <1>6, ValidationIs, ValidationRequestKept
<1>7. ASSUME NEW j \in DOMAIN jobs, Library!Accept(j)
      PROVE  ValidatedInv'
  BY <1>1, <1>7, AcceptIs, AcceptKept
<1>8. ASSUME NEW j \in DOMAIN jobs, Library!Claim(j) \/ Library!Reject(j)
      PROVE  ValidatedInv'
  BY <1>1, <1>8, ClaimKept
<1>9. ASSUME NEW i \in DOMAIN open, Library!Commit(i) \/ Library!RollBack(i)
      PROVE  ValidatedInv'
  BY <1>1, <1>9, CommitValidated, RollBackValidated
<1>10. ASSUME NEW v, Library!Pin(v)
       PROVE  ValidatedInv'
  BY <1>1, <1>10, OthersValidated DEF Library!Pin
<1>11. \/ \E v : AnEdit(v) \/ Library!Publish(v) \/ Library!DiscardDraft(v) \/ Library!Pin(v)
                   \/ Library!RequestValidation(v)
       \/ Library!NewVersion \/ Library!Delete
       \/ \E j \in DOMAIN jobs : Library!Claim(j) \/ Library!Accept(j) \/ Library!Reject(j)
       \/ \E i \in DOMAIN open : Library!Commit(i) \/ Library!RollBack(i)
  BY DEF Library!Next, AnEdit
<1>12. QED
  BY <1>2, <1>4, <1>5, <1>6, <1>7, <1>8, <1>9, <1>10, <1>11

LEMMA ValidatedFromInit == AllInit => ValidatedInv
<1> SUFFICES ASSUME AllInit PROVE ValidatedInv
  OBVIOUS
<1>1. Library!Init
  BY DEF AllInit
<1>2. jobs = <<>> /\ open = <<>>
  BY <1>1 DEF Library!Init
<1>3. \A v \in DOMAIN versions : versions[v].validated = None
  <2>1. PICK t \in Library!Test, s \in Solutions :
          versions \in {<<Library!Draft(None, <<>>)>>,
                        <<Library!Draft(s, [i \in Library!TestIds |-> t])>>}
    BY <1>1 DEF Library!Init
  <2>2. PICK row : versions = <<row>> /\ row.validated = None
    <3>1. Library!Draft(None, <<>>).validated = None
      BY DEF Library!Draft
    <3>2. Library!Draft(s, [i \in Library!TestIds |-> t]).validated = None
      BY DEF Library!Draft
    <3>3. QED
      BY <2>1, <3>1, <3>2
  <2>3. QED
    BY <2>2
<1>4. Library!Open = {} /\ DOMAIN jobs = {} /\ DOMAIN open = {}
  BY <1>2, OpenIs
<1>5. IsSequence(jobs)
  BY <1>2 DEF IsSequence
<1>6. JobsShape /\ JobsFit /\ VerdictsFit /\ ValidationsFit
  BY <1>3, <1>4, <1>5
     DEF JobsShape, JobsApart, JobsFit, VerdictsFit, ValidationsFit, ValidationFits
<1>7. QED
  BY <1>6, PublishedFromInit DEF ValidatedInv

\* A validation that no edit overlapped is of the solution and of the expected outputs that the
\* version has, for any number of versions, jobs and requests at once
\* (ExecutionService.complete).
THEOREM ValidatedDoesStand == AdministrationSpec => []ValidatedAsItStands
<1>1. ValidatedInv /\ [AllNext]_allVars => ValidatedInv'
  <2> SUFFICES ASSUME ValidatedInv, [AllNext]_allVars
               PROVE  ValidatedInv'
    OBVIOUS
  <2>1. CASE Library!Next
    BY <2>1, ValidatedStep
  <2>2. CASE UNCHANGED libraryVars
    <3>1. UNCHANGED <<versions, pinned, open>> /\ UNCHANGED <<versions, jobs, open>>
      BY <2>2 DEF libraryVars
    <3>2. PublishedInv'
      BY <3>1, OthersKept DEF ValidatedInv
    <3>3. QED
      BY <3>1, <3>2, OthersValidated
  <2>3. QED
    BY <2>1, <2>2 DEF AllNext, AuthoringStep, ReviewStep, LibraryStep, allVars
<1>2. ValidatedInv => ValidatedAsItStands
  <2> SUFFICES ASSUME ValidatedInv, NEW v \in DOMAIN versions,
                      versions[v].validated # None,
                      ~jobs[versions[v].validated.job].crossed
               PROVE  Validates(versions[v].validated, versions[v])
    BY DEF ValidatedAsItStands, Library!ValidatedAsItStands, Validates
  <2>1. QED
    BY DEF ValidatedInv, ValidationsFit, ValidationFits
<1>3. QED
  BY ValidatedFromInit, <1>1, <1>2, PTL DEF AdministrationSpec
=============================================================================
