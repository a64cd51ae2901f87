--------------------------- MODULE InterviewProofs ---------------------------
(***************************************************************************)
(* Proofs about an interview: the session of a candidate                   *)
(* (InterviewSession) and its human review (InterviewReview), and then the *)
(* one paper that administrators write and candidates sit                  *)
(* (InterviewAuthoring); for any bank of questions and settings, any       *)
(* number of requests, runs, administrators, edits and faults.             *)
(*                                                                         *)
(* Three parties move a session on: a candidate's request, an evaluation   *)
(* that arrives and one that is given up.  They all do it with Advance, so *)
(* most is said once, of Advance, for any session and rows.  The paper     *)
(* stays one however many requests run at once, unless a publication       *)
(* overlapped an edit or an unpublication an assignment.                   *)
(***************************************************************************)
EXTENDS InterviewReview, InterviewAuthoring, FiniteSetTheorems, WellFoundedInduction, TLAPS

-----------------------------------------------------------------------------
(* The inductive invariant. *)

\* A paper and its evaluations: the answered items are the ones with an evaluation, and all
\* but perhaps the last are answered.
Fits(its, evs) ==
    /\ its \in Seq(Item) /\ evs \in Seq(Evaluation)
    /\ Len(evs) <= Len(its) /\ Len(its) <= Len(evs) + 1
    /\ \A i \in DOMAIN its : its[i].state = "ANSWERED" <=> i \in DOMAIN evs
    /\ \A i \in DOMAIN evs : evs[i].status = "COMPLETED" => evs[i].signal # None

\* AskedOnEvidence of these rows.
Reasons(its, evs) ==
    \A i \in DOMAIN its \ {1} :
        LET ev == evs[i - 1]
        IN /\ its[i].by = "ADAPTIVE" =>
                 /\ ev.status = "COMPLETED"
                 /\ its[i].kind = "FOLLOW_UP" => Weak(ev.signal)
           /\ its[i].by = "PLAN" => ev.status = "UNAVAILABLE"

\* PaperKept of these items; without adaption what was asked is the beginning of the plan.
Paper(its) ==
    /\ \A i, j \in DOMAIN its :
          i # j => its[i].question # its[j].question \/ its[i].kind # its[j].kind
    /\ \A i \in DOMAIN its :
          IF its[i].kind = "PRIMARY" THEN its[i].question \in Plan
          ELSE i > 1 /\ its[i - 1].kind = "PRIMARY" /\ its[i - 1].question = its[i].question
    /\ Cardinality(Asked(its, "PRIMARY")) <= QuestionCount
    /\ ~Adaptive => \A i, j \in DOMAIN its : i < j => its[i].question <= its[j].question
    /\ ~Adaptive => \A p \in Asked(its, "PRIMARY"), q \in Plan \ Asked(its, "PRIMARY") : p < q

\* A thread's evaluation is there; one that is given up is PENDING and nobody else's.
RunsHold ==
    /\ \A r \in Runners : run[r].at # "idle" => run[r].item \in DOMAIN evals
    /\ \A r \in Runners : run[r].at = "exhausted" =>
          run[r].copy \in Session /\ evals[run[r].item].status = "PENDING"
    /\ \A r, s \in Runners :
          run[r].at = "exhausted" /\ run[s].at = "exhausted" /\ run[r].item = run[s].item => r = s

SessionInv ==
    /\ TypeOK
    /\ sess = None => items = <<>>
    /\ Fits(items, evals) /\ Reasons(items, evals) /\ Paper(items)
    /\ \A i \in 1..MaxItems : queue[i] > 0 => i \in DOMAIN evals
    /\ RunsHold

-----------------------------------------------------------------------------
(* The plan and the question that comes next. *)

LEMMA Least ==
    ASSUME NEW S \in SUBSET Nat, S # {}
    PROVE  \E m \in S : \A n \in S : m <= n
<1>1. IsWellFoundedOn(OpToRel(<, Nat), Nat)
  BY NatLessThanWellFounded
<1>2. PICK m \in S : \A n \in S : ~(<<n, m>> \in OpToRel(<, Nat))
  BY <1>1, WFMin
<1>3. \A n \in S : ~(n < m)
  BY <1>2 DEF OpToRel
<1> QED
  BY <1>3

LEMMA BankType ==
    /\ Len(Bank) \in Nat /\ DOMAIN Bank = 1..Len(Bank) /\ MaxItems \in Nat
    /\ Plan \subseteq DOMAIN Bank /\ DOMAIN Bank \subseteq Nat
    /\ \A q \in DOMAIN Bank : Bank[q].level \in Levels
    /\ None \notin DOMAIN Bank
<1>1. Bank \in Seq(Question)
  BY InterviewAssumption DEF InterviewAssumption
<1>2. \A q \in DOMAIN Bank : Bank[q] \in Question
  BY <1>1
<1> QED
  BY <1>1, <1>2, NoneAssumption DEF MaxItems, Plan, Eligible, Question, NoneAssumption

LEMMA ApartType ==
    ASSUME NEW a \in Levels, NEW b \in Levels
    PROVE  Apart(a, b) \in 0..2
BY DEF Apart, Levels

LEMMA SoonestExists ==
    ASSUME NEW S \in SUBSET DOMAIN Bank, S # {}, NEW level \in Levels
    PROVE  \E q \in S : \A p \in S \ {q} : Sooner(q, p, level)
<1> DEFINE D(q) == Apart(Bank[q].level, level)
<1>1. \A q \in S : Bank[q].level \in Levels /\ D(q) \in 0..2 /\ q \in Nat
  BY BankType, ApartType
<1>2. PICK d \in {D(q) : q \in S} : \A e \in {D(q) : q \in S} : d <= e
  <2>1. {D(q) : q \in S} \subseteq Nat /\ {D(q) : q \in S} # {}
    BY <1>1
  <2> QED
    BY <2>1, Least
<1> DEFINE T == {q \in S : D(q) = d}
<1>3. PICK l \in {Bank[q].level : q \in T} : \A e \in {Bank[q].level : q \in T} : l <= e
  <2>1. {Bank[q].level : q \in T} \subseteq Nat /\ {Bank[q].level : q \in T} # {}
    BY <1>1, <1>2 DEF Levels
  <2> QED
    BY <2>1, Least
<1> DEFINE U == {q \in T : Bank[q].level = l}
<1>4. PICK q \in U : \A p \in U : q <= p
  <2>1. U \subseteq Nat /\ U # {}
    BY <1>1, <1>3
  <2> QED
    BY <2>1, Least
<1>5. ASSUME NEW p \in S \ {q} PROVE Sooner(q, p, level)
  <2>0. /\ D(q) \in Nat /\ D(p) \in Nat /\ q \in Nat /\ p \in Nat
        /\ Bank[q].level \in Nat /\ Bank[p].level \in Nat
    BY <1>1, <1>4, <1>5 DEF Levels
  <2>1. D(q) = d /\ d <= D(p) /\ Bank[q].level = l
    BY <1>2, <1>4, <1>5
  <2>2. D(p) = d => l <= Bank[p].level
    BY <1>3, <1>5
  <2>3. D(p) = d /\ Bank[p].level = l => q <= p
    BY <1>4, <1>5
  <2>4. \/ D(q) < D(p)
        \/ D(q) = D(p) /\ Bank[q].level < Bank[p].level
        \/ D(q) = D(p) /\ Bank[q].level = Bank[p].level /\ q < p
    BY <2>0, <2>1, <2>2, <2>3, <1>5
  <2> QED
    BY <2>4 DEF Sooner
<1> QED
  BY <1>4, <1>5

\* next_primary asks a planned question that was not asked yet, while the count allows it;
\* without adaption the first of them.
LEMMA NextPrimaryIs ==
    ASSUME NEW its \in Seq(Item), NEW level \in Levels,
           \/ NextPrimary(its, level) # None
           \/ /\ ~(Cardinality(Asked(its, "PRIMARY")) >= QuestionCount)
              /\ Plan \ Asked(its, "PRIMARY") # {}
    PROVE  /\ NextPrimary(its, level) \in Plan \ Asked(its, "PRIMARY")
           /\ ~(Cardinality(Asked(its, "PRIMARY")) >= QuestionCount)
           /\ ~Adaptive => \A p \in (Plan \ Asked(its, "PRIMARY")) \ {NextPrimary(its, level)} :
                              NextPrimary(its, level) < p
<1> DEFINE left == Plan \ Asked(its, "PRIMARY")
           Before(q, p) == IF Adaptive THEN Sooner(q, p, level) ELSE q < p
<1>1. ~(Cardinality(Asked(its, "PRIMARY")) >= QuestionCount) /\ left # {}
  BY DEF NextPrimary
<1>2. NextPrimary(its, level) = CHOOSE q \in left : \A p \in left \ {q} : Before(q, p)
  BY <1>1 DEF NextPrimary
<1>3. \E q \in left : \A p \in left \ {q} : Before(q, p)
  <2>1. left \subseteq DOMAIN Bank /\ left \subseteq Nat
    BY BankType
  <2>2. CASE Adaptive
    BY <1>1, <2>1, <2>2, SoonestExists
  <2>3. CASE ~Adaptive
    <3>1. PICK q \in left : \A p \in left : q <= p
      BY <1>1, <2>1, Least
    <3>2. \A p \in left \ {q} : q < p
      BY <2>1, <3>1
    <3> QED
      BY <2>3, <3>2
  <2> QED
    BY <2>2, <2>3
<1>4. /\ NextPrimary(its, level) \in left
      /\ \A p \in left \ {NextPrimary(its, level)} : Before(NextPrimary(its, level), p)
  <2> HIDE DEF left, Before
  <2> QED
    BY <1>2, <1>3
<1>5. ~Adaptive => \A p \in left \ {NextPrimary(its, level)} : NextPrimary(its, level) < p
  BY <1>4
<1> QED
  BY <1>1, <1>4, <1>5

-----------------------------------------------------------------------------
(* Moving on. *)

LEMMA LevelType ==
    ASSUME NEW level \in Levels, NEW kind, NEW sig \in Signal \cup {None}
    PROVE  NextLevel(kind, sig, level) \in Levels
<1>1. Clamp(level + 1) \in Levels /\ Clamp(level - 1) \in Levels
  BY InterviewAssumption DEF InterviewAssumption, Clamp, Levels
<1> QED
  BY <1>1 DEF NextLevel

LEMMA EvaluationType ==
    ASSUME NEW ev \in Evaluation
    PROVE  /\ ev.signal \in Signal \cup {None}
           /\ ev.status \in {"PENDING", "COMPLETED", "FAILED", "UNAVAILABLE"}
           /\ ev.attempts \in 0..MaxRuns
BY DEF Evaluation

LEMMA SettleType ==
    ASSUME NEW s \in Session, NEW late
    PROVE  Settle(s, late) \in Session
BY DEF Settle, Ended, Session

\* The rows of an interview that may move on: every question is answered.
LEMMA LastAnswered ==
    ASSUME NEW s, NEW its, NEW evs, NEW wait, Fits(its, evs), ~Waits(s, its, evs, wait)
    PROVE  /\ its # <<>> /\ Len(its) \in Nat \ {0} /\ Len(its) = Len(evs)
           /\ its[Len(its)] \in Item /\ evs[Len(its)] \in Evaluation
<1>1. its \in Seq(Item) /\ evs \in Seq(Evaluation) /\ its # <<>>
  BY DEF Fits, Waits
<1>2. Len(its) \in Nat \ {0} /\ Len(its) \in DOMAIN its
  BY <1>1
<1>3. its[Len(its)] \in Item /\ its[Len(its)].state # "PRESENTED"
  BY <1>1, <1>2 DEF Waits
<1>4. its[Len(its)].state = "ANSWERED"
  BY <1>3 DEF Item
<1>5. Len(its) \in DOMAIN evs
  BY <1>2, <1>4 DEF Fits
<1> QED
  BY <1>1, <1>2, <1>3, <1>5 DEF Fits

\* What Advance may ask after these rows: a follow-up to the last question, whose answer was
\* weak if it was evaluated, or the next primary.
Follows(its, evs, q, kind) ==
    \/ /\ kind = "FOLLOW_UP"
       /\ its[Len(its)].kind = "PRIMARY" /\ q = its[Len(its)].question
       /\ evs[Len(its)].signal # None => Weak(evs[Len(its)].signal)
    \/ /\ kind = "PRIMARY" /\ q # None
       /\ \E level \in Levels : q = NextPrimary(its, level)

LEMMA AdvanceIs ==
    ASSUME NEW s \in Session, NEW its, NEW evs, NEW wait, Fits(its, evs)
    PROVE  /\ Advance(s, its, evs, wait).session \in Session
           /\ \/ Advance(s, its, evs, wait).items = its
              \/ /\ ~Waits(s, its, evs, wait)
                 /\ \E q \in DOMAIN Bank, kind \in {"PRIMARY", "FOLLOW_UP"} :
                       /\ Follows(its, evs, q, kind)
                       /\ Advance(s, its, evs, wait).items =
                             Append(its, Asking(q, kind, SelectedBy(evs[Len(its)])))
<1>1. CASE Waits(s, its, evs, wait)
  BY <1>1 DEF Advance
<1>2. CASE ~Waits(s, its, evs, wait)
  <2> DEFINE last    == its[Len(its)]
             ev      == evs[Len(its)]
             level   == NextLevel(last.kind, ev.signal, s.level)
             moved   == [s EXCEPT !.level = level, !.changes = IF level = s.level THEN @ ELSE @ + 1]
             follow  == FollowUpAvailable(last, s.used) /\ (ev.signal # None => Weak(ev.signal))
             primary == NextPrimary(its, level)
  <2>1. /\ its \in Seq(Item) /\ last \in Item /\ ev \in Evaluation
    BY <1>2, LastAnswered DEF Fits
  <2>2. level \in Levels
    <3>1. ev.signal \in Signal \cup {None}
      BY <2>1, EvaluationType
    <3>2. s.level \in Levels
      BY DEF Session
    <3> QED
      BY <3>1, <3>2, LevelType
  <2>3. moved \in Session
    <3> HIDE DEF level
    <3>1. s = [status |-> s.status, reason |-> s.reason, used |-> s.used, level |-> s.level,
               changes |-> s.changes]
      BY DEF Session
    <3>2. s.changes \in Nat /\ s.changes + 1 \in Nat
      BY DEF Session
    <3> QED
      BY <2>2, <3>1, <3>2 DEF Session
  <2>4. CASE follow
    <3>1. Advance(s, its, evs, wait) =
            [session |-> [moved EXCEPT !.used = @ + 1],
             items   |-> Append(its, Asking(last.question, "FOLLOW_UP", SelectedBy(ev)))]
      BY <1>2, <2>4 DEF Advance
    <3>2. [moved EXCEPT !.used = @ + 1] \in Session
      <4> HIDE DEF moved
      <4> QED
        BY <2>3 DEF Session
    <3>3. last.question \in DOMAIN Bank /\ Follows(its, evs, last.question, "FOLLOW_UP")
      BY <2>1, <2>4 DEF Follows, FollowUpAvailable, Item
    <3> QED
      <4> HIDE DEF moved, last, ev
      <4>1. Advance(s, its, evs, wait).session \in Session
        BY <3>1, <3>2
      <4>2. Advance(s, its, evs, wait).items = Append(its, Asking(last.question, "FOLLOW_UP", SelectedBy(ev)))
        BY <3>1
      <4> QED
        BY <1>2, <3>3, <4>1, <4>2 DEF ev
  <2>5. CASE ~follow /\ primary # None
    <3>1. Advance(s, its, evs, wait) =
            [session |-> moved, items |-> Append(its, Asking(primary, "PRIMARY", SelectedBy(ev)))]
      BY <1>2, <2>5 DEF Advance
    <3>2. primary \in DOMAIN Bank /\ Follows(its, evs, primary, "PRIMARY")
      BY <2>1, <2>2, <2>5, NextPrimaryIs, BankType DEF Follows
    <3> QED
      <4> HIDE DEF moved, primary, ev
      <4>1. Advance(s, its, evs, wait).session \in Session
        BY <3>1, <2>3
      <4>2. Advance(s, its, evs, wait).items = Append(its, Asking(primary, "PRIMARY", SelectedBy(ev)))
        BY <3>1
      <4> QED
        BY <1>2, <3>2, <4>1, <4>2 DEF ev
  <2>6. CASE ~follow /\ primary = None
    <3>1. Advance(s, its, evs, wait) = [session |-> Ended(moved, "ALL_ANSWERED"), items |-> its]
      BY <1>2, <2>6 DEF Advance
    <3>2. Ended(moved, "ALL_ANSWERED") \in Session
      <4> HIDE DEF moved
      <4> QED
        BY <2>3 DEF Ended, Session
    <3> QED
      <4> HIDE DEF moved
      <4> QED
        BY <3>1, <3>2
  <2> QED
    BY <2>4, <2>5, <2>6
<1> QED
  BY <1>1, <1>2

LEMMA AppendIs ==
    ASSUME NEW its \in Seq(Item), NEW q \in DOMAIN Bank, NEW kind \in {"PRIMARY", "FOLLOW_UP"},
           NEW by \in {"PLAN", "ADAPTIVE", "FALLBACK"}
    PROVE  LET new == Append(its, Asking(q, kind, by))
           IN /\ new \in Seq(Item) /\ Len(new) = Len(its) + 1 /\ Len(its) \in Nat
              /\ DOMAIN its = 1..Len(its) /\ DOMAIN new = DOMAIN its \cup {Len(its) + 1}
              /\ \A i \in DOMAIN its : new[i] = its[i]
              /\ new[Len(its) + 1] = Asking(q, kind, by)
              /\ Asked(new, "PRIMARY") =
                    IF kind = "PRIMARY" THEN Asked(its, "PRIMARY") \cup {q} ELSE Asked(its, "PRIMARY")
<1> DEFINE new == Append(its, Asking(q, kind, by))
<1>1. Asking(q, kind, by) \in Item
  BY DEF Asking, Item
<1>2. /\ new \in Seq(Item) /\ Len(new) = Len(its) + 1 /\ Len(its) \in Nat
      /\ DOMAIN its = 1..Len(its) /\ DOMAIN new = DOMAIN its \cup {Len(its) + 1}
      /\ \A i \in DOMAIN its : new[i] = its[i]
      /\ new[Len(its) + 1] = Asking(q, kind, by)
  BY <1>1
<1>3. /\ new[Len(its) + 1].question = q /\ new[Len(its) + 1].kind = kind
      /\ Len(its) + 1 \notin DOMAIN its
  BY <1>2 DEF Asking
<1>4. Asked(new, "PRIMARY") =
        IF kind = "PRIMARY" THEN Asked(its, "PRIMARY") \cup {q} ELSE Asked(its, "PRIMARY")
  <2> HIDE DEF new
  <2> DEFINE K(n) == {j \in DOMAIN n : n[j].kind = "PRIMARY"}
  <2>1. K(new) = IF kind = "PRIMARY" THEN K(its) \cup {Len(its) + 1} ELSE K(its)
    BY <1>2, <1>3
  <2>2. \A j \in K(its) : new[j].question = its[j].question
    BY <1>2
  <2>3. {new[j].question : j \in K(its)} = {its[j].question : j \in K(its)}
    BY <2>2
  <2>4. \A n : Asked(n, "PRIMARY") = {n[j].question : j \in K(n)}
    BY DEF Asked
  <2> HIDE DEF K
  <2>5. CASE kind = "PRIMARY"
    <3>1. {new[j].question : j \in K(its) \cup {Len(its) + 1}} =
            {new[j].question : j \in K(its)} \cup {q}
      BY <1>3
    <3> QED
      BY <2>1, <2>3, <2>4, <2>5, <3>1
  <2>6. CASE kind # "PRIMARY"
    BY <2>1, <2>3, <2>4, <2>6
  <2> QED
    BY <2>5, <2>6
<1> QED
  BY <1>2, <1>4

LEMMA ItemType ==
    ASSUME NEW its \in Seq(Item), NEW i \in DOMAIN its
    PROVE  its[i].question \in DOMAIN Bank /\ its[i].kind \in {"PRIMARY", "FOLLOW_UP"}
<1>1. its[i] \in Item
  OBVIOUS
<1> QED
  BY <1>1 DEF Item

LEMMA AskedIn ==
    ASSUME NEW its \in Seq(Item)
    PROVE  /\ Asked(its, "PRIMARY") \subseteq DOMAIN Bank
           /\ IsFiniteSet(Asked(its, "PRIMARY")) /\ Cardinality(Asked(its, "PRIMARY")) \in Nat
           /\ \A i \in DOMAIN its : its[i].kind = "PRIMARY" => its[i].question \in Asked(its, "PRIMARY")
<1>1. Asked(its, "PRIMARY") \subseteq DOMAIN Bank
  BY ItemType DEF Asked
<1>2. IsFiniteSet(DOMAIN Bank)
  BY BankType, FS_Interval
<1>3. IsFiniteSet(Asked(its, "PRIMARY"))
  BY <1>1, <1>2, FS_Subset
<1>4. \A i \in DOMAIN its : its[i].kind = "PRIMARY" => its[i].question \in Asked(its, "PRIMARY")
  BY DEF Asked
<1> QED
  BY <1>1, <1>3, <1>4, FS_CardinalityType

\* A question that follows keeps the paper.
LEMMA NextFits ==
    ASSUME NEW its, NEW evs, NEW s, NEW wait, NEW q \in DOMAIN Bank,
           NEW kind \in {"PRIMARY", "FOLLOW_UP"}, NEW by \in {"PLAN", "ADAPTIVE", "FALLBACK"},
           Fits(its, evs), Paper(its), ~Waits(s, its, evs, wait), Follows(its, evs, q, kind)
    PROVE  LET new == Append(its, Asking(q, kind, by)) IN Fits(new, evs) /\ Paper(new)
<1> DEFINE new == Append(its, Asking(q, kind, by))
           n == Len(its)
<1>1. /\ its \in Seq(Item) /\ n \in Nat \ {0} /\ n = Len(evs) /\ its[n] \in Item /\ n \in DOMAIN its
  BY LastAnswered DEF Fits
<1>2. /\ new \in Seq(Item) /\ Len(new) = n + 1
      /\ DOMAIN its = 1..n /\ DOMAIN new = DOMAIN its \cup {n + 1}
      /\ \A i \in DOMAIN its : new[i] = its[i]
      /\ new[n + 1] = Asking(q, kind, by)
      /\ Asked(new, "PRIMARY") =
            IF kind = "PRIMARY" THEN Asked(its, "PRIMARY") \cup {q} ELSE Asked(its, "PRIMARY")
  BY <1>1, AppendIs
<1> HIDE DEF new, n
<1>3. /\ new[n + 1].question = q /\ new[n + 1].kind = kind /\ new[n + 1].state = "PRESENTED"
      /\ n + 1 \notin DOMAIN its
  BY <1>1, <1>2 DEF Asking
<1>4. Fits(new, evs)
  <2>1. \A i \in DOMAIN new : new[i].state = "ANSWERED" <=> i \in DOMAIN evs
    <3>1. \A i \in DOMAIN its : new[i].state = "ANSWERED" <=> i \in DOMAIN evs
      BY <1>2 DEF Fits
    <3>2. n + 1 \notin DOMAIN evs
      BY <1>1 DEF Fits
    <3> QED
      BY <1>2, <1>3, <3>1, <3>2
  <2> QED
    BY <1>1, <1>2, <2>1 DEF Fits
<1>5. /\ Asked(its, "PRIMARY") \subseteq DOMAIN Bank
      /\ IsFiniteSet(Asked(its, "PRIMARY")) /\ Cardinality(Asked(its, "PRIMARY")) \in Nat
      /\ \A i \in DOMAIN its : its[i].kind = "PRIMARY" => its[i].question \in Asked(its, "PRIMARY")
  BY <1>1, AskedIn
<1>6. DOMAIN Bank \subseteq Nat /\ \A i \in DOMAIN its : its[i].question \in DOMAIN Bank
  BY <1>1, BankType, ItemType
<1>7. ASSUME kind = "PRIMARY" PROVE Paper(new)
  <2>1. PICK level \in Levels : q = NextPrimary(its, level) /\ q # None
    BY <1>7 DEF Follows
  <2>2. /\ q \in Plan \ Asked(its, "PRIMARY")
        /\ ~(Cardinality(Asked(its, "PRIMARY")) >= QuestionCount)
        /\ ~Adaptive => \A p \in (Plan \ Asked(its, "PRIMARY")) \ {q} : q < p
    BY <1>1, <2>1, NextPrimaryIs
  <2>3. \A i, j \in DOMAIN new :
          i # j => new[i].question # new[j].question \/ new[i].kind # new[j].kind
    <3>1. \A i \in DOMAIN its : new[i].question # q \/ new[i].kind # kind
      BY <1>2, <1>5, <1>7, <2>2
    <3> QED
      BY <1>2, <1>3, <3>1 DEF Paper
  <2>4. \A i \in DOMAIN new :
          IF new[i].kind = "PRIMARY" THEN new[i].question \in Plan
          ELSE i > 1 /\ new[i - 1].kind = "PRIMARY" /\ new[i - 1].question = new[i].question
    <3>1. ASSUME NEW i \in DOMAIN its, its[i].kind # "PRIMARY" PROVE i > 1 /\ i - 1 \in DOMAIN its
      BY <1>1, <1>2, <3>1 DEF Paper
    <3> QED
      BY <1>2, <1>3, <1>7, <2>2, <3>1 DEF Paper
  <2>5. Cardinality(Asked(new, "PRIMARY")) <= QuestionCount
    <3>1. Cardinality(Asked(its, "PRIMARY") \cup {q}) = Cardinality(Asked(its, "PRIMARY")) + 1
      BY <1>5, <2>2, FS_AddElement
    <3>2. QuestionCount \in Nat
      BY InterviewAssumption DEF InterviewAssumption
    <3>3. Asked(new, "PRIMARY") = Asked(its, "PRIMARY") \cup {q}
      BY <1>2, <1>7
    <3>4. Cardinality(Asked(new, "PRIMARY")) = Cardinality(Asked(its, "PRIMARY")) + 1
      BY <3>1, <3>3
    <3>5. ~(Cardinality(Asked(its, "PRIMARY")) >= QuestionCount)
      BY <2>2
    <3> QED
      BY <1>5, <3>2, <3>4, <3>5
  <2>6. ASSUME ~Adaptive
        PROVE  /\ \A i, j \in DOMAIN new : i < j => new[i].question <= new[j].question
               /\ \A p \in Asked(new, "PRIMARY"), r \in Plan \ Asked(new, "PRIMARY") : p < r
    <3>1. \A p \in Asked(its, "PRIMARY") : p < q
      BY <2>2, <2>6 DEF Paper
    <3>2. \A i \in DOMAIN its : its[i].question \in Asked(its, "PRIMARY")
      <4>1. ASSUME NEW i \in DOMAIN its, its[i].kind # "PRIMARY"
            PROVE  its[i].question \in Asked(its, "PRIMARY")
        <5>1. /\ i > 1 /\ i - 1 \in DOMAIN its
              /\ its[i - 1].kind = "PRIMARY" /\ its[i - 1].question = its[i].question
          BY <1>1, <1>2, <4>1 DEF Paper
        <5> QED
          BY <1>5, <5>1
      <4> QED
        BY <1>5, <4>1
    <3>3. \A i, j \in DOMAIN new : i < j => new[i].question <= new[j].question
      <4>1. ASSUME NEW i \in DOMAIN its PROVE new[i].question <= q
        BY <1>2, <1>6, <3>1, <3>2
      <4>2. ASSUME NEW i \in DOMAIN its PROVE ~(n + 1 < i)
        BY <1>1, <1>2
      <4>3. ASSUME NEW i \in DOMAIN its, NEW j \in DOMAIN its, i < j
            PROVE  new[i].question <= new[j].question
        BY <1>2, <2>6, <4>3 DEF Paper
      <4> QED
        BY <1>1, <1>2, <1>3, <4>1, <4>2, <4>3
    <3>4. \A p \in Asked(new, "PRIMARY"), r \in Plan \ Asked(new, "PRIMARY") : p < r
      BY <1>2, <1>7, <2>2, <2>6 DEF Paper
    <3> QED
      BY <3>3, <3>4
  <2> QED
    BY <2>3, <2>4, <2>5, <2>6 DEF Paper
<1>8. ASSUME kind = "FOLLOW_UP" PROVE Paper(new)
  <2>1. its[n].kind = "PRIMARY" /\ q = its[n].question
    BY <1>8 DEF Follows, n
  <2>2. \A i \in DOMAIN its : its[i].question # q \/ its[i].kind # kind
    <3>1. SUFFICES ASSUME NEW i \in DOMAIN its, its[i].question = q, its[i].kind = kind PROVE FALSE
      OBVIOUS
    <3>2. i > 1 /\ its[i - 1].kind = "PRIMARY" /\ its[i - 1].question = q
      BY <1>8, <3>1 DEF Paper
    <3>3. i - 1 \in DOMAIN its /\ i - 1 # n
      BY <1>1, <1>2, <3>2
    <3> QED
      BY <1>1, <2>1, <3>2, <3>3 DEF Paper
  <2>3. \A i, j \in DOMAIN new :
          i # j => new[i].question # new[j].question \/ new[i].kind # new[j].kind
    BY <1>2, <1>3, <2>2 DEF Paper
  <2>4. \A i \in DOMAIN new :
          IF new[i].kind = "PRIMARY" THEN new[i].question \in Plan
          ELSE i > 1 /\ new[i - 1].kind = "PRIMARY" /\ new[i - 1].question = new[i].question
    <3>1. ASSUME NEW i \in DOMAIN its, its[i].kind # "PRIMARY" PROVE i > 1 /\ i - 1 \in DOMAIN its
      BY <1>1, <1>2, <3>1 DEF Paper
    <3>2. n + 1 > 1 /\ (n + 1) - 1 = n
      BY <1>1
    <3> QED
      BY <1>1, <1>2, <1>3, <1>8, <2>1, <3>1, <3>2 DEF Paper
  <2>5. Asked(new, "PRIMARY") = Asked(its, "PRIMARY")
    BY <1>2, <1>8
  <2>6. ASSUME ~Adaptive
        PROVE  \A i, j \in DOMAIN new : i < j => new[i].question <= new[j].question
    <3>1. ASSUME NEW i \in DOMAIN its PROVE new[i].question <= q
      <4>1. i = n \/ i < n
        BY <1>2, <1>1
      <4>2. its[i].question <= its[n].question
        BY <1>1, <1>6, <2>6, <4>1 DEF Paper
      <4> QED
        BY <1>2, <2>1, <4>2
    <3>2. ASSUME NEW i \in DOMAIN its PROVE ~(n + 1 < i)
      BY <1>1, <1>2
    <3>3. ASSUME NEW i \in DOMAIN its, NEW j \in DOMAIN its, i < j
          PROVE  new[i].question <= new[j].question
      BY <1>2, <2>6, <3>3 DEF Paper
    <3> QED
      BY <1>1, <1>2, <1>3, <3>1, <3>2, <3>3
  <2> QED
    <3>1. Cardinality(Asked(new, "PRIMARY")) <= QuestionCount
      BY <2>5 DEF Paper
    <3>2. ~Adaptive => \A p \in Asked(new, "PRIMARY"), r \in Plan \ Asked(new, "PRIMARY") : p < r
      BY <2>5 DEF Paper
    <3> QED
      BY <2>3, <2>4, <2>6, <3>1, <3>2 DEF Paper
<1> QED
  BY <1>4, <1>7, <1>8 DEF new

LEMMA NextReasons ==
    ASSUME NEW its, NEW evs, NEW s, NEW wait, NEW q \in DOMAIN Bank,
           NEW kind \in {"PRIMARY", "FOLLOW_UP"},
           Fits(its, evs), Reasons(its, evs), ~Waits(s, its, evs, wait), Follows(its, evs, q, kind)
    PROVE  /\ SelectedBy(evs[Len(its)]) \in {"PLAN", "ADAPTIVE", "FALLBACK"}
           /\ Reasons(Append(its, Asking(q, kind, SelectedBy(evs[Len(its)]))), evs)
<1> DEFINE by  == SelectedBy(evs[Len(its)])
           new == Append(its, Asking(q, kind, by))
           n == Len(its)
<1>1. /\ its \in Seq(Item) /\ n \in Nat \ {0} /\ n = Len(evs) /\ n \in DOMAIN its /\ n \in DOMAIN evs
      /\ evs \in Seq(Evaluation)
  BY LastAnswered DEF Fits
<1>2. by \in {"PLAN", "ADAPTIVE", "FALLBACK"}
  BY DEF SelectedBy
<1>3. /\ DOMAIN its = 1..n /\ DOMAIN new = DOMAIN its \cup {n + 1}
      /\ \A i \in DOMAIN its : new[i] = its[i]
      /\ new[n + 1] = Asking(q, kind, by)
  BY <1>1, <1>2, AppendIs
<1> HIDE DEF new
<1>4. new[n + 1].kind = kind /\ new[n + 1].by = by
  BY <1>3 DEF Asking
<1>5. by = "ADAPTIVE" =>
        /\ evs[n].status = "COMPLETED"
        /\ kind = "FOLLOW_UP" => Weak(evs[n].signal)
  BY <1>1 DEF SelectedBy, Follows, Fits
<1>6. by = "PLAN" => evs[n].status = "UNAVAILABLE"
  BY DEF SelectedBy
<1>7. Reasons(new, evs)
  <2> SUFFICES ASSUME NEW i \in DOMAIN new \ {1}
               PROVE  /\ new[i].by = "ADAPTIVE" =>
                            /\ evs[i - 1].status = "COMPLETED"
                            /\ new[i].kind = "FOLLOW_UP" => Weak(evs[i - 1].signal)
                      /\ new[i].by = "PLAN" => evs[i - 1].status = "UNAVAILABLE"
    BY DEF Reasons
  <2>1. CASE i = n + 1
    <3>1. i - 1 = n
      BY <1>1, <2>1
    <3> HIDE DEF n, by
    <3> QED
      BY <1>4, <1>5, <1>6, <2>1, <3>1
  <2>2. CASE i \in DOMAIN its
    BY <1>3, <2>2 DEF Reasons
  <2> QED
    BY <1>3, <2>1, <2>2
<1> QED
  BY <1>2, <1>7 DEF new

\* No question is asked twice in one role, so there are at most two items for each.
LEMMA PaperLength ==
    ASSUME NEW its \in Seq(Item), Paper(its)
    PROVE  Len(its) <= MaxItems
<1> DEFINE place == [i \in DOMAIN its |->
                        IF its[i].kind = "PRIMARY" THEN 2 * its[i].question - 1 ELSE 2 * its[i].question]
<1>1. \A i \in DOMAIN its : its[i].question \in 1..Len(Bank) /\ its[i].kind \in {"PRIMARY", "FOLLOW_UP"}
  BY ItemType, BankType
<1>2. place \in [DOMAIN its -> 1..MaxItems]
  BY <1>1, BankType DEF MaxItems
<1>3. ASSUME NEW i \in DOMAIN its, NEW j \in DOMAIN its, place[i] = place[j]
      PROVE  i = j
  <2>1. its[i].question = its[j].question /\ its[i].kind = its[j].kind
    BY <1>1, <1>3, BankType
  <2> QED
    BY <2>1 DEF Paper
<1>4. place \in Injection(DOMAIN its, 1..MaxItems)
  BY <1>2, <1>3 DEF Injection, IsInjective
<1>0. ASSUME NEW n \in Nat PROVE IsFiniteSet(1..n) /\ Cardinality(1..n) = n
  <2>1. IsFiniteSet(1..n) /\ Cardinality(1..n) = IF 1 > n THEN 0 ELSE n - 1 + 1
    BY FS_Interval
  <2> QED
    BY <2>1
<1>5. IsFiniteSet(1..MaxItems) /\ Cardinality(1..MaxItems) = MaxItems
  BY <1>0, BankType
<1>6. Len(its) \in Nat /\ DOMAIN its = 1..Len(its) /\ Cardinality(1..Len(its)) = Len(its)
  BY <1>0
<1>7. Cardinality(DOMAIN its) <= Cardinality(1..MaxItems)
  BY <1>4, <1>5, FS_Injection
<1> QED
  BY <1>5, <1>6, <1>7

\* Whoever moves the interview on, its rows stay in order.
LEMMA AdvanceKeeps ==
    ASSUME NEW s \in Session, NEW its, NEW evs, NEW wait,
           Fits(its, evs), Reasons(its, evs), Paper(its)
    PROVE  LET moved == Advance(s, its, evs, wait)
           IN /\ moved.session \in Session
              /\ Fits(moved.items, evs) /\ Reasons(moved.items, evs) /\ Paper(moved.items)
              /\ Len(moved.items) <= MaxItems
<1>1. /\ Advance(s, its, evs, wait).session \in Session
      /\ \/ Advance(s, its, evs, wait).items = its
         \/ /\ ~Waits(s, its, evs, wait)
            /\ \E q \in DOMAIN Bank, kind \in {"PRIMARY", "FOLLOW_UP"} :
                  /\ Follows(its, evs, q, kind)
                  /\ Advance(s, its, evs, wait).items =
                        Append(its, Asking(q, kind, SelectedBy(evs[Len(its)])))
  BY AdvanceIs
<1> DEFINE new == Advance(s, its, evs, wait).items
<1> HIDE DEF new
<1>2. Fits(new, evs) /\ Reasons(new, evs) /\ Paper(new)
  <2>1. CASE new = its
    BY <2>1
  <2>2. CASE new # its
    <3>1. PICK q \in DOMAIN Bank, kind \in {"PRIMARY", "FOLLOW_UP"} :
            /\ ~Waits(s, its, evs, wait)
            /\ Follows(its, evs, q, kind)
            /\ new = Append(its, Asking(q, kind, SelectedBy(evs[Len(its)])))
      BY <1>1, <2>2 DEF new
    <3>2. SelectedBy(evs[Len(its)]) \in {"PLAN", "ADAPTIVE", "FALLBACK"} /\ Reasons(new, evs)
      BY <3>1, NextReasons
    <3>3. Fits(new, evs) /\ Paper(new)
      BY <3>1, <3>2, NextFits
    <3> QED
      BY <3>2, <3>3
  <2> QED
    BY <2>1, <2>2
<1>3. Len(new) <= MaxItems
  BY <1>2, PaperLength DEF Fits
<1> QED
  BY <1>1, <1>2, <1>3 DEF new

\* Only an evaluation that is PENDING may change.
LEMMA EvaluationChanges ==
    ASSUME NEW its, NEW evs, NEW i \in DOMAIN evs, NEW ev \in Evaluation,
           Fits(its, evs), Reasons(its, evs),
           evs[i].status = "PENDING", ev.status = "COMPLETED" => ev.signal # None
    PROVE  Fits(its, [evs EXCEPT ![i] = ev]) /\ Reasons(its, [evs EXCEPT ![i] = ev])
<1> DEFINE new == [evs EXCEPT ![i] = ev]
<1>1. /\ new \in Seq(Evaluation) /\ Len(new) = Len(evs) /\ DOMAIN new = DOMAIN evs
      /\ new[i] = ev /\ \A j \in DOMAIN evs \ {i} : new[j] = evs[j]
  BY DEF Fits
<1> HIDE DEF new
<1>2. Fits(its, new)
  BY <1>1 DEF Fits
<1>3. Reasons(its, new)
  <2> SUFFICES ASSUME NEW j \in DOMAIN its \ {1}
               PROVE  /\ its[j].by = "ADAPTIVE" =>
                            /\ new[j - 1].status = "COMPLETED"
                            /\ its[j].kind = "FOLLOW_UP" => Weak(new[j - 1].signal)
                      /\ its[j].by = "PLAN" => new[j - 1].status = "UNAVAILABLE"
    BY DEF Reasons
  <2>1. j - 1 \in DOMAIN evs
    BY DEF Fits
  <2>2. CASE j - 1 = i
    BY <2>2 DEF Reasons
  <2>3. CASE j - 1 # i
    BY <1>1, <2>1, <2>3 DEF Reasons
  <2> QED
    BY <2>2, <2>3
<1> QED
  BY <1>2, <1>3 DEF new

\* The first question.
LEMMA FirstFits ==
    ASSUME NEW level \in Levels, Plan # {}
    PROVE  LET its == <<Asking(NextPrimary(<<>>, level), "PRIMARY", "PLAN")>>
           IN Fits(its, <<>>) /\ Reasons(its, <<>>) /\ Paper(its)
<1> DEFINE q   == NextPrimary(<<>>, level)
           its == <<Asking(q, "PRIMARY", "PLAN")>>
<1>1. Asked(<<>>, "PRIMARY") = {} /\ Cardinality({}) = 0 /\ ~(0 >= QuestionCount)
  BY FS_EmptySet, InterviewAssumption DEF Asked, InterviewAssumption
<1>2. q \in Plan /\ (~Adaptive => \A p \in Plan \ {q} : q < p)
  <2>1. <<>> \in Seq(Item) /\ ~(Cardinality(Asked(<<>>, "PRIMARY")) >= QuestionCount)
        /\ Plan \ Asked(<<>>, "PRIMARY") # {}
    BY <1>1
  <2>2. /\ q \in Plan \ Asked(<<>>, "PRIMARY")
        /\ ~Adaptive => \A p \in (Plan \ Asked(<<>>, "PRIMARY")) \ {q} : q < p
    BY <2>1, NextPrimaryIs
  <2> QED
    BY <1>1, <2>2
<1> HIDE DEF q
<1>3. Asking(q, "PRIMARY", "PLAN") \in Item
  BY <1>2, BankType DEF Asking, Item
<1>4. /\ its \in Seq(Item) /\ Len(its) = 1 /\ DOMAIN its = {1}
      /\ its[1] = Asking(q, "PRIMARY", "PLAN")
  BY <1>3
<1>5. its[1].question = q /\ its[1].kind = "PRIMARY" /\ its[1].state = "PRESENTED"
  BY <1>4 DEF Asking
<1> HIDE DEF its
<1>6. Asked(its, "PRIMARY") = {q} /\ Cardinality({q}) = 1
  <2>1. {j \in DOMAIN its : its[j].kind = "PRIMARY"} = {1}
    BY <1>4, <1>5
  <2>2. Asked(its, "PRIMARY") = {its[i].question : i \in {1}}
    BY <2>1 DEF Asked
  <2>3. {its[i].question : i \in {1}} = {q}
    BY <1>5
  <2>4. Cardinality({q}) = 1
    BY FS_Singleton
  <2> QED
    BY <2>2, <2>3, <2>4
<1>7. Paper(its)
  <2>1. 1 <= QuestionCount
    BY InterviewAssumption DEF InterviewAssumption
  <2>2. q \in Nat
    BY <1>2, BankType
  <2>3. Cardinality(Asked(its, "PRIMARY")) <= QuestionCount
    BY <1>6, <2>1
  <2>4. ~Adaptive => \A p \in Asked(its, "PRIMARY"), r \in Plan \ Asked(its, "PRIMARY") : p < r
    BY <1>2, <1>6
  <2>5. \A i, j \in DOMAIN its : i = j /\ its[i].question \in Plan /\ its[i].kind = "PRIMARY"
    BY <1>2, <1>4, <1>5
  <2>6. \A i, j \in DOMAIN its : ~(i < j)
    BY <1>4
  <2> QED
    BY <2>3, <2>4, <2>5, <2>6 DEF Paper
<1>8. Fits(its, <<>>)
  BY <1>4, <1>5 DEF Fits
<1>9. Reasons(its, <<>>)
  BY <1>4 DEF Reasons
<1> QED
  BY <1>7, <1>8, <1>9 DEF its, q

-----------------------------------------------------------------------------
(* Every step keeps the invariant. *)

\* Evaluations are numbered as the items are.
LEMMA EvaluationNumbers ==
    ASSUME SessionInv
    PROVE  DOMAIN evals = 1..Len(evals) /\ Len(evals) \in Nat /\ DOMAIN evals \subseteq 1..MaxItems
BY BankType DEF SessionInv, TypeOK, Fits

\* Only the requests in flight change.
LEMMA OnlyRequests ==
    ASSUME SessionInv, win' \in [Windows -> Request],
           UNCHANGED <<assigned, sess, items, evals, expired, waited, queue, run, faults>>
    PROVE  SessionInv'
<1>1. TypeOK'
  BY DEF SessionInv, TypeOK
<1>2. RunsHold'
  BY DEF SessionInv, RunsHold
<1> QED
  BY <1>1, <1>2 DEF SessionInv

\* The interview is moved on by someone who changes no evaluation.
LEMMA OnlySession ==
    ASSUME SessionInv, sess' \in Session,
           Fits(items', evals), Reasons(items', evals), Paper(items'), Len(items') <= MaxItems,
           win' \in [Windows -> Request], queue' \in [1..MaxItems -> 0..MaxQueued],
           \A i \in 1..MaxItems : queue'[i] > 0 => i \in DOMAIN evals,
           UNCHANGED <<assigned, evals, expired, waited, run, faults>>
    PROVE  SessionInv'
<1>1. TypeOK'
  BY DEF SessionInv, TypeOK, Fits
<1>2. RunsHold'
  BY DEF SessionInv, RunsHold
<1>3. sess' # None
  BY NoneAssumption DEF NoneAssumption
<1> QED
  BY <1>1, <1>2, <1>3 DEF SessionInv

LEMMA NoRequestType == NoRequest \in Request
BY BankType DEF NoRequest, Request

LEMMA ArriveStep ==
    ASSUME SessionInv, NEW w \in Windows, NEW op \in Ops, NEW i \in 0..MaxItems, Arrive(w, op, i)
    PROVE  SessionInv'
<1>1. Stale \subseteq 1..MaxItems
  BY EvaluationNumbers DEF Stale
<1> DEFINE new == [op |-> op, item |-> i, expired |-> expired, waited |-> waited,
                   stale |-> IF op = "state" THEN Stale ELSE {}]
<1>2. new \in Request
  BY <1>1 DEF SessionInv, TypeOK, Request
<1>3. win' = [win EXCEPT ![w] = new] /\ win \in [Windows -> Request]
  BY DEF Arrive, SessionInv, TypeOK
<1>4. win' \in [Windows -> Request]
  <2> HIDE DEF new
  <2> QED
    BY <1>2, <1>3
<1> QED
  BY <1>4, OnlyRequests DEF Arrive

LEMMA AnsweredType ==
    ASSUME SessionInv, NEW w \in Windows, Answered(w)
    PROVE  win' \in [Windows -> Request]
BY NoRequestType DEF Answered, SessionInv, TypeOK

LEMMA NotFoundStep ==
    ASSUME SessionInv, NEW w \in Windows, NotFound(w)
    PROVE  SessionInv'
BY AnsweredType, OnlyRequests DEF NotFound

LEMMA QueueType ==
    ASSUME SessionInv
    PROVE  queue \in [1..MaxItems -> 0..MaxQueued] /\ \A i \in 1..MaxItems : queue[i] > 0 => i \in DOMAIN evals
BY DEF SessionInv, TypeOK

LEMMA StartStep ==
    ASSUME SessionInv, NEW w \in Windows, Start(w)
    PROVE  SessionInv'
<1>1. win' \in [Windows -> Request] /\ UNCHANGED <<assigned, evals, expired, waited, queue, run, faults>>
  BY AnsweredType DEF Start
<1>2. CASE sess # None
  <2>1. sess' \in Session /\ items' = items
    BY <1>2, SettleType DEF Start, SessionInv, TypeOK
  <2>2. Fits(items, evals) /\ Reasons(items, evals) /\ Paper(items) /\ Len(items) <= MaxItems
    BY DEF SessionInv, TypeOK
  <2> QED
    BY <1>1, <2>1, <2>2, QueueType, OnlySession
<1>3. CASE sess = None /\ Plan = {}
  BY <1>1, <1>3, OnlyRequests DEF Start
<1>4. CASE sess = None /\ Plan # {}
  <2> DEFINE level == IF Adaptive THEN StartLevel ELSE MaxLevel
             new == [status |-> "ACTIVE", reason |-> None, used |-> 0, level |-> level, changes |-> 0]
  <2>1. sess' = new
    BY <1>4 DEF Start
  <2>2. level \in Levels
    BY InterviewAssumption DEF InterviewAssumption
  <2>3. sess'.level = level
    BY <2>1
  <2>4. items' = <<Asking(NextPrimary(<<>>, level), "PRIMARY", "PLAN")>>
    BY <1>4, <2>3 DEF Start
  <2>5. new \in Session
    BY <2>2 DEF Session
  <2>6. evals = <<>>
    BY <1>4 DEF SessionInv, Fits
  <2>7. Fits(items', evals) /\ Reasons(items', evals) /\ Paper(items')
    <3> HIDE DEF level
    <3> QED
      BY <1>4, <2>2, <2>4, <2>6, FirstFits
  <2>8. Len(items') <= MaxItems
    BY <2>7, PaperLength DEF Fits
  <2> HIDE DEF new, level
  <2> QED
    BY <1>1, <2>1, <2>5, <2>7, <2>8, QueueType, OnlySession
<1> QED
  BY <1>2, <1>3, <1>4

LEMMA EnqueueType ==
    ASSUME SessionInv, NEW S
    PROVE  /\ Enqueue(S) \in [1..MaxItems -> 0..MaxQueued]
           /\ \A i \in 1..MaxItems : Enqueue(S)[i] > 0 => i \in S \/ i \in DOMAIN evals
<1>1. MaxQueued \in Nat
  BY InterviewAssumption DEF InterviewAssumption
<1>2. \A i \in 1..MaxItems : queue[i] \in 0..MaxQueued
  BY QueueType
<1>3. \A i \in 1..MaxItems :
        Enqueue(S)[i] = IF i \in S /\ queue[i] < MaxQueued THEN queue[i] + 1 ELSE queue[i]
  BY DEF Enqueue
<1>4. \A i \in 1..MaxItems : Enqueue(S)[i] \in 0..MaxQueued
  BY <1>1, <1>2, <1>3
<1>5. Enqueue(S) \in [1..MaxItems -> 0..MaxQueued]
  BY <1>4 DEF Enqueue
<1> QED
  BY <1>3, <1>5, QueueType

LEMMA StateStep ==
    ASSUME SessionInv, NEW w \in Windows, State(w)
    PROVE  SessionInv'
<1>1. /\ win' \in [Windows -> Request]
      /\ UNCHANGED <<assigned, evals, expired, waited, run, faults>>
  BY AnsweredType DEF State
<1>2. Settle(sess, win[w].expired) \in Session
  BY SettleType DEF State, SessionInv, TypeOK
<1>3. /\ sess' \in Session
      /\ Fits(items', evals) /\ Reasons(items', evals) /\ Paper(items') /\ Len(items') <= MaxItems
  BY <1>2, AdvanceKeeps DEF State, SessionInv
<1>4. /\ queue' \in [1..MaxItems -> 0..MaxQueued]
      /\ \A i \in 1..MaxItems : queue'[i] > 0 => i \in DOMAIN evals
  <2>1. queue' = Enqueue(win[w].stale \cap Stale)
    BY DEF State
  <2>2. win[w].stale \cap Stale \subseteq DOMAIN evals
    BY DEF Stale
  <2> QED
    BY <2>1, <2>2, EnqueueType
<1> QED
  BY <1>1, <1>3, <1>4, OnlySession

LEMMA CompleteStep ==
    ASSUME SessionInv, NEW w \in Windows, Complete(w)
    PROVE  SessionInv'
<1>1. /\ win' \in [Windows -> Request]
      /\ UNCHANGED <<assigned, items, evals, expired, waited, queue, run, faults>>
  BY AnsweredType DEF Complete
<1>2. sess' \in Session
  <2> DEFINE s == Settle(sess, win[w].expired)
  <2>1. s \in Session
    BY SettleType DEF Complete, SessionInv, TypeOK
  <2>2. sess' = IF s.status = "ACTIVE" THEN Ended(s, "ENDED_BY_CANDIDATE") ELSE s
    BY DEF Complete
  <2> HIDE DEF s
  <2> QED
    BY <2>1, <2>2 DEF Ended, Session
<1>3. Fits(items, evals) /\ Reasons(items, evals) /\ Paper(items) /\ Len(items) <= MaxItems
  BY DEF SessionInv, TypeOK
<1> QED
  BY <1>1, <1>2, <1>3, QueueType, OnlySession

\* The presented item is the last and has no evaluation yet.
LEMMA AnswerFits ==
    ASSUME SessionInv, NEW i \in DOMAIN items, items[i].state = "PRESENTED", NEW ev \in Evaluation,
           ev.status # "COMPLETED"
    PROVE  LET its == [items EXCEPT ![i].state = "ANSWERED"]
               evs == Append(evals, ev)
           IN /\ Fits(its, evs) /\ Reasons(its, evs) /\ Paper(its) /\ Len(its) <= MaxItems
              /\ i \in DOMAIN evs /\ DOMAIN evals \subseteq DOMAIN evs
              /\ \A j \in DOMAIN evals : evs[j] = evals[j]
<1> DEFINE its == [items EXCEPT ![i].state = "ANSWERED"]
           evs == Append(evals, ev)
           n   == Len(items)
<1>1. /\ items \in Seq(Item) /\ evals \in Seq(Evaluation) /\ n \in Nat /\ Len(evals) \in Nat
      /\ DOMAIN items = 1..n /\ DOMAIN evals = 1..Len(evals)
      /\ Len(evals) <= n /\ n <= Len(evals) + 1
      /\ \A j \in DOMAIN items : items[j].state = "ANSWERED" <=> j \in DOMAIN evals
  BY DEF SessionInv, Fits
<1>2. i = n /\ n = Len(evals) + 1
  <2>1. i \notin 1..Len(evals) /\ i \in 1..n
    BY <1>1
  <2> HIDE DEF n
  <2> QED
    BY <1>1, <2>1
<1>3. /\ evs \in Seq(Evaluation) /\ Len(evs) = n /\ DOMAIN evs = 1..n /\ evs[n] = ev
      /\ \A j \in DOMAIN evals : evs[j] = evals[j]
  BY <1>1, <1>2
<1>4. [items[i] EXCEPT !.state = "ANSWERED"] \in Item
  <2>1. items[i] \in Item
    BY <1>1
  <2> QED
    BY <2>1 DEF Item
<1>5. /\ its \in Seq(Item) /\ Len(its) = n /\ DOMAIN its = DOMAIN items
      /\ its[i] = [items[i] EXCEPT !.state = "ANSWERED"]
      /\ \A j \in DOMAIN items \ {i} : its[j] = items[j]
  <2>1. its = [items EXCEPT ![i] = [items[i] EXCEPT !.state = "ANSWERED"]]
    OBVIOUS
  <2> HIDE DEF its
  <2> QED
    BY <1>1, <1>4, <2>1
<1>6. /\ its[i].state = "ANSWERED"
      /\ \A j \in DOMAIN items : /\ its[j].question = items[j].question
                                 /\ its[j].kind = items[j].kind /\ its[j].by = items[j].by
  <2>1. items[i] \in Item
    BY <1>1
  <2>2. /\ its[i].state = "ANSWERED" /\ its[i].question = items[i].question
        /\ its[i].kind = items[i].kind /\ its[i].by = items[i].by
    <3> HIDE DEF its
    <3> QED
      BY <1>5, <2>1 DEF Item
  <2> HIDE DEF its
  <2> QED
    BY <1>5, <2>2
<1> HIDE DEF its, evs, n
<1>7. Fits(its, evs)
  <2>1. \A j \in DOMAIN its : its[j].state = "ANSWERED" <=> j \in DOMAIN evs
    BY <1>1, <1>2, <1>3, <1>5, <1>6
  <2>2. \A j \in DOMAIN evs : evs[j].status = "COMPLETED" => evs[j].signal # None
    <3>1. \A j \in DOMAIN evals : evals[j].status = "COMPLETED" => evals[j].signal # None
      BY DEF SessionInv, Fits
    <3> QED
      BY <1>1, <1>2, <1>3, <3>1
  <2> QED
    BY <1>1, <1>3, <1>5, <2>1, <2>2 DEF Fits
<1>8. Reasons(its, evs)
  <2> SUFFICES ASSUME NEW j \in DOMAIN its \ {1}
               PROVE  /\ its[j].by = "ADAPTIVE" =>
                            /\ evs[j - 1].status = "COMPLETED"
                            /\ its[j].kind = "FOLLOW_UP" => Weak(evs[j - 1].signal)
                      /\ its[j].by = "PLAN" => evs[j - 1].status = "UNAVAILABLE"
    BY DEF Reasons
  <2>1. j \in DOMAIN items \ {1} /\ j - 1 \in DOMAIN evals /\ evs[j - 1] = evals[j - 1]
    BY <1>1, <1>2, <1>3, <1>5
  <2>2. Reasons(items, evals)
    BY DEF SessionInv
  <2> QED
    BY <1>6, <2>1, <2>2 DEF Reasons
<1>9. Paper(its)
  <2>1. Paper(items)
    BY DEF SessionInv
  <2>2. Asked(its, "PRIMARY") = Asked(items, "PRIMARY")
    <3>1. {j \in DOMAIN its : its[j].kind = "PRIMARY"} = {j \in DOMAIN items : items[j].kind = "PRIMARY"}
      BY <1>5, <1>6
    <3> QED
      BY <1>6, <3>1 DEF Asked
  <2>3. \A j \in DOMAIN items :
          IF its[j].kind = "PRIMARY" THEN its[j].question \in Plan
          ELSE j > 1 /\ its[j - 1].kind = "PRIMARY" /\ its[j - 1].question = its[j].question
    <3>1. ASSUME NEW j \in DOMAIN items, items[j].kind # "PRIMARY" PROVE j > 1 /\ j - 1 \in DOMAIN items
      BY <1>1, <2>1, <3>1 DEF Paper
    <3> QED
      BY <1>6, <2>1, <3>1 DEF Paper
  <2>4. \A j, k \in DOMAIN items :
          /\ j # k => its[j].question # its[k].question \/ its[j].kind # its[k].kind
          /\ ~Adaptive => (j < k => its[j].question <= its[k].question)
    BY <1>6, <2>1 DEF Paper
  <2>5. /\ Cardinality(Asked(its, "PRIMARY")) <= QuestionCount
        /\ ~Adaptive => \A p \in Asked(its, "PRIMARY"), q \in Plan \ Asked(its, "PRIMARY") : p < q
    BY <2>1, <2>2 DEF Paper
  <2> QED
    BY <1>5, <2>3, <2>4, <2>5 DEF Paper
<1>10. Len(its) <= MaxItems
  BY <1>5 DEF SessionInv, TypeOK, n
<1> QED
  BY <1>1, <1>2, <1>3, <1>7, <1>8, <1>9, <1>10 DEF its, evs, n

\* The candidate, a run or its end changes the rows, and leaves the runs in order.
LEMMA RowsChange ==
    ASSUME SessionInv, sess' \in Session,
           Fits(items', evals'), Reasons(items', evals'), Paper(items'), Len(items') <= MaxItems,
           win' \in [Windows -> Request], queue' \in [1..MaxItems -> 0..MaxQueued],
           \A i \in 1..MaxItems : queue'[i] > 0 => i \in DOMAIN evals',
           run' \in [Runners -> Run], RunsHold',
           UNCHANGED <<assigned, expired, waited, faults>>
    PROVE  SessionInv'
<1>1. TypeOK'
  BY DEF SessionInv, TypeOK, Fits
<1>2. sess' # None
  BY NoneAssumption DEF NoneAssumption
<1> QED
  BY <1>1, <1>2 DEF SessionInv

LEMMA AnswerStep ==
    ASSUME SessionInv, NEW w \in Windows, Answer(w)
    PROVE  SessionInv'
<1> DEFINE s   == Settle(sess, win[w].expired)
           i   == win[w].item
           its == [items EXCEPT ![i].state = "ANSWERED"]
           evs == Append(evals, NewEvaluation)
           moved == IF Configured THEN [session |-> s, items |-> its] ELSE Advance(s, its, evs, 0)
<1>1. win' \in [Windows -> Request] /\ UNCHANGED <<assigned, expired, waited, run, faults>>
  BY AnsweredType DEF Answer
<1>2. s \in Session
  BY SettleType DEF Answer, SessionInv, TypeOK
<1>3. CASE s.status = "ACTIVE" /\ i \in DOMAIN items /\ items[i].state = "PRESENTED"
  <2>1. /\ sess' = moved.session /\ items' = moved.items /\ evals' = evs
        /\ queue' = IF Configured THEN Enqueue({i}) ELSE queue
    BY <1>3 DEF Answer
  <2>2. NewEvaluation \in Evaluation /\ NewEvaluation.status # "COMPLETED"
    BY InterviewAssumption DEF NewEvaluation, Evaluation, InterviewAssumption
  <2>3. /\ Fits(its, evs) /\ Reasons(its, evs) /\ Paper(its) /\ Len(its) <= MaxItems
        /\ i \in DOMAIN evs /\ DOMAIN evals \subseteq DOMAIN evs
        /\ \A j \in DOMAIN evals : evs[j] = evals[j]
    BY <1>3, <2>2, AnswerFits
  <2> HIDE DEF s, i, its, evs
  <2>4. /\ moved.session \in Session
        /\ Fits(moved.items, evs) /\ Reasons(moved.items, evs) /\ Paper(moved.items)
        /\ Len(moved.items) <= MaxItems
    <3>1. CASE Configured
      BY <1>2, <2>3, <3>1
    <3>2. CASE ~Configured
      BY <1>2, <2>3, <3>2, AdvanceKeeps
    <3> QED
      BY <3>1, <3>2
  <2> HIDE DEF moved
  <2>5. /\ queue' \in [1..MaxItems -> 0..MaxQueued]
        /\ \A j \in 1..MaxItems : queue'[j] > 0 => j \in DOMAIN evals'
    BY <2>1, <2>3, EnqueueType, QueueType
  <2>6. run' \in [Runners -> Run] /\ RunsHold'
    <3>1. RunsHold
      BY DEF SessionInv
    <3>2. \A r \in Runners : run'[r] = run[r]
      BY <1>1
    <3> QED
      BY <1>1, <2>1, <2>3, <3>1 DEF RunsHold, SessionInv, TypeOK
  <2> QED
    BY <1>1, <2>1, <2>4, <2>5, <2>6, RowsChange
<1>4. CASE ~(s.status = "ACTIVE" /\ i \in DOMAIN items /\ items[i].state = "PRESENTED")
  <2>1. sess' \in Session /\ UNCHANGED <<items, evals, queue>>
    BY <1>2, <1>4 DEF Answer
  <2>2. Fits(items, evals) /\ Reasons(items, evals) /\ Paper(items) /\ Len(items) <= MaxItems
    BY DEF SessionInv, TypeOK
  <2> QED
    BY <1>1, <2>1, <2>2, QueueType, OnlySession
<1> QED
  BY <1>3, <1>4

LEMMA RunType ==
    ASSUME SessionInv
    PROVE  /\ run \in [Runners -> Run] /\ NoRun \in Run /\ RunsHold
           /\ \A i \in 1..MaxItems :
                 /\ [at |-> "calling", item |-> i, copy |-> None] \in Run
                 /\ sess \in Session => [at |-> "exhausted", item |-> i, copy |-> sess] \in Run
           /\ \A r \in Runners : run[r].item \in 0..MaxItems
BY BankType DEF SessionInv, TypeOK, Run, NoRun

\* Runs that end leave the others in order.
LEMMA RunsEnd ==
    ASSUME SessionInv, NEW r \in Runners, run' = [run EXCEPT ![r] = NoRun],
           DOMAIN evals' = DOMAIN evals,
           \A i \in DOMAIN evals :
              (\A s \in Runners \ {r} : ~(run[s].at = "exhausted" /\ run[s].item = i)) \/ evals'[i] = evals[i]
    PROVE  run' \in [Runners -> Run] /\ RunsHold'
<1>1. /\ run' \in [Runners -> Run] /\ run'[r].at = "idle"
      /\ \A s \in Runners \ {r} : run'[s] = run[s]
  BY RunType DEF NoRun
<1>2. RunsHold
  BY RunType
<1>3. \A s \in Runners : run'[s].at # "idle" => s # r /\ run'[s] = run[s]
  BY <1>1
<1>4. \A s \in Runners : run'[s].at # "idle" => run'[s].item \in DOMAIN evals'
  BY <1>2, <1>3 DEF RunsHold
<1>5. \A s \in Runners : run'[s].at = "exhausted" =>
         run'[s].copy \in Session /\ evals'[run'[s].item].status = "PENDING"
  BY <1>2, <1>3, <1>4 DEF RunsHold
<1>6. \A s, t \in Runners :
        run'[s].at = "exhausted" /\ run'[t].at = "exhausted" /\ run'[s].item = run'[t].item => s = t
  BY <1>2, <1>3 DEF RunsHold
<1> QED
  BY <1>1, <1>4, <1>5, <1>6 DEF RunsHold

LEMMA MergeType ==
    ASSUME NEW row \in Session, NEW read \in Session, NEW img \in Session
    PROVE  Merge(row, read, img) \in Session
<1>1. DOMAIN row = {"status", "reason", "used", "level", "changes"}
  BY DEF Session
<1> QED
  BY <1>1 DEF Merge, Session

\* Where there is an evaluation there is a session.
LEMMA SessionThere ==
    ASSUME SessionInv, evals # <<>>
    PROVE  sess \in Session
BY DEF SessionInv, TypeOK, Fits

LEMMA ClaimStep ==
    ASSUME SessionInv, NEW r \in Runners, NEW i \in 1..MaxItems, Claim(r, i)
    PROVE  SessionInv'
<1>1. /\ i \in DOMAIN evals /\ run[r].at = "idle" /\ RowFree(i)
      /\ UNCHANGED <<assigned, sess, items, expired, waited, win, faults>>
  BY QueueType DEF Claim
<1>2. evals \in Seq(Evaluation) /\ evals[i] \in Evaluation
  BY <1>1 DEF SessionInv, Fits
<1>3. sess' \in Session /\ sess \in Session
  BY <1>1, SessionThere
<1>4. Fits(items, evals) /\ Reasons(items, evals) /\ Paper(items') /\ Len(items') <= MaxItems
  BY <1>1 DEF SessionInv, TypeOK
<1>5. win' \in [Windows -> Request]
  BY <1>1 DEF SessionInv, TypeOK
<1>6. /\ queue' \in [1..MaxItems -> 0..MaxQueued]
      /\ \A j \in 1..MaxItems : queue'[j] > 0 => j \in DOMAIN evals
  <2>1. queue' = [queue EXCEPT ![i] = queue[i] - 1] /\ queue[i] > 0
    BY DEF Claim
  <2>2. queue[i] - 1 \in 0..MaxQueued
    <3>1. queue[i] \in 0..MaxQueued /\ MaxQueued \in Nat
      BY QueueType, InterviewAssumption DEF InterviewAssumption
    <3> QED
      BY <2>1, <3>1
  <2> QED
    BY <2>1, <2>2, QueueType
<1>7. CASE UNCHANGED <<evals, run>>
  <2>1. run' \in [Runners -> Run] /\ RunsHold'
    BY <1>7, RunType DEF RunsHold
  <2> QED
    BY <1>1, <1>3, <1>4, <1>5, <1>6, <1>7, <2>1, RowsChange
<1>8. CASE /\ evals[i].status = "PENDING"
           /\ run' = [run EXCEPT ![r] = [at |-> "exhausted", item |-> i, copy |-> sess]]
           /\ UNCHANGED evals
  <2> DEFINE new == [at |-> "exhausted", item |-> i, copy |-> sess]
  <2>1. new \in Run /\ run \in [Runners -> Run] /\ RunsHold
    BY <1>3, RunType
  <2>2. new.at = "exhausted" /\ new.item = i /\ new.copy = sess
    OBVIOUS
  <2>3. run' = [run EXCEPT ![r] = new]
    BY <1>8
  <2> HIDE DEF new
  <2>4. run' \in [Runners -> Run] /\ run'[r] = new /\ \A s \in Runners \ {r} : run'[s] = run[s]
    BY <2>1, <2>3
  <2>5. RunsHold'
    <3>1. \A s \in Runners : run'[s].at # "idle" => run'[s].item \in DOMAIN evals'
      BY <1>1, <1>8, <2>1, <2>2, <2>4 DEF RunsHold
    <3>2. \A s \in Runners : run'[s].at = "exhausted" =>
             run'[s].copy \in Session /\ evals'[run'[s].item].status = "PENDING"
      BY <1>3, <1>8, <2>1, <2>2, <2>4 DEF RunsHold
    <3>3. \A s \in Runners \ {r} : run'[s].at = "exhausted" => run'[s].item # i
      BY <1>1, <2>4 DEF RowFree
    <3>4. \A s, t \in Runners : run'[s].at = "exhausted" /\ run'[t].at = "exhausted"
                                  /\ run'[s].item = run'[t].item => s = t
      BY <2>1, <2>2, <2>4, <3>3 DEF RunsHold
    <3> QED
      BY <3>1, <3>2, <3>4 DEF RunsHold
  <2> QED
    BY <1>1, <1>3, <1>4, <1>5, <1>6, <1>8, <2>4, <2>5, RowsChange
<1>9. CASE /\ evals[i].status = "PENDING" /\ ~(evals[i].attempts >= MaxRuns)
           /\ run' = [run EXCEPT ![r] = [at |-> "calling", item |-> i, copy |-> None]]
           /\ evals' = [evals EXCEPT ![i].attempts = @ + 1, ![i].lease = "held"]
  <2> DEFINE ev  == [evals[i] EXCEPT !.attempts = @ + 1, !.lease = "held"]
             new == [at |-> "calling", item |-> i, copy |-> None]
  <2>1. ev \in Evaluation /\ ev.status = "PENDING"
    <3>1. evals[i].attempts \in 0..MaxRuns /\ MaxRuns \in Nat
      BY <1>2, EvaluationType, InterviewAssumption DEF InterviewAssumption
    <3>2. evals[i].attempts + 1 \in 0..MaxRuns
      BY <1>9, <3>1
    <3> QED
      BY <1>2, <1>9, <3>2 DEF Evaluation
  <2>2. evals' = [evals EXCEPT ![i] = ev]
    BY <1>1, <1>2, <1>9
  <2> HIDE DEF ev
  <2>3. Fits(items', evals') /\ Reasons(items', evals')
    <3>1. Fits(items, [evals EXCEPT ![i] = ev]) /\ Reasons(items, [evals EXCEPT ![i] = ev])
      BY <1>1, <1>4, <1>9, <2>1, EvaluationChanges
    <3> QED
      BY <1>1, <2>2, <3>1
  <2>4. DOMAIN evals' = DOMAIN evals /\ \A j \in DOMAIN evals \ {i} : evals'[j] = evals[j]
    BY <1>2, <2>2
  <2>5. new \in Run /\ run \in [Runners -> Run] /\ RunsHold
    BY RunType
  <2>6. new.at = "calling" /\ new.item = i
    OBVIOUS
  <2>7. run' = [run EXCEPT ![r] = new]
    BY <1>9
  <2> HIDE DEF new
  <2>8. run' \in [Runners -> Run] /\ run'[r] = new /\ \A s \in Runners \ {r} : run'[s] = run[s]
    BY <2>5, <2>7
  <2>9. RunsHold'
    <3>1. \A s \in Runners : run'[s].at # "idle" => run'[s].item \in DOMAIN evals'
      BY <1>1, <2>4, <2>5, <2>6, <2>8 DEF RunsHold
    <3>2. \A s \in Runners : run'[s].at = "exhausted" =>
             s # r /\ run'[s] = run[s] /\ run'[s].item # i
      BY <1>1, <2>6, <2>8 DEF RowFree
    <3>3. \A s \in Runners : run'[s].at = "exhausted" =>
             run'[s].copy \in Session /\ evals'[run'[s].item].status = "PENDING"
      BY <2>4, <2>5, <3>1, <3>2 DEF RunsHold
    <3>4. \A s, t \in Runners : run'[s].at = "exhausted" /\ run'[t].at = "exhausted"
                                  /\ run'[s].item = run'[t].item => s = t
      BY <2>5, <3>2 DEF RunsHold
    <3> QED
      BY <3>1, <3>3, <3>4 DEF RunsHold
  <2> QED
    BY <1>1, <1>3, <1>4, <1>5, <1>6, <2>3, <2>4, <2>8, <2>9, RowsChange
<1> QED
  BY <1>7, <1>8, <1>9 DEF Claim

LEMMA RecordStep ==
    ASSUME SessionInv, NEW r \in Runners, NEW sig \in Signals \cup {None}, Record(r, sig)
    PROVE  SessionInv'
<1> DEFINE i   == run[r].item
           evs == [evals EXCEPT ![i] = Resolved(@, sig)]
           moved == Advance(Settle(sess, expired), items, evs, waited)
<1>1. /\ run[r].at = "calling" /\ RowFree(i)
      /\ evals' = evs
      /\ IF evs = evals THEN UNCHANGED <<sess, items>> ELSE sess' = moved.session /\ items' = moved.items
      /\ run' = [run EXCEPT ![r] = NoRun]
      /\ UNCHANGED <<assigned, expired, waited, queue, win, faults>>
  BY DEF Record
<1>2. i \in DOMAIN evals
  BY <1>1, RunType DEF RunsHold
<1>3. evals \in Seq(Evaluation) /\ evals[i] \in Evaluation
  BY <1>2 DEF SessionInv, Fits
<1>4. sess \in Session /\ Settle(sess, expired) \in Session
  BY <1>2, SessionThere, SettleType
<1>5. Fits(items, evals) /\ Reasons(items, evals) /\ Paper(items) /\ Len(items) <= MaxItems
  BY DEF SessionInv, TypeOK
<1> HIDE DEF i
<1>6. DOMAIN evs = DOMAIN evals /\ \A j \in DOMAIN evals \ {i} : evs[j] = evals[j]
  OBVIOUS
<1>7. Fits(items, evs) /\ Reasons(items, evs)
  <2>1. CASE evals[i].status # "PENDING"
    <3>1. evs = evals
      BY <1>3, <2>1 DEF Resolved
    <3> QED
      BY <1>5, <3>1
  <2>2. CASE evals[i].status = "PENDING"
    <3> DEFINE ev == Overwritten(evals[i], sig)
    <3>1. ev \in Evaluation /\ (ev.status = "COMPLETED" => ev.signal # None)
      <4>1. sig \in Signal \cup {None}
        BY InterviewAssumption DEF InterviewAssumption
      <4> QED
        BY <1>3, <4>1 DEF Overwritten, Evaluation
    <3>2. evs = [evals EXCEPT ![i] = ev]
      BY <2>2 DEF Resolved
    <3> HIDE DEF ev, evs
    <3>3. Fits(items, [evals EXCEPT ![i] = ev]) /\ Reasons(items, [evals EXCEPT ![i] = ev])
      BY <1>2, <1>5, <2>2, <3>1, EvaluationChanges
    <3> QED
      BY <3>2, <3>3
  <2> QED
    BY <2>1, <2>2
<1> HIDE DEF evs
<1>8. /\ moved.session \in Session
      /\ Fits(moved.items, evs) /\ Reasons(moved.items, evs) /\ Paper(moved.items)
      /\ Len(moved.items) <= MaxItems
  BY <1>4, <1>5, <1>7, AdvanceKeeps
<1> HIDE DEF moved
<1>9. /\ sess' \in Session
      /\ Fits(items', evals') /\ Reasons(items', evals') /\ Paper(items') /\ Len(items') <= MaxItems
  BY <1>1, <1>4, <1>5, <1>7, <1>8
<1>10. run' \in [Runners -> Run] /\ RunsHold'
  <2>1. \A j \in DOMAIN evals :
          (\A s \in Runners \ {r} : ~(run[s].at = "exhausted" /\ run[s].item = j)) \/ evals'[j] = evals[j]
    BY <1>1, <1>6 DEF RowFree
  <2> QED
    BY <1>1, <1>6, <2>1, RunsEnd
<1>11. /\ win' \in [Windows -> Request] /\ queue' \in [1..MaxItems -> 0..MaxQueued]
       /\ \A j \in 1..MaxItems : queue'[j] > 0 => j \in DOMAIN evals'
  BY <1>1, <1>6, QueueType DEF SessionInv, TypeOK
<1> QED
  BY <1>1, <1>9, <1>10, <1>11, RowsChange

LEMMA GiveUpStep ==
    ASSUME SessionInv, NEW r \in Runners, GiveUp(r)
    PROVE  SessionInv'
<1> DEFINE i    == run[r].item
           read == run[r].copy
           evs  == [evals EXCEPT ![i] = Resolved(@, None)]
           moved == Advance(Settle(read, expired), items, evs, waited)
<1>1. /\ run[r].at = "exhausted" /\ evals' = evs
      /\ sess' = Merge(sess, read, moved.session) /\ items' = moved.items
      /\ run' = [run EXCEPT ![r] = NoRun]
      /\ UNCHANGED <<assigned, expired, waited, queue, win, faults>>
  BY DEF GiveUp
<1>2. i \in DOMAIN evals /\ read \in Session /\ evals[i].status = "PENDING"
  BY <1>1, RunType DEF RunsHold
<1>3. evals \in Seq(Evaluation) /\ evals[i] \in Evaluation
  BY <1>2 DEF SessionInv, Fits
<1>4. sess \in Session /\ Settle(read, expired) \in Session
  BY <1>2, SessionThere, SettleType
<1>5. Fits(items, evals) /\ Reasons(items, evals) /\ Paper(items)
  BY DEF SessionInv
<1>6. \A s \in Runners \ {r} : ~(run[s].at = "exhausted" /\ run[s].item = i)
  BY <1>1, RunType DEF RunsHold
<1> HIDE DEF i, read
<1>7. DOMAIN evs = DOMAIN evals /\ \A j \in DOMAIN evals \ {i} : evs[j] = evals[j]
  OBVIOUS
<1>8. Fits(items, evs) /\ Reasons(items, evs)
  <2> DEFINE ev == Overwritten(evals[i], None)
  <2>1. ev \in Evaluation /\ ev.status # "COMPLETED"
    BY <1>3 DEF Overwritten, Evaluation
  <2>2. evs = [evals EXCEPT ![i] = ev]
    BY <1>2 DEF Resolved
  <2> HIDE DEF ev, evs
  <2>3. Fits(items, [evals EXCEPT ![i] = ev]) /\ Reasons(items, [evals EXCEPT ![i] = ev])
    BY <1>2, <1>5, <2>1, EvaluationChanges
  <2> QED
    BY <2>2, <2>3
<1> HIDE DEF evs
<1>9. /\ moved.session \in Session
      /\ Fits(moved.items, evs) /\ Reasons(moved.items, evs) /\ Paper(moved.items)
      /\ Len(moved.items) <= MaxItems
  BY <1>4, <1>5, <1>8, AdvanceKeeps
<1> HIDE DEF moved
<1>10. /\ sess' \in Session
       /\ Fits(items', evals') /\ Reasons(items', evals') /\ Paper(items') /\ Len(items') <= MaxItems
  BY <1>1, <1>2, <1>4, <1>9, MergeType
<1>11. run' \in [Runners -> Run] /\ RunsHold'
  <2>1. \A j \in DOMAIN evals :
          (\A s \in Runners \ {r} : ~(run[s].at = "exhausted" /\ run[s].item = j)) \/ evals'[j] = evals[j]
    BY <1>1, <1>6, <1>7
  <2> QED
    BY <1>1, <1>7, <2>1, RunsEnd
<1>12. /\ win' \in [Windows -> Request] /\ queue' \in [1..MaxItems -> 0..MaxQueued]
       /\ \A j \in 1..MaxItems : queue'[j] > 0 => j \in DOMAIN evals'
  BY <1>1, <1>7, QueueType DEF SessionInv, TypeOK
<1> QED
  BY <1>1, <1>10, <1>11, <1>12, RowsChange

LEMMA RunFailsStep ==
    ASSUME SessionInv, NEW r \in Runners, RunFails(r)
    PROVE  SessionInv'
<1>1. /\ run' = [run EXCEPT ![r] = NoRun] /\ faults' = faults + 1 /\ faults < MaxFaults
      /\ UNCHANGED <<assigned, sess, items, evals, expired, waited, queue, win>>
  BY DEF RunFails
<1>2. run' \in [Runners -> Run] /\ RunsHold'
  BY <1>1, RunsEnd
<1>3. faults' \in 0..MaxFaults
  BY <1>1, InterviewAssumption DEF SessionInv, TypeOK, InterviewAssumption
<1>4. TypeOK'
  BY <1>1, <1>2, <1>3 DEF SessionInv, TypeOK
<1> QED
  BY <1>1, <1>2, <1>4 DEF SessionInv

\* Nothing of the interview runs any more.
LEMMA NoRuns ==
    ASSUME SessionInv, run' = [r \in Runners |-> NoRun]
    PROVE  run' \in [Runners -> Run] /\ RunsHold'
<1>1. \A r \in Runners : run'[r] = NoRun
  OBVIOUS
<1>2. run' \in [Runners -> Run]
  BY RunType
<1>3. \A r \in Runners : run'[r].at = "idle"
  BY <1>1 DEF NoRun
<1> QED
  BY <1>2, <1>3 DEF RunsHold

LEMMA CrashStep ==
    ASSUME SessionInv, Crash
    PROVE  SessionInv'
<1>1. /\ run' = [r \in Runners |-> NoRun] /\ win' = [w \in Windows |-> NoRequest]
      /\ queue' = [i \in 1..MaxItems |-> 0] /\ faults' = faults + 1 /\ faults < MaxFaults
      /\ UNCHANGED <<assigned, sess, items, evals, expired, waited>>
  BY DEF Crash
<1>2. run' \in [Runners -> Run] /\ RunsHold'
  BY <1>1, NoRuns
<1>3. faults' \in 0..MaxFaults
  BY <1>1, InterviewAssumption DEF SessionInv, TypeOK, InterviewAssumption
<1>4. queue' \in [1..MaxItems -> 0..MaxQueued] /\ \A i \in 1..MaxItems : ~(queue'[i] > 0)
  BY <1>1, InterviewAssumption DEF InterviewAssumption
<1>5. win' \in [Windows -> Request]
  BY <1>1, NoRequestType
<1>6. TypeOK'
  BY <1>1, <1>2, <1>3, <1>4, <1>5 DEF SessionInv, TypeOK
<1> QED
  BY <1>1, <1>2, <1>4, <1>6 DEF SessionInv

LEMMA TimeStep ==
    ASSUME SessionInv, Deadline \/ WaitOver
    PROVE  SessionInv'
<1>1. UNCHANGED <<assigned, sess, items, evals, queue, win, run, faults>>
  BY DEF Deadline, WaitOver
<1>2. expired' \in BOOLEAN /\ waited' \in 0..MaxItems
  <2>1. /\ expired \in BOOLEAN /\ waited \in 0..MaxItems /\ Len(items) <= MaxItems
        /\ items \in Seq(Item) /\ MaxItems \in Nat
    BY BankType DEF SessionInv, TypeOK
  <2>2. (expired' = TRUE /\ waited' = waited) \/ (expired' = expired /\ waited' = Len(items))
    BY DEF Deadline, WaitOver
  <2>3. Len(items) \in 0..MaxItems
    BY <2>1
  <2> QED
    BY <2>1, <2>2, <2>3
<1>3. TypeOK'
  BY <1>1, <1>2 DEF SessionInv, TypeOK
<1>4. RunsHold'
  BY <1>1 DEF SessionInv, RunsHold
<1> QED
  BY <1>1, <1>3, <1>4 DEF SessionInv

LEMMA LeaseOverStep ==
    ASSUME SessionInv, NEW i \in 1..MaxItems, LeaseOver(i)
    PROVE  SessionInv'
<1> DEFINE ev == [evals[i] EXCEPT !.lease = IF @ = "none" THEN "overdue" ELSE "over"]
<1>1. /\ i \in DOMAIN evals /\ evals[i].status = "PENDING"
      /\ UNCHANGED <<assigned, sess, items, expired, waited, queue, win, run, faults>>
  BY DEF LeaseOver
<1>2. evals \in Seq(Evaluation) /\ evals[i] \in Evaluation
  BY <1>1 DEF SessionInv, Fits
<1>3. ev \in Evaluation /\ ev.status = "PENDING"
  BY <1>1, <1>2 DEF Evaluation
<1>4. evals' = [evals EXCEPT ![i] = ev]
  BY DEF LeaseOver
<1> HIDE DEF ev
<1>5. Fits(items', evals') /\ Reasons(items', evals')
  <2>1. Fits(items, evals) /\ Reasons(items, evals)
    BY DEF SessionInv
  <2>2. Fits(items, [evals EXCEPT ![i] = ev]) /\ Reasons(items, [evals EXCEPT ![i] = ev])
    BY <1>1, <1>3, <2>1, EvaluationChanges
  <2> QED
    BY <1>1, <1>4, <2>2
<1>6. /\ DOMAIN evals' = DOMAIN evals /\ evals'[i].status = "PENDING"
      /\ \A j \in DOMAIN evals \ {i} : evals'[j] = evals[j]
  BY <1>1, <1>2, <1>3, <1>4
<1>7. run' \in [Runners -> Run] /\ RunsHold'
  <2>1. run' = run /\ RunsHold /\ run \in [Runners -> Run]
    BY <1>1, RunType
  <2>2. \A r \in Runners : run[r].at = "exhausted" => evals'[run[r].item].status = "PENDING"
    BY <1>6, <2>1 DEF RunsHold
  <2> QED
    BY <1>6, <2>1, <2>2 DEF RunsHold
<1>8. sess' \in Session
  BY <1>1, SessionThere
<1>9. /\ Paper(items') /\ Len(items') <= MaxItems
      /\ win' \in [Windows -> Request] /\ queue' \in [1..MaxItems -> 0..MaxQueued]
      /\ \A j \in 1..MaxItems : queue'[j] > 0 => j \in DOMAIN evals'
  BY <1>1, <1>6, QueueType DEF SessionInv, TypeOK
<1> QED
  BY <1>1, <1>5, <1>7, <1>8, <1>9, RowsChange

\* No rows at all.
LEMMA NothingFits == Fits(<<>>, <<>>) /\ Reasons(<<>>, <<>>) /\ Paper(<<>>)
<1>1. Asked(<<>>, "PRIMARY") = {} /\ Cardinality({}) = 0 /\ QuestionCount \in Nat
  BY FS_EmptySet, InterviewAssumption DEF Asked, InterviewAssumption
<1>2. Paper(<<>>)
  <2>1. \A i \in DOMAIN <<>> : FALSE
    OBVIOUS
  <2>2. \A p \in Asked(<<>>, "PRIMARY") : FALSE
    BY <1>1
  <2>3. Cardinality(Asked(<<>>, "PRIMARY")) <= QuestionCount
    <3>1. Cardinality(Asked(<<>>, "PRIMARY")) = 0
      BY <1>1, Zenon
    <3> QED
      BY <1>1, <3>1
  <2> QED
    BY <2>1, <2>2, <2>3 DEF Paper
<1> QED
  BY <1>2 DEF Fits, Reasons

LEMMA UnassignStep ==
    ASSUME SessionInv, Unassign
    PROVE  SessionInv'
<1>1. /\ assigned' = FALSE /\ sess' = None /\ items' = <<>> /\ evals' = <<>> /\ waited' = 0
      /\ queue' = [i \in 1..MaxItems |-> 0] /\ run' = [r \in Runners |-> NoRun]
      /\ UNCHANGED <<expired, win, faults>>
  BY DEF Unassign
<1>2. run' \in [Runners -> Run] /\ RunsHold'
  BY <1>1, NoRuns
<1>3. queue' \in [1..MaxItems -> 0..MaxQueued] /\ \A i \in 1..MaxItems : ~(queue'[i] > 0)
  BY <1>1, InterviewAssumption DEF InterviewAssumption
<1>4. Len(items') = 0 /\ items' \in Seq(Item) /\ evals' \in Seq(Evaluation)
  BY <1>1
<1>5. TypeOK'
  <2>1. assigned' \in BOOLEAN /\ sess' \in Session \cup {None}
    BY <1>1
  <2>3. waited' \in 0..MaxItems /\ Len(items') <= MaxItems
    BY <1>1, <1>4, BankType
  <2>2. expired' \in BOOLEAN /\ win' \in [Windows -> Request] /\ faults' \in 0..MaxFaults
    BY <1>1 DEF SessionInv, TypeOK
  <2> QED
    BY <1>2, <1>3, <1>4, <2>1, <2>2, <2>3 DEF TypeOK
<1>6. Fits(items', evals') /\ Reasons(items', evals') /\ Paper(items')
  BY <1>1, NothingFits
<1> QED
  BY <1>1, <1>2, <1>3, <1>5, <1>6 DEF SessionInv

LEMMA InitSessionInv == Init => SessionInv
<1> SUFFICES ASSUME Init PROVE SessionInv
  OBVIOUS
<1>1. TypeOK
  <2>1. /\ MaxItems \in Nat /\ MaxQueued \in Nat /\ MaxFaults \in Nat
        /\ NoRequest \in Request /\ NoRun \in Run
    BY BankType, NoRequestType, InterviewAssumption DEF InterviewAssumption, Run, NoRun
  <2>2. assigned \in BOOLEAN /\ sess \in Session \cup {None} /\ expired \in BOOLEAN
    BY DEF Init
  <2>5. waited \in 0..MaxItems /\ faults \in 0..MaxFaults
    BY <2>1 DEF Init
  <2>3. items \in Seq(Item) /\ Len(items) <= MaxItems /\ evals \in Seq(Evaluation)
    BY <2>1 DEF Init
  <2>4. queue \in [1..MaxItems -> 0..MaxQueued] /\ win \in [Windows -> Request] /\ run \in [Runners -> Run]
    BY <2>1 DEF Init
  <2> QED
    BY <2>2, <2>3, <2>4, <2>5 DEF TypeOK
<1>2. RunsHold
  BY DEF Init, RunsHold, NoRun
<1> QED
  BY <1>1, <1>2, NothingFits DEF Init, SessionInv

LEMMA SameSession == SessionInv /\ UNCHANGED vars => SessionInv'
BY DEF vars, SessionInv, TypeOK, RunsHold

LEMMA StepSessionInv == SessionInv /\ Next => SessionInv'
<1> SUFFICES ASSUME SessionInv, Next PROVE SessionInv'
  OBVIOUS
<1>1. ASSUME NEW w \in Windows, Handle(w) PROVE SessionInv'
  BY <1>1, NotFoundStep, StartStep, StateStep, AnswerStep, CompleteStep DEF Handle
<1> QED
  BY <1>1, ArriveStep, ClaimStep, RecordStep, GiveUpStep, RunFailsStep, LeaseOverStep, CrashStep,
     TimeStep, UnassignStep DEF Next

\* The invariant of an interview in every reachable state: whatever requests, evaluation runs
\* and faults there are, its rows fit each other.
THEOREM SessionInvariant == Spec => []SessionInv
<1>1. SessionInv /\ [Next]_vars => SessionInv'
  BY StepSessionInv, SameSession
<1> QED
  BY InitSessionInv, <1>1, PTL DEF Spec

\* The types of the interview's rows, requests and runs.
THEOREM SessionTypes == Spec => []TypeOK
<1>1. SessionInv => TypeOK
  BY DEF SessionInv
<1> QED
  BY <1>1, SessionInvariant, PTL

\* Every question says truly why it was asked, though evaluations arrive late, fail or are
\* given up while the candidate's requests move the interview on (advance, _record, _claim).
THEOREM ReasonsAreTrue == Spec => []AskedOnEvidence
<1>1. SessionInv => AskedOnEvidence
  BY DEF SessionInv, Reasons, AskedOnEvidence
<1> QED
  BY <1>1, SessionInvariant, PTL

\* The paper is the one planned at the start, whoever moves the interview on: each question
\* once and one at a time, follow-ups right after their question, no more primaries than
\* question_count, without adaption in the authored order (next_primary, available_follow_up).
THEOREM PaperIsKept == Spec => []PaperKept
<1>1. SessionInv => PaperKept
  <2> SUFFICES ASSUME SessionInv PROVE PaperKept
    OBVIOUS
  <2>1. Fits(items, evals) /\ Paper(items)
    BY DEF SessionInv
  <2>2. ASSUME NEW i \in DOMAIN items, items[i].state = "PRESENTED" PROVE i = Len(items)
    <3>1. i \notin DOMAIN evals /\ items \in Seq(Item) /\ evals \in Seq(Evaluation)
      BY <2>1, <2>2 DEF Fits
    <3> QED
      BY <2>1, <3>1 DEF Fits
  <2>3. Len(evals) = Cardinality({i \in DOMAIN items : items[i].state = "ANSWERED"})
    <3>1. {i \in DOMAIN items : items[i].state = "ANSWERED"} = 1..Len(evals) /\ Len(evals) \in Nat
      BY <2>1 DEF Fits
    <3>2. Cardinality(1..Len(evals)) = IF 1 > Len(evals) THEN 0 ELSE Len(evals) - 1 + 1
      BY <3>1, FS_Interval
    <3>3. Cardinality(1..Len(evals)) = Len(evals)
      BY <3>1, <3>2
    <3> QED
      BY <3>1, <3>3
  <2> QED
    BY <2>1, <2>2, <2>3 DEF Paper, PaperKept
<1> QED
  BY <1>1, SessionInvariant, PTL

-----------------------------------------------------------------------------
(* Evaluations settle once. *)

\* What a step does to the evaluations of a session that stays.
EvaluationsKept ==
    /\ DOMAIN evals \subseteq DOMAIN evals'
    /\ \A i \in DOMAIN evals : /\ evals[i].status # "PENDING" => evals'[i] = evals[i]
                               /\ evals[i].attempts <= evals'[i].attempts

LEMMA AttemptsType ==
    ASSUME SessionInv, NEW i \in DOMAIN evals
    PROVE  evals[i] \in Evaluation /\ evals[i].attempts \in Nat /\ evals \in Seq(Evaluation)
<1>1. evals \in Seq(Evaluation)
  BY DEF SessionInv, Fits
<1>2. evals[i] \in Evaluation
  BY <1>1
<1>3. evals[i].attempts \in 0..MaxRuns /\ MaxRuns \in Nat
  BY <1>2, EvaluationType, InterviewAssumption DEF InterviewAssumption
<1> QED
  BY <1>1, <1>2, <1>3

LEMMA SameEvaluations ==
    ASSUME SessionInv, evals' = evals
    PROVE  EvaluationsKept
BY AttemptsType DEF EvaluationsKept

\* One evaluation changes, which was PENDING.
LEMMA OneEvaluation ==
    ASSUME SessionInv, NEW i \in DOMAIN evals, NEW ev, evals' = [evals EXCEPT ![i] = ev],
           evals[i].status = "PENDING" \/ ev = evals[i], evals[i].attempts <= ev.attempts
    PROVE  EvaluationsKept
<1>1. /\ DOMAIN evals' = DOMAIN evals /\ evals'[i] = ev
      /\ \A j \in DOMAIN evals \ {i} : evals'[j] = evals[j]
  OBVIOUS
<1>2. \A j \in DOMAIN evals : evals[j].attempts \in Nat
  BY AttemptsType
<1> QED
  BY <1>1, <1>2 DEF EvaluationsKept

LEMMA ResolvedIs ==
    ASSUME NEW ev \in Evaluation, NEW sig
    PROVE  /\ Resolved(ev, sig).attempts = ev.attempts
           /\ ev.status = "PENDING" \/ Resolved(ev, sig) = ev
BY DEF Resolved, Overwritten, Evaluation

LEMMA EvaluationStep ==
    ASSUME SessionInv, [Next]_vars
    PROVE  (sess' = None /\ evals' = <<>>) \/ EvaluationsKept
<1>1. ASSUME NEW w \in Windows, Handle(w) PROVE EvaluationsKept
  <2>1. CASE NotFound(w) \/ Start(w) \/ State(w) \/ Complete(w)
    BY <2>1, SameEvaluations DEF NotFound, Start, State, Complete
  <2>2. CASE Answer(w)
    <3>1. evals' = evals \/ evals' = Append(evals, NewEvaluation)
      BY <2>2 DEF Answer
    <3>2. evals \in Seq(Evaluation)
      BY DEF SessionInv, Fits
    <3>3. DOMAIN evals \subseteq DOMAIN evals' /\ \A i \in DOMAIN evals : evals'[i] = evals[i]
      BY <3>1, <3>2
    <3> QED
      BY <3>3, AttemptsType DEF EvaluationsKept
  <2> QED
    BY <1>1, <2>1, <2>2 DEF Handle
<1>2. ASSUME NEW r \in Runners, NEW i \in 1..MaxItems, Claim(r, i) PROVE EvaluationsKept
  <2>1. CASE evals' = evals
    BY <2>1, SameEvaluations
  <2>2. CASE evals' # evals
    <3>1. /\ evals[i].status = "PENDING"
          /\ evals' = [evals EXCEPT ![i].attempts = @ + 1, ![i].lease = "held"]
      BY <1>2, <2>2 DEF Claim
    <3>2. i \in DOMAIN evals
      BY <1>2, QueueType DEF Claim
    <3> DEFINE ev == [evals[i] EXCEPT !.attempts = @ + 1, !.lease = "held"]
    <3>3. evals' = [evals EXCEPT ![i] = ev]
      BY <3>1, <3>2, AttemptsType
    <3>4. ev.attempts = evals[i].attempts + 1
      BY <3>2, AttemptsType DEF Evaluation
    <3> HIDE DEF ev
    <3>5. evals[i].attempts <= ev.attempts
      BY <3>2, <3>4, AttemptsType
    <3> QED
      BY <3>1, <3>2, <3>3, <3>5, OneEvaluation
  <2> QED
    BY <2>1, <2>2
<1>3. ASSUME NEW r \in Runners, NEW sig, run[r].at # "idle",
             evals' = [evals EXCEPT ![run[r].item] = Resolved(@, sig)]
      PROVE  EvaluationsKept
  <2> DEFINE i  == run[r].item
             ev == Resolved(evals[i], sig)
  <2>1. i \in DOMAIN evals
    BY <1>3, RunType DEF RunsHold
  <2>2. evals' = [evals EXCEPT ![i] = ev]
    BY <1>3
  <2>3. ev.attempts = evals[i].attempts /\ (evals[i].status = "PENDING" \/ ev = evals[i])
    BY <2>1, AttemptsType, ResolvedIs
  <2> HIDE DEF i, ev
  <2>4. evals[i].attempts <= ev.attempts
    BY <2>1, <2>3, AttemptsType
  <2> QED
    BY <2>1, <2>2, <2>3, <2>4, OneEvaluation
<1>4. ASSUME NEW r \in Runners, NEW sig \in Signals \cup {None}, Record(r, sig)
      PROVE  EvaluationsKept
  <2>1. run[r].at # "idle" /\ evals' = [evals EXCEPT ![run[r].item] = Resolved(@, sig)]
    BY <1>4 DEF Record
  <2> QED
    BY <1>3, <2>1
<1>5. ASSUME NEW r \in Runners, GiveUp(r)
      PROVE  EvaluationsKept
  <2>1. run[r].at # "idle" /\ evals' = [evals EXCEPT ![run[r].item] = Resolved(@, None)]
    BY <1>5 DEF GiveUp
  <2> QED
    BY <1>3, <2>1
<1>6. ASSUME NEW i \in 1..MaxItems, LeaseOver(i) PROVE EvaluationsKept
  <2> DEFINE ev == [evals[i] EXCEPT !.lease = IF @ = "none" THEN "overdue" ELSE "over"]
  <2>1. i \in DOMAIN evals /\ evals[i].status = "PENDING" /\ evals' = [evals EXCEPT ![i] = ev]
    BY <1>6 DEF LeaseOver
  <2>2. ev.attempts = evals[i].attempts
    BY <2>1, AttemptsType DEF Evaluation
  <2> HIDE DEF ev
  <2>3. evals[i].attempts <= ev.attempts
    BY <2>1, <2>2, AttemptsType
  <2> QED
    BY <2>1, <2>3, OneEvaluation
<1>7. CASE Unassign
  BY <1>7 DEF Unassign
<1>8. CASE \/ \E w \in Windows, op \in Ops, i \in 0..MaxItems : Arrive(w, op, i)
           \/ \E r \in Runners : RunFails(r)
           \/ Crash \/ Deadline \/ WaitOver \/ UNCHANGED vars
  BY <1>8, SameEvaluations DEF Arrive, RunFails, Crash, Deadline, WaitOver, vars
<1> QED
  BY <1>1, <1>2, <1>4, <1>5, <1>6, <1>7, <1>8 DEF Next

\* An evaluation settles once, whoever claims, answers or gives it up, and its runs are only
\* counted up (_claim, _finish).
THEOREM SettledForGood == Spec => EvaluationSettlesOnce
<1>1. SessionInv /\ [Next]_vars =>
        [\A i \in DOMAIN evals \cap DOMAIN evals' :
            /\ evals[i].status # "PENDING" => evals'[i] = evals[i]
            /\ evals[i].attempts <= evals'[i].attempts]_vars
  BY EvaluationStep DEF EvaluationsKept
<1> QED
  BY <1>1, SessionInvariant, PTL DEF Spec, EvaluationSettlesOnce

-----------------------------------------------------------------------------
(* The review.  An interview that has ended with every evaluation finished *)
(* does not change any more, and a decision needs one.                     *)

AllSettled == \A i \in DOMAIN evals : evals[i].status # "PENDING"

\* No report of any interview says more than these.
Reports == {Summary(its, evs) : its \in Seq(Item), evs \in Seq(Evaluation)}

ReviewFits ==
    /\ review \in Review \cup {None}
    /\ decisions \in Seq([outcome : Outcomes, basis : Reports, version : Nat, seen : Reports])
    /\ marks \in [1..MaxItems -> Marks \cup {None}]
    /\ page \in [Admins -> [version : Nat, basis : Reports] \cup {None}]
    /\ sess = None => review = None /\ marks = NoMarks
    /\ review = None => decisions = <<>>
    /\ review # None =>
          /\ review.version = Len(decisions) + 1
          /\ review.status = "IN_REVIEW" <=> decisions = <<>>
          /\ decisions # <<>> => review.outcome = decisions[Len(decisions)].outcome
    /\ decisions # <<>> => sess.status = "COMPLETED" /\ AllSettled

ReviewInv == SessionInv /\ ReviewFits /\ BasisStands /\ DecisionsSeen

LEMMA AdvanceEnded ==
    ASSUME NEW s, s.status # "ACTIVE", NEW its, NEW evs, NEW wait
    PROVE  Advance(s, its, evs, wait).session = s /\ Advance(s, its, evs, wait).items = its
BY DEF Advance, Waits

LEMMA SettleEnded ==
    ASSUME NEW s, s.status = "COMPLETED", NEW late
    PROVE  Settle(s, late) = s
BY DEF Settle

\* What has ended and settled stays as it is until it is unassigned.
LEMMA Frozen ==
    ASSUME SessionInv, [Next]_vars, sess # None, sess.status = "COMPLETED", AllSettled
    PROVE  sess' = None \/ UNCHANGED <<sess, items, evals>>
<1>1. ASSUME NEW w \in Windows, Handle(w) PROVE UNCHANGED <<sess, items, evals>>
  <2>1. Settle(sess, win[w].expired) = sess /\ sess.status # "ACTIVE"
    BY SettleEnded
  <2>2. CASE NotFound(w)
    BY <2>2 DEF NotFound
  <2>3. CASE Start(w)
    BY <2>1, <2>3 DEF Start
  <2>4. CASE State(w)
    BY <2>1, <2>4, AdvanceEnded DEF State
  <2>5. CASE Answer(w)
    BY <2>1, <2>5 DEF Answer
  <2>6. CASE Complete(w)
    BY <2>1, <2>6 DEF Complete
  <2> QED
    BY <1>1, <2>2, <2>3, <2>4, <2>5, <2>6 DEF Handle
<1>2. ASSUME NEW r \in Runners, NEW i \in 1..MaxItems, Claim(r, i)
      PROVE  UNCHANGED <<sess, items, evals>>
  <2>1. i \in DOMAIN evals
    BY <1>2, QueueType DEF Claim
  <2> QED
    BY <1>2, <2>1 DEF Claim, AllSettled
<1>3. ASSUME NEW r \in Runners, NEW sig \in Signals \cup {None}, Record(r, sig)
      PROVE  UNCHANGED <<sess, items, evals>>
  <2> DEFINE i == run[r].item
             evs == [evals EXCEPT ![i] = Resolved(@, sig)]
  <2>1. i \in DOMAIN evals
    BY <1>3, RunType DEF RunsHold, Record
  <2>2. Resolved(evals[i], sig) = evals[i]
    BY <2>1 DEF Resolved, AllSettled
  <2>3. evs = evals
    BY <2>1, <2>2, AttemptsType
  <2>4. evals' = evs /\ (evs = evals => UNCHANGED <<sess, items>>)
    BY <1>3 DEF Record
  <2> QED
    BY <2>3, <2>4
<1>4. ASSUME NEW r \in Runners, GiveUp(r) PROVE FALSE
  BY <1>4, RunType DEF RunsHold, GiveUp, AllSettled
<1>5. ASSUME NEW i \in 1..MaxItems, LeaseOver(i) PROVE FALSE
  BY <1>5 DEF LeaseOver, AllSettled
<1>6. CASE Unassign
  BY <1>6 DEF Unassign
<1>7. CASE \/ \E w \in Windows, op \in Ops, i \in 0..MaxItems : Arrive(w, op, i)
           \/ \E r \in Runners : RunFails(r)
           \/ Crash \/ Deadline \/ WaitOver \/ UNCHANGED vars
  BY <1>7 DEF Arrive, RunFails, Crash, Deadline, WaitOver, vars
<1> QED
  BY <1>1, <1>2, <1>3, <1>4, <1>5, <1>6, <1>7 DEF Next

LEMMA ReportIn == SessionInv => Report \in Reports
BY DEF SessionInv, Fits, Report, Reports

\* The interview moves on beside the review.
LEMMA InterviewReviewed ==
    ASSUME ReviewInv, InterviewStep
    PROVE  ReviewInv'
<1>1. SessionInv' /\ SessionInv
  BY StepSessionInv DEF InterviewStep, ReviewInv
<1>2. CASE sess # None /\ sess' = None
  <2>1. review' = None /\ decisions' = <<>> /\ marks' = NoMarks /\ page' = page
    BY <1>2 DEF InterviewStep
  <2>2. NoMarks \in [1..MaxItems -> Marks \cup {None}] /\ \A i \in 1..MaxItems : NoMarks[i] = None
    BY DEF NoMarks
  <2>3. ReviewFits'
    BY <2>1, <2>2 DEF ReviewInv, ReviewFits
  <2>4. BasisStands'
    BY <2>1, <2>2 DEF BasisStands
  <2>5. DecisionsSeen'
    BY <2>1 DEF DecisionsSeen
  <2> QED
    BY <1>1, <2>3, <2>4, <2>5 DEF ReviewInv
<1>3. CASE ~(sess # None /\ sess' = None)
  <2>1. UNCHANGED <<review, decisions, marks, page>>
    BY <1>3 DEF InterviewStep
  <2>2. decisions # <<>> => sess # None /\ UNCHANGED <<sess, items, evals>>
    <3>1. decisions # <<>> => sess # None /\ sess.status = "COMPLETED" /\ AllSettled
      BY DEF ReviewInv, ReviewFits
    <3> QED
      BY <1>1, <1>3, <3>1, Frozen DEF InterviewStep
  <2>3. decisions # <<>> => Report' = Report /\ AllSettled' = AllSettled
    BY <2>2 DEF Report, AllSettled
  <2>4. ReviewFits'
    <3>1. sess' = None => sess = None
      BY <1>3
    <3> QED
      BY <2>1, <2>2, <2>3, <3>1 DEF ReviewInv, ReviewFits
  <2>5. BasisStands'
    <3>1. \A n \in DOMAIN decisions' : decisions'[n].basis = Report' /\ sess'.status = "COMPLETED"
      <4>1. \A n \in DOMAIN decisions : decisions # <<>>
        BY DEF ReviewInv, ReviewFits
      <4> QED
        BY <2>1, <2>2, <2>3, <4>1 DEF ReviewInv, BasisStands
    <3>2. ASSUME NEW i \in 1..MaxItems, marks[i] # None
          PROVE  i \in DOMAIN evals' /\ evals'[i].status = "COMPLETED"
      <4>1. i \in DOMAIN evals /\ evals[i].status = "COMPLETED"
        BY <3>2 DEF ReviewInv, BasisStands
      <4>2. sess # None
        BY <1>1, <4>1 DEF SessionInv, Fits
      <4>3. EvaluationsKept
        BY <1>1, <1>3, <4>2, EvaluationStep DEF InterviewStep
      <4> QED
        BY <4>1, <4>3 DEF EvaluationsKept
    <3> QED
      BY <2>1, <3>1, <3>2 DEF BasisStands
  <2>6. DecisionsSeen'
    BY <2>1 DEF ReviewInv, DecisionsSeen
  <2> QED
    BY <1>1, <2>4, <2>5, <2>6 DEF ReviewInv
<1> QED
  BY <1>2, <1>3

\* A decision is added: its author saw the one before, and the interview has ended.
LEMMA DecisionKeeps ==
    ASSUME ReviewInv, NEW a \in Admins, NEW o \in Outcomes, Decide(a, o), SessionInv',
           review # None, page[a] # None, page[a].version = review.version,
           decisions = <<>> \/ o # review.outcome,
           sess' # None, sess'.status = "COMPLETED", AllSettled,
           UNCHANGED <<items, evals, marks, page>>
    PROVE  ReviewInv'
<1> DEFINE new == [outcome |-> o, basis |-> Report, version |-> page[a].version, seen |-> page[a].basis]
           D   == [outcome : Outcomes, basis : Reports, version : Nat, seen : Reports]
           n   == Len(decisions)
<1>1. /\ decisions' = Append(decisions, new)
      /\ review' = [status |-> "REVIEWED", outcome |-> o, version |-> review.version + 1]
  BY DEF Decide
<1>2. decisions \in Seq(D) /\ n \in Nat /\ DOMAIN decisions = 1..n
  BY DEF ReviewInv, ReviewFits
<1>3. /\ review \in Review /\ review.version = n + 1
      /\ decisions # <<>> => review.outcome = decisions[n].outcome
  BY DEF ReviewInv, ReviewFits
<1>4. page[a] \in [version : Nat, basis : Reports]
  BY DEF ReviewInv, ReviewFits
<1>5. new \in D
  BY <1>4, ReportIn DEF ReviewInv
<1>6. new.outcome = o /\ new.basis = Report /\ new.version = n + 1
  BY <1>3
<1> HIDE DEF new
<1>7. /\ decisions' \in Seq(D) /\ Len(decisions') = n + 1 /\ DOMAIN decisions' = 1..(n + 1)
      /\ decisions'[n + 1] = new /\ \A m \in DOMAIN decisions : decisions'[m] = decisions[m]
      /\ decisions' # <<>>
  <2> HIDE DEF D
  <2> QED
    BY <1>1, <1>2, <1>5
<1>8. review' \in Review /\ review'.status = "REVIEWED" /\ review'.outcome = o /\ review'.version = n + 2
  <2>1. review.version + 1 = n + 2 /\ n + 2 \in Nat \ {0}
    BY <1>2, <1>3
  <2> QED
    BY <1>1, <2>1 DEF Review
<1>9. Report' = Report /\ AllSettled'
  BY DEF Report, AllSettled
<1>10. ReviewFits'
  <2>1. /\ review' \in Review \cup {None} /\ review' # None
        /\ decisions' \in Seq([outcome : Outcomes, basis : Reports, version : Nat, seen : Reports])
        /\ marks' \in [1..MaxItems -> Marks \cup {None}]
        /\ page' \in [Admins -> [version : Nat, basis : Reports] \cup {None}]
    <3>1. review' # None
      BY <1>8, ReviewAssumption DEF ReviewAssumption
    <3> QED
      BY <1>7, <1>8, <3>1 DEF ReviewInv, ReviewFits
  <2>2. /\ review'.version = Len(decisions') + 1
        /\ review'.status = "IN_REVIEW" <=> decisions' = <<>>
        /\ review'.outcome = decisions'[Len(decisions')].outcome
    BY <1>2, <1>6, <1>7, <1>8
  <2> QED
    BY <1>7, <1>9, <2>1, <2>2 DEF ReviewFits
<1>11. BasisStands'
  <2>1. \A m \in DOMAIN decisions' : decisions'[m].basis = Report'
    <3>1. \A m \in DOMAIN decisions : decisions[m].basis = Report
      BY DEF ReviewInv, BasisStands
    <3>2. \A m \in DOMAIN decisions' : m = n + 1 \/ m \in DOMAIN decisions
      BY <1>2, <1>7
    <3> QED
      BY <1>6, <1>7, <1>9, <3>1, <3>2
  <2>2. \A i \in 1..MaxItems : marks'[i] # None => i \in DOMAIN evals' /\ evals'[i].status = "COMPLETED"
    BY DEF ReviewInv, BasisStands
  <2> QED
    BY <2>1, <2>2 DEF BasisStands
<1>12. DecisionsSeen'
  <2>1. \A m \in DOMAIN decisions' : decisions'[m].version = m
    BY <1>2, <1>6, <1>7 DEF ReviewInv, DecisionsSeen
  <2>2. review'.outcome = decisions'[Len(decisions')].outcome
    BY <1>6, <1>7, <1>8
  <2>3. \A m \in DOMAIN decisions' \ {1} : decisions'[m].outcome # decisions'[m - 1].outcome
    <3> SUFFICES ASSUME NEW m \in DOMAIN decisions' \ {1}
                 PROVE  decisions'[m].outcome # decisions'[m - 1].outcome
      OBVIOUS
    <3>1. m - 1 \in DOMAIN decisions /\ decisions # <<>>
      BY <1>2, <1>7
    <3>2. CASE m = n + 1
      <4>1. decisions'[m - 1] = decisions[n] /\ o # decisions[n].outcome
        BY <1>2, <1>3, <1>7, <3>1, <3>2
      <4> QED
        BY <1>6, <1>7, <3>2, <4>1
    <3>3. CASE m \in DOMAIN decisions
      BY <1>7, <3>1, <3>3 DEF ReviewInv, DecisionsSeen
    <3> QED
      BY <1>2, <1>7, <3>2, <3>3
  <2> QED
    BY <2>1, <2>2, <2>3 DEF DecisionsSeen
<1> QED
  BY <1>10, <1>11, <1>12 DEF ReviewInv

LEMMA LookStep ==
    ASSUME ReviewInv, NEW a \in Admins, Look(a)
    PROVE  ReviewInv'
<1>1. UNCHANGED <<vars, review, decisions, marks>> /\ SessionInv'
  BY SameSession DEF Look, ReviewInv
<1> DEFINE new == [version |-> IF review = None THEN 0 ELSE review.version, basis |-> Report]
<1>2. new \in [version : Nat, basis : Reports]
  BY ReportIn DEF ReviewInv, ReviewFits, Review
<1>3. page' = [page EXCEPT ![a] = new]
  BY DEF Look
<1>4. page' \in [Admins -> [version : Nat, basis : Reports] \cup {None}]
  <2> HIDE DEF new
  <2> QED
    BY <1>2, <1>3 DEF ReviewInv, ReviewFits
<1>5. ReviewFits'
  BY <1>1, <1>4 DEF ReviewInv, ReviewFits, AllSettled, vars
<1>6. BasisStands'
  BY <1>1 DEF ReviewInv, BasisStands, Report, vars
<1>7. DecisionsSeen'
  BY <1>1 DEF ReviewInv, DecisionsSeen
<1> QED
  BY <1>1, <1>5, <1>6, <1>7 DEF ReviewInv

LEMMA StartReviewStep ==
    ASSUME ReviewInv, NEW a \in Admins, StartReview(a)
    PROVE  ReviewInv'
<1>1. UNCHANGED <<vars, decisions, marks, page>> /\ SessionInv' /\ sess # None
  BY SameSession DEF StartReview, ReviewInv
<1>2. decisions = <<>>
  BY DEF StartReview, ReviewInv, ReviewFits
<1>3. review' = [status |-> "IN_REVIEW", outcome |-> None, version |-> 1]
  BY DEF StartReview
<1>4. review' \in Review /\ review'.status = "IN_REVIEW" /\ review'.version = 1
  BY <1>3 DEF Review
<1>5. ReviewFits'
  <2>1. /\ decisions' \in Seq([outcome : Outcomes, basis : Reports, version : Nat, seen : Reports])
        /\ marks' \in [1..MaxItems -> Marks \cup {None}]
        /\ page' \in [Admins -> [version : Nat, basis : Reports] \cup {None}]
        /\ sess' # None /\ decisions' = <<>> /\ Len(decisions') = 0
    BY <1>1, <1>2 DEF ReviewInv, ReviewFits, vars
  <2> QED
    BY <1>4, <2>1 DEF ReviewFits
<1>6. BasisStands'
  BY <1>1 DEF ReviewInv, BasisStands, Report, vars
<1>7. DecisionsSeen'
  BY <1>1, <1>2 DEF DecisionsSeen
<1> QED
  BY <1>1, <1>5, <1>6, <1>7 DEF ReviewInv

LEMMA MarkStep ==
    ASSUME ReviewInv, NEW a \in Admins, NEW i \in 1..MaxItems, NEW m \in Marks, Mark(a, i, m)
    PROVE  ReviewInv'
<1>1. /\ UNCHANGED <<vars, review, decisions, page>> /\ SessionInv' /\ review # None
      /\ i \in DOMAIN evals /\ evals[i].status = "COMPLETED"
      /\ marks' = [marks EXCEPT ![i] = m]
  BY SameSession DEF Mark, ReviewInv
<1>2. marks' \in [1..MaxItems -> Marks \cup {None}]
  BY <1>1 DEF ReviewInv, ReviewFits
<1>3. ReviewFits'
  BY <1>1, <1>2 DEF ReviewInv, ReviewFits, AllSettled, vars
<1>4. BasisStands'
  <2>1. marks \in [1..MaxItems -> Marks \cup {None}]
    BY DEF ReviewInv, ReviewFits
  <2>2. \A j \in 1..MaxItems : marks'[j] # None => j \in DOMAIN evals /\ evals[j].status = "COMPLETED"
    BY <1>1, <2>1 DEF ReviewInv, BasisStands
  <2>3. \A n \in DOMAIN decisions : decisions[n].basis = Report /\ sess.status = "COMPLETED"
    BY DEF ReviewInv, BasisStands
  <2> QED
    BY <1>1, <2>2, <2>3 DEF BasisStands, Report, vars
<1>5. DecisionsSeen'
  BY <1>1 DEF ReviewInv, DecisionsSeen
<1> QED
  BY <1>1, <1>3, <1>4, <1>5 DEF ReviewInv

\* complete settles the session, whether or not it then decides.
LEMMA CompleteReviewStep ==
    ASSUME ReviewInv, NEW a \in Admins, NEW o \in Outcomes, CompleteReview(a, o)
    PROVE  ReviewInv'
<1>1. /\ sess # None /\ page[a] # None /\ sess' = Settle(sess, expired)
      /\ UNCHANGED <<assigned, items, evals, expired, waited, queue, win, run, faults, marks, page>>
  BY DEF CompleteReview
<1>2. sess \in Session /\ sess' \in Session /\ sess' # None
  BY <1>1, SettleType, NoneAssumption DEF ReviewInv, SessionInv, TypeOK, NoneAssumption
<1>3. SessionInv'
  <2>1. SessionInv
    BY DEF ReviewInv
  <2>2. /\ Fits(items', evals) /\ Reasons(items', evals) /\ Paper(items') /\ Len(items') <= MaxItems
        /\ win' \in [Windows -> Request]
    BY <1>1, <2>1 DEF SessionInv, TypeOK
  <2> QED
    BY <1>1, <1>2, <2>1, <2>2, QueueType, OnlySession
<1>4. CASE Expected(a, "IN_REVIEW") /\ Decidable(sess')
  <2>1. Decide(a, o)
    BY <1>1, <1>4 DEF CompleteReview
  <2>2. decisions = <<>>
    BY <1>4 DEF Expected, ReviewInv, ReviewFits
  <2> QED
    BY <1>1, <1>2, <1>3, <1>4, <2>1, <2>2, DecisionKeeps DEF Expected, Decidable, AllSettled
<1>5. CASE ~(Expected(a, "IN_REVIEW") /\ Decidable(sess'))
  <2>1. UNCHANGED <<review, decisions>>
    BY <1>1, <1>5 DEF CompleteReview
  <2>2. decisions # <<>> => sess' = sess
    BY <1>1, SettleEnded DEF ReviewInv, ReviewFits
  <2>3. Report' = Report /\ AllSettled' = AllSettled
    BY <1>1 DEF Report, AllSettled
  <2>4. ReviewFits'
    BY <1>1, <1>2, <2>1, <2>2, <2>3 DEF ReviewInv, ReviewFits
  <2>5. BasisStands'
    <3>1. \A n \in DOMAIN decisions : decisions # <<>>
      BY DEF ReviewInv, ReviewFits
    <3> QED
      BY <1>1, <2>1, <2>2, <2>3, <3>1 DEF ReviewInv, BasisStands
  <2>6. DecisionsSeen'
    BY <2>1 DEF ReviewInv, DecisionsSeen
  <2> QED
    BY <1>3, <2>4, <2>5, <2>6 DEF ReviewInv
<1> QED
  BY <1>4, <1>5

LEMMA ReviseStep ==
    ASSUME ReviewInv, NEW a \in Admins, NEW o \in Outcomes, Revise(a, o)
    PROVE  ReviewInv'
<1>1. /\ sess # None /\ Expected(a, "REVIEWED") /\ o # review.outcome /\ Decide(a, o)
      /\ UNCHANGED <<vars, marks, page>>
  BY DEF Revise
<1>2. SessionInv' /\ UNCHANGED <<sess, items, evals>>
  BY <1>1, SameSession DEF ReviewInv, vars
<1>3. sess.status = "COMPLETED" /\ AllSettled
  BY <1>1 DEF Expected, ReviewInv, ReviewFits
<1> QED
  BY <1>1, <1>2, <1>3, DecisionKeeps DEF Expected

LEMMA InitReviewInv == ReviewInit => ReviewInv
<1> SUFFICES ASSUME ReviewInit PROVE ReviewInv
  OBVIOUS
<1>1. SessionInv
  BY InitSessionInv DEF ReviewInit
<1>2. NoMarks \in [1..MaxItems -> Marks \cup {None}] /\ \A i \in 1..MaxItems : NoMarks[i] = None
  BY DEF NoMarks
<1>3. ReviewFits
  BY <1>2 DEF ReviewInit, ReviewFits
<1>4. BasisStands /\ DecisionsSeen
  BY <1>2 DEF ReviewInit, BasisStands, DecisionsSeen
<1> QED
  BY <1>1, <1>3, <1>4 DEF ReviewInv

LEMMA StepReviewInv == ReviewInv /\ [InterviewStep \/ ReviewNext]_allVars => ReviewInv'
<1>1. ASSUME ReviewInv, UNCHANGED allVars PROVE ReviewInv'
  <2>1. SessionInv' /\ UNCHANGED <<vars, review, decisions, marks, page>>
    BY <1>1, SameSession DEF ReviewInv, allVars, reviewVars
  <2>2. ReviewFits'
    BY <1>1, <2>1 DEF ReviewInv, ReviewFits, AllSettled, vars
  <2>3. BasisStands' /\ DecisionsSeen'
    BY <1>1, <2>1 DEF ReviewInv, BasisStands, DecisionsSeen, Report, vars
  <2> QED
    BY <2>1, <2>2, <2>3 DEF ReviewInv
<1> QED
  BY <1>1, InterviewReviewed, LookStep, StartReviewStep, MarkStep, CompleteReviewStep, ReviseStep
     DEF ReviewNext

\* The review and the interview fit each other in every reachable state.
THEOREM ReviewInvariant == ReviewSpec => []ReviewInv
  BY InitReviewInv, StepReviewInv, PTL DEF ReviewSpec

\* What a decision says of the interview stays true: no answer and no evaluation arrives after
\* it, and a mark stands beside a score (complete, mark).
THEOREM BasisIsKept == ReviewSpec => []BasisStands
<1>1. ReviewInv => BasisStands
  BY DEF ReviewInv
<1> QED
  BY <1>1, ReviewInvariant, PTL

\* Nobody decides over a decision they have not seen (_expect, revise).
THEOREM DecisionsAreSeen == ReviewSpec => []DecisionsSeen
<1>1. ReviewInv => DecisionsSeen
  BY DEF ReviewInv
<1> QED
  BY <1>1, ReviewInvariant, PTL

-----------------------------------------------------------------------------
(* The paper: its inductive invariant. *)

Columns == {<<>>} \cup [topics : SUBSET Topics] \cup [count : Counts]

\* What is flushed says what kind of request flushed it.
Writes(w) ==
    /\ w = [kind |-> w.kind, columns |-> w.columns, rows |-> w.rows, new |-> w.new, gone |-> w.gone,
            who |-> w.who, session |-> w.session, behind |-> w.behind]
    /\ w.kind \in {"idle", "edit", "publish", "unpublish", "delete", "assign", "unassign", "start"}
    /\ w.kind = "idle" => w = Idle
    /\ w.kind = "edit" => w.columns \in Columns
    /\ w.kind # "edit" => w.rows = <<>> /\ w.new = <<>> /\ w.gone = {}
    /\ w.kind = "publish" => w.columns = [status |-> "PUBLISHED"]
    /\ w.kind = "unpublish" => w.columns = [status |-> "DRAFT"]
    /\ w.kind \in {"delete", "assign", "unassign", "start"} => w.columns = <<>>

TypesHold ==
    /\ interview \in [status : {"DRAFT", "PUBLISHED", "DELETED"}, topics : SUBSET Topics, count : Counts]
    /\ bank = [q \in DOMAIN bank |-> bank[q]]
    /\ overlapped \in BOOLEAN
    /\ tx = [r \in Requests |-> tx[r]]
    /\ \A r \in Requests : Writes(tx[r])

\* Of two requests on one candidate, and of a deletion and another request, one waits.
Clash(o, w) == "delete" \in {o.kind, w.kind} \/ o.who \cap w.who # {}

OneWaits ==
    \A r, s \in Requests :
        r # s /\ tx[r].kind # "idle" /\ tx[s].kind # "idle" /\ Clash(tx[r], tx[s])
            => r \in tx[s].behind \/ s \in tx[r].behind

Current == [plan |-> BuildPlan(interview, bank), paper |-> bank]

\* What a request found when it decided still holds while it is under way.
StillSo(w) ==
    /\ w.kind = "edit" => ~IsPublished
    /\ w.kind = "unpublish" => assignees = {}
    /\ w.kind = "start" => /\ IsPublished
                           /\ w.who # {} /\ w.who \subseteq assignees
                           /\ w.session = Current

NoOverlap == \A r, s \in Requests : ~Overlap(tx[r], tx[s])

Sat ==
    /\ DOMAIN sessions \subseteq assignees
    /\ \A c \in DOMAIN sessions : IsPublished /\ sessions[c] = Current

PaperInv ==
    /\ TypesHold
    /\ OneWaits
    /\ ~overlapped => NoOverlap /\ Sat /\ \A r \in Requests : StillSo(tx[r])

-----------------------------------------------------------------------------
(* What a request writes, and what it leaves of the rows.                  *)

LEMMA OverlapIs ==
    ASSUME NEW o, NEW w
    PROVE  Overlap(o, w) <=> \/ o.kind = "publish" /\ w.kind = "edit"
                             \/ o.kind = "edit" /\ w.kind = "publish"
                             \/ o.kind = "unpublish" /\ w.kind = "assign"
                             \/ o.kind = "assign" /\ w.kind = "unpublish"
<1>1. ASSUME NEW a, NEW b, NEW c, NEW d
      PROVE  {a, b} = {c, d} <=> (a = c /\ b = d) \/ (a = d /\ b = c)
  <2>1. a \in {a, b} /\ b \in {a, b} /\ c \in {c, d} /\ d \in {c, d}
    OBVIOUS
  <2>2. QED BY <2>1
<1>2. QED BY <1>1 DEF Overlap

LEMMA IdleWrites == Writes(Idle) /\ Idle.kind = "idle" /\ Idle.who = {}
BY DEF Writes, Idle

LEMMA OverNothing ==
    ASSUME NEW i \in [status : {"DRAFT", "PUBLISHED", "DELETED"}, topics : SUBSET Topics, count : Counts]
    PROVE  Over(i, <<>>) = i
<1>1. DOMAIN <<>> = {}
  OBVIOUS
<1>2. QED BY <1>1 DEF Over

LEMMA OverColumns ==
    ASSUME NEW i \in [status : {"DRAFT", "PUBLISHED", "DELETED"}, topics : SUBSET Topics, count : Counts],
           NEW columns \in Columns
    PROVE  /\ Over(i, columns) \in [status : {"DRAFT", "PUBLISHED", "DELETED"},
                                    topics : SUBSET Topics, count : Counts]
           /\ Over(i, columns).status = i.status
<1>1. CASE columns = <<>>
  BY <1>1, OverNothing
<1>2. CASE columns \in [topics : SUBSET Topics]
  <2>1. Over(i, columns) = [status |-> i.status, topics |-> columns.topics, count |-> i.count]
    BY <1>2 DEF Over
  <2>2. QED BY <1>2, <2>1
<1>3. CASE columns \in [count : Counts]
  <2>1. Over(i, columns) = [status |-> i.status, topics |-> i.topics, count |-> columns.count]
    BY <1>3 DEF Over
  <2>2. QED BY <1>3, <2>1
<1>4. QED BY <1>1, <1>2, <1>3 DEF Columns

LEMMA OverStatus ==
    ASSUME NEW i \in [status : {"DRAFT", "PUBLISHED", "DELETED"}, topics : SUBSET Topics, count : Counts],
           NEW s
    PROVE  Over(i, [status |-> s]) = [status |-> s, topics |-> i.topics, count |-> i.count]
BY DEF Over

LEMMA WrittenNothing ==
    ASSUME bank = [q \in DOMAIN bank |-> bank[q]], NEW w, w.rows = <<>>, w.new = <<>>, w.gone = {}
    PROVE  Written(w) = bank
<1>1. DOMAIN <<>> = {}
  OBVIOUS
<1>2. Kept(w.gone) = DOMAIN bank
  BY DEF Kept
<1>3. Written(w) = [q \in DOMAIN bank |-> bank[q]]
  BY <1>1, <1>2 DEF Written, Beside
<1>4. QED BY <1>3

-----------------------------------------------------------------------------
(* What the end of a request does to the others.                           *)

Carried(r) ==
    /\ tx' = [s \in Requests |-> tx'[s]]
    /\ tx'[r] = Idle
    /\ \A s \in Requests :
          /\ Writes(tx'[s])
          /\ \/ tx'[s] = Idle
             \/ /\ tx'[s].kind = tx[s].kind
                /\ tx'[s].who = tx[s].who
                /\ tx'[s].session = tx[s].session
                /\ tx'[s].behind = tx[s].behind \ {r}

LEMMA RollBackCarries ==
    ASSUME TypesHold, NEW r \in Requests, RollBack(r)
    PROVE  Carried(r)
<1>1. ASSUME NEW s \in Requests, s # r
      PROVE  /\ Writes(tx'[s])
             /\ tx'[s].kind = tx[s].kind
             /\ tx'[s].who = tx[s].who
             /\ tx'[s].session = tx[s].session
             /\ tx'[s].behind = tx[s].behind \ {r}
  <2>1. tx'[s] = [tx[s] EXCEPT !.behind = @ \ {r}]
    BY <1>1 DEF RollBack
  <2>2. Writes(tx[s])
    BY DEF TypesHold
  <2>3. tx'[s] = [kind |-> tx[s].kind, columns |-> tx[s].columns, rows |-> tx[s].rows, new |-> tx[s].new,
                  gone |-> tx[s].gone, who |-> tx[s].who, session |-> tx[s].session,
                  behind |-> tx[s].behind \ {r}]
    BY <2>1, <2>2 DEF Writes
  <2>4. ASSUME tx[s].kind = "idle" PROVE tx'[s] = Idle
    <3>1. tx[s] = Idle
      BY <2>2, <2>4 DEF Writes
    <3>2. Idle.behind \ {r} = Idle.behind
      BY DEF Idle
    <3>3. tx'[s] = [kind |-> Idle.kind, columns |-> Idle.columns, rows |-> Idle.rows, new |-> Idle.new,
                    gone |-> Idle.gone, who |-> Idle.who, session |-> Idle.session,
                    behind |-> Idle.behind]
      BY <2>3, <3>1, <3>2
    <3>4. QED BY <3>3 DEF Idle
  <2>5. QED BY <2>2, <2>3, <2>4 DEF Writes
<1>2. tx'[r] = Idle
  BY DEF RollBack
<1>3. tx' = [s \in Requests |-> tx'[s]]
  BY DEF RollBack
<1>4. QED BY <1>1, <1>2, <1>3, IdleWrites DEF Carried

LEMMA EndsCarries ==
    ASSUME TypesHold, NEW r \in Requests, Ends(r)
    PROVE  /\ Carried(r)
           /\ \A s \in Requests :
                 s # r /\ r \in tx[s].behind
                     => tx'[s] = Idle \/ StillFits(tx[s], interview', bank', assignees', sessions')
<1>1. ASSUME NEW s \in Requests, s # r
      PROVE  \/ tx'[s] = Idle
             \/ /\ Writes(tx'[s])
                /\ tx'[s].kind = tx[s].kind
                /\ tx'[s].who = tx[s].who
                /\ tx'[s].session = tx[s].session
                /\ tx'[s].behind = tx[s].behind \ {r}
  <2>1. Writes(tx[s])
    BY DEF TypesHold
  <2>2. CASE r \notin tx[s].behind
    <3>1. tx'[s] = tx[s]
      BY <1>1, <2>2 DEF Ends
    <3>2. tx[s].behind \ {r} = tx[s].behind
      BY <2>2
    <3>3. QED BY <2>1, <3>1, <3>2
  <2>3. CASE r \in tx[s].behind /\ StillFits(tx[s], interview', bank', assignees', sessions')
    <3> DEFINE taken == {q \in DOMAIN bank' : bank'[q].parent \in tx[s].gone}
    <3>1. tx'[s] = Resumed(tx[s], r)
      BY <1>1, <2>3 DEF Ends
    <3>2. tx'[s] = [tx[s] EXCEPT !.behind = @ \ {r}, !.gone = @ \cup taken]
      BY <2>3, <3>1 DEF Resumed
    <3> HIDE DEF taken
    <3>3. tx'[s] = [kind |-> tx[s].kind, columns |-> tx[s].columns, rows |-> tx[s].rows,
                    new |-> tx[s].new, gone |-> tx[s].gone \cup taken, who |-> tx[s].who,
                    session |-> tx[s].session, behind |-> tx[s].behind \ {r}]
      BY <2>1, <3>2 DEF Writes
    <3>4. tx[s].kind # "edit" => taken = {}
      BY <2>1 DEF Writes, taken
    <3>5. tx[s].kind # "idle"
      BY <2>1, <2>3 DEF Writes, Idle
    <3>6. QED BY <2>1, <3>3, <3>4, <3>5 DEF Writes
  <2>4. CASE r \in tx[s].behind /\ ~StillFits(tx[s], interview', bank', assignees', sessions')
    <3>1. tx'[s] = Resumed(tx[s], r)
      BY <1>1, <2>4 DEF Ends
    <3>2. QED BY <2>4, <3>1 DEF Resumed
  <2>5. QED BY <2>2, <2>3, <2>4
<1>2. tx'[r] = Idle
  BY DEF Ends
<1>3. tx' = [s \in Requests |-> tx'[s]]
  BY DEF Ends
<1>4. ASSUME NEW s \in Requests, s # r, r \in tx[s].behind,
             ~StillFits(tx[s], interview', bank', assignees', sessions')
      PROVE  tx'[s] = Idle
  <2>1. tx'[s] = Resumed(tx[s], r)
    BY <1>4 DEF Ends
  <2>2. QED BY <1>4, <2>1 DEF Resumed
<1>5. Carried(r)
  BY <1>1, <1>2, <1>3, IdleWrites DEF Carried
<1>6. QED BY <1>4, <1>5

LEMMA CarriedWaits ==
    ASSUME OneWaits, NEW r \in Requests, Carried(r)
    PROVE  OneWaits'
<1> SUFFICES ASSUME NEW p \in Requests, NEW s \in Requests, p # s,
                    tx'[p].kind # "idle", tx'[s].kind # "idle", Clash(tx'[p], tx'[s])
             PROVE  p \in tx'[s].behind \/ s \in tx'[p].behind
  BY DEF OneWaits
<1>1. p # r /\ s # r /\ tx'[p] # Idle /\ tx'[s] # Idle
  BY IdleWrites DEF Carried
<1>2. /\ tx'[p].kind = tx[p].kind /\ tx'[p].who = tx[p].who /\ tx'[p].behind = tx[p].behind \ {r}
      /\ tx'[s].kind = tx[s].kind /\ tx'[s].who = tx[s].who /\ tx'[s].behind = tx[s].behind \ {r}
  BY <1>1 DEF Carried
<1>3. Clash(tx[p], tx[s])
  BY <1>2 DEF Clash
<1>4. p \in tx[s].behind \/ s \in tx[p].behind
  BY <1>2, <1>3 DEF OneWaits
<1>5. QED BY <1>1, <1>2, <1>4

LEMMA CarriedNoOverlap ==
    ASSUME NoOverlap, NEW r \in Requests, Carried(r)
    PROVE  NoOverlap'
<1> SUFFICES ASSUME NEW p \in Requests, NEW s \in Requests PROVE ~Overlap(tx'[p], tx'[s])
  BY DEF NoOverlap
<1>1. ~Overlap(tx[p], tx[s])
  BY DEF NoOverlap
<1>2. /\ tx'[p].kind \in {"idle", tx[p].kind}
      /\ tx'[s].kind \in {"idle", tx[s].kind}
  BY IdleWrites DEF Carried
<1>3. QED BY <1>1, <1>2, OverlapIs

-----------------------------------------------------------------------------
(* A request that decides.                                                 *)

LEMMA DecidesKeeps ==
    ASSUME PaperInv, NEW r \in Requests, NEW w, Writes(w), w.kind # "idle", Decides(r, w),
           ~overlapped => StillSo(w)
    PROVE  PaperInv'
<1> DEFINE open == {s \in Requests : tx[s] # Idle}
           waits == {s \in open : Conflict(tx[s], w)}
<1>1. PICK v : /\ tx' = [tx EXCEPT ![r] = v]
               /\ v = [w EXCEPT !.behind = waits]
  BY DEF Decides
<1>2. v = [kind |-> w.kind, columns |-> w.columns, rows |-> w.rows, new |-> w.new, gone |-> w.gone,
           who |-> w.who, session |-> w.session, behind |-> waits]
  <2> HIDE DEF waits
  <2> QED BY <1>1 DEF Writes
<1>3. v.kind = w.kind /\ v.who = w.who /\ v.session = w.session /\ v.behind = waits
  BY <1>2
<1>4. Writes(v)
  <2> HIDE DEF waits
  <2> QED BY <1>2 DEF Writes
<1>5. tx'[r] = v /\ \A s \in Requests \ {r} : tx'[s] = tx[s]
  BY <1>1 DEF PaperInv, TypesHold
<1>6. UNCHANGED <<interview, bank, assignees, sessions>>
  BY DEF Decides
<1>7. /\ overlapped' = (overlapped \/ \E s \in open : Overlap(tx[s], w))
      /\ tx[r] = Idle
  BY DEF Decides
<1>8. TypesHold'
  <2>1. overlapped' \in BOOLEAN
    BY <1>7 DEF PaperInv, TypesHold
  <2>2. tx' = [s \in Requests |-> tx'[s]]
    BY <1>1 DEF PaperInv, TypesHold
  <2>3. \A s \in Requests : Writes(tx'[s])
    BY <1>4, <1>5 DEF PaperInv, TypesHold
  <2>4. QED BY <1>6, <2>1, <2>2, <2>3 DEF PaperInv, TypesHold
<1>9. \A s \in Requests : tx[s].kind # "idle" => s \in open
  BY IdleWrites
<1>10. OneWaits'
  <2>1. ASSUME NEW s \in Requests, s # r, tx[s].kind # "idle", Clash(w, tx[s]) \/ Clash(tx[s], w)
        PROVE  s \in tx'[r].behind
    <3>1. Conflict(tx[s], w)
      BY <2>1 DEF Clash, Conflict
    <3>2. QED BY <1>3, <1>5, <1>9, <2>1, <3>1
  <2>2. ASSUME NEW s \in Requests, s # r, tx'[s].kind # "idle", Clash(tx'[r], tx'[s]) \/ Clash(tx'[s], tx'[r])
        PROVE  s \in tx'[r].behind
    BY <1>3, <1>5, <2>1, <2>2 DEF Clash
  <2>3. ASSUME NEW p \in Requests, NEW s \in Requests, p # s, p # r, s # r,
               tx'[p].kind # "idle", tx'[s].kind # "idle", Clash(tx'[p], tx'[s])
        PROVE  p \in tx'[s].behind \/ s \in tx'[p].behind
    BY <1>5, <2>3 DEF PaperInv, OneWaits
  <2>4. QED BY <2>2, <2>3 DEF OneWaits
<1>11. ASSUME ~overlapped'
       PROVE  NoOverlap' /\ Sat' /\ \A s \in Requests : StillSo(tx[s])'
  <2>1. ~overlapped /\ \A s \in open : ~Overlap(tx[s], w)
    BY <1>7, <1>11
  <2>2. \A s \in Requests : ~Overlap(tx[s], w)
    BY <2>1, OverlapIs, IdleWrites
  <2>3. NoOverlap'
    <3>1. \A s \in Requests \ {r} : ~Overlap(tx'[s], tx'[r]) /\ ~Overlap(tx'[r], tx'[s])
      BY <1>3, <1>5, <2>2, OverlapIs
    <3>2. ~Overlap(tx'[r], tx'[r])
      BY OverlapIs
    <3>3. \A p, s \in Requests \ {r} : ~Overlap(tx'[p], tx'[s])
      BY <1>5, <2>1 DEF PaperInv, NoOverlap
    <3>4. QED BY <3>1, <3>2, <3>3 DEF NoOverlap
  <2>4. Sat'
    BY <1>6, <2>1 DEF PaperInv, Sat, IsPublished, Current
  <2>5. StillSo(v)'
    BY <1>3, <1>6, <2>1 DEF StillSo, IsPublished, Current
  <2>6. \A s \in Requests \ {r} : StillSo(tx[s])'
    BY <1>5, <1>6, <2>1 DEF PaperInv, StillSo, IsPublished, Current
  <2>7. QED BY <1>5, <2>3, <2>4, <2>5, <2>6
<1>12. QED BY <1>8, <1>10, <1>11 DEF PaperInv

-----------------------------------------------------------------------------
(* A request that commits.                                                 *)

LEMMA CommitWrites ==
    ASSUME TypesHold, NEW r \in Requests, Commit(r)
    PROVE  /\ interview' \in [status : {"DRAFT", "PUBLISHED", "DELETED"}, topics : SUBSET Topics,
                              count : Counts]
           /\ bank' = [q \in DOMAIN bank' |-> bank'[q]]
           /\ tx[r].kind = "edit" =>
                 /\ interview'.status = interview.status
                 /\ assignees' = assignees /\ sessions' = sessions
           /\ tx[r].kind = "publish" =>
                 /\ interview' = [interview EXCEPT !.status = "PUBLISHED"]
                 /\ bank' = bank /\ assignees' = assignees /\ sessions' = sessions
           /\ tx[r].kind = "unpublish" =>
                 /\ interview'.status = "DRAFT" /\ assignees' = assignees /\ sessions' = sessions
           /\ tx[r].kind = "delete" =>
                 interview'.status = "DELETED" /\ assignees' = {} /\ DOMAIN sessions' = {}
           /\ tx[r].kind \in {"assign", "unassign", "start"} =>
                 interview' = interview /\ bank' = bank
           /\ tx[r].kind = "assign" => assignees' = assignees \cup tx[r].who /\ sessions' = sessions
           /\ tx[r].kind = "unassign" =>
                 /\ assignees' = assignees \ tx[r].who
                 /\ sessions' = [c \in DOMAIN sessions \ tx[r].who |-> sessions[c]]
           /\ tx[r].kind = "start" =>
                 /\ assignees' = assignees
                 /\ DOMAIN sessions' = tx[r].who \cup DOMAIN sessions
                 /\ \A c \in DOMAIN sessions' :
                       sessions'[c] = IF c \in tx[r].who THEN tx[r].session ELSE sessions[c]
<1>1. PICK w : w = tx[r]
  OBVIOUS
<1>2. Writes(w) /\ w.kind # "idle"
  BY <1>1 DEF TypesHold, Writes, Commit
<1>3. CASE w.kind = "delete"
  <2>1. /\ interview' = [interview EXCEPT !.status = "DELETED"]
        /\ bank' = <<>> /\ assignees' = {} /\ sessions' = <<>>
    BY <1>1, <1>3 DEF Commit
  <2>2. DOMAIN <<>> = {}
    OBVIOUS
  <2>3. <<>> = [q \in DOMAIN <<>> |-> <<>>[q]]
    OBVIOUS
  <2>4. interview' \in [status : {"DRAFT", "PUBLISHED", "DELETED"}, topics : SUBSET Topics, count : Counts]
    BY <2>1 DEF TypesHold
  <2>5. interview'.status = "DELETED"
    BY <2>1 DEF TypesHold
  <2>6. bank' = [q \in DOMAIN bank' |-> bank'[q]]
    BY <2>1, <2>3
  <2>7. QED BY <1>1, <1>3, <2>1, <2>2, <2>4, <2>5, <2>6
<1>4. CASE w.kind # "delete"
  <2>1. /\ interview' = Over(interview, w.columns)
        /\ bank' = Written(w)
        /\ assignees' = CASE w.kind = "assign" -> assignees \cup w.who
                         [] w.kind = "unassign" -> assignees \ w.who
                         [] OTHER -> assignees
        /\ sessions' = CASE w.kind = "start" -> Beside([c \in w.who |-> w.session], sessions)
                         [] w.kind = "unassign" -> [c \in DOMAIN sessions \ w.who |-> sessions[c]]
                         [] OTHER -> sessions
    BY <1>1, <1>4 DEF Commit
  <2>2. bank' = [q \in DOMAIN bank' |-> bank'[q]]
    BY <2>1 DEF Written, Beside
  <2>3. w.kind # "edit" => bank' = bank
    BY <1>2, <2>1, WrittenNothing DEF TypesHold, Writes
  <2>4. CASE w.kind = "edit"
    <3>1. w.columns \in Columns
      BY <1>2, <2>4 DEF Writes
    <3>2. /\ interview' \in [status : {"DRAFT", "PUBLISHED", "DELETED"}, topics : SUBSET Topics,
                             count : Counts]
          /\ interview'.status = interview.status
      BY <2>1, <3>1, OverColumns DEF TypesHold
    <3>3. assignees' = assignees /\ sessions' = sessions
      BY <2>1, <2>4
    <3>4. QED BY <1>1, <2>2, <2>4, <3>2, <3>3
  <2>5. CASE w.kind = "publish"
    <3>1. w.columns = [status |-> "PUBLISHED"]
      BY <1>2, <2>5 DEF Writes
    <3>2. interview' = [status |-> "PUBLISHED", topics |-> interview.topics, count |-> interview.count]
      BY <2>1, <3>1, OverStatus DEF TypesHold
    <3>3. interview' = [interview EXCEPT !.status = "PUBLISHED"]
      BY <3>2 DEF TypesHold
    <3>4. assignees' = assignees /\ sessions' = sessions
      BY <2>1, <2>5
    <3>5. interview' \in [status : {"DRAFT", "PUBLISHED", "DELETED"}, topics : SUBSET Topics,
                          count : Counts]
      BY <3>2 DEF TypesHold
    <3>6. QED BY <1>1, <2>2, <2>3, <2>5, <3>3, <3>4, <3>5
  <2>6. CASE w.kind = "unpublish"
    <3>1. w.columns = [status |-> "DRAFT"]
      BY <1>2, <2>6 DEF Writes
    <3>2. interview' = [status |-> "DRAFT", topics |-> interview.topics, count |-> interview.count]
      BY <2>1, <3>1, OverStatus DEF TypesHold
    <3>3. assignees' = assignees /\ sessions' = sessions
      BY <2>1, <2>6
    <3>4. interview' \in [status : {"DRAFT", "PUBLISHED", "DELETED"}, topics : SUBSET Topics,
                          count : Counts]
      BY <3>2 DEF TypesHold
    <3>5. interview'.status = "DRAFT"
      BY <3>2
    <3>6. QED BY <1>1, <2>2, <2>6, <3>3, <3>4, <3>5
  <2>7. CASE w.kind \in {"assign", "unassign", "start"}
    <3>1. w.columns = <<>>
      BY <1>2, <2>7 DEF Writes
    <3>2. interview' = interview
      BY <2>1, <3>1, OverNothing DEF TypesHold
    <3>3. w.kind = "assign" => assignees' = assignees \cup w.who /\ sessions' = sessions
      BY <2>1
    <3>4. w.kind = "unassign" =>
             /\ assignees' = assignees \ w.who
             /\ sessions' = [c \in DOMAIN sessions \ w.who |-> sessions[c]]
      BY <2>1
    <3>5. w.kind = "start" => assignees' = assignees
      BY <2>1
    <3>6. w.kind = "start" => sessions' = Beside([c \in w.who |-> w.session], sessions)
      BY <2>1
    <3>7. w.kind = "start" =>
             /\ DOMAIN sessions' = w.who \cup DOMAIN sessions
             /\ \A c \in DOMAIN sessions' :
                   sessions'[c] = IF c \in w.who THEN w.session ELSE sessions[c]
      BY <3>6 DEF Beside
    <3>8. QED BY <1>1, <2>2, <2>3, <2>7, <3>2, <3>3, <3>4, <3>5, <3>7 DEF TypesHold
  <2>8. QED BY <1>2, <1>4, <2>4, <2>5, <2>6, <2>7 DEF Writes
<1>5. QED BY <1>3, <1>4

LEMMA CommitKeeps ==
    ASSUME PaperInv, NEW r \in Requests, Commit(r)
    PROVE  PaperInv'
<1>1. PICK w : w = tx[r]
  OBVIOUS
<1>2. TypesHold
  BY DEF PaperInv
<1>3. Writes(w) /\ w.kind # "idle" /\ w.behind = {}
  BY <1>1, <1>2 DEF TypesHold, Writes, Commit
<1>4. Carried(r)
  BY <1>2, EndsCarries DEF Commit
<1>5. \A s \in Requests :
         s # r /\ r \in tx[s].behind
             => tx'[s] = Idle \/ StillFits(tx[s], interview', bank', assignees', sessions')
  BY <1>2, EndsCarries DEF Commit
<1>6. overlapped' = overlapped
  BY DEF Commit
<1>7. TypesHold'
  <2>1. /\ interview' \in [status : {"DRAFT", "PUBLISHED", "DELETED"}, topics : SUBSET Topics,
                           count : Counts]
        /\ bank' = [q \in DOMAIN bank' |-> bank'[q]]
    BY <1>2, CommitWrites
  <2>2. overlapped' \in BOOLEAN
    BY <1>2, <1>6 DEF TypesHold
  <2>3. QED BY <1>4, <2>1, <2>2 DEF TypesHold, Carried
<1>8. OneWaits'
  BY <1>4, CarriedWaits DEF PaperInv
<1>9. ASSUME ~overlapped
      PROVE  NoOverlap' /\ Sat' /\ \A s \in Requests : StillSo(tx[s])'
  <2>1. NoOverlap /\ Sat /\ \A s \in Requests : StillSo(tx[s])
    BY <1>9 DEF PaperInv
  <2>2. NoOverlap'
    BY <1>4, <2>1, CarriedNoOverlap
  <2>3. StillSo(w)
    BY <1>1, <2>1
  <2>4. Sat'
    <3>1. CASE w.kind = "edit"
      <4>1. DOMAIN sessions = {}
        BY <2>1, <2>3, <3>1 DEF Sat, StillSo
      <4>2. assignees' = assignees /\ sessions' = sessions
        BY <1>1, <1>2, <3>1, CommitWrites
      <4>3. QED BY <4>1, <4>2 DEF Sat
    <3>2. CASE w.kind = "publish"
      <4>1. /\ interview' = [interview EXCEPT !.status = "PUBLISHED"]
            /\ bank' = bank /\ assignees' = assignees /\ sessions' = sessions
        BY <1>1, <1>2, <3>2, CommitWrites
      <4>2. IsPublished => interview' = interview
        BY <1>2, <4>1 DEF TypesHold, IsPublished
      <4>3. CASE DOMAIN sessions = {}
        BY <2>1, <4>1, <4>3 DEF Sat
      <4>4. CASE DOMAIN sessions # {}
        <5>1. interview' = interview
          BY <2>1, <4>2, <4>4 DEF Sat
        <5>2. QED BY <2>1, <4>1, <5>1 DEF Sat, IsPublished, Current
      <4>5. QED BY <4>3, <4>4
    <3>3. CASE w.kind = "unpublish"
      <4>1. assignees' = {} /\ sessions' = sessions
        BY <1>1, <1>2, <2>3, <3>3, CommitWrites DEF StillSo
      <4>2. DOMAIN sessions = {}
        BY <2>1, <2>3, <3>3 DEF Sat, StillSo
      <4>3. QED BY <4>1, <4>2 DEF Sat
    <3>4. CASE w.kind = "delete"
      <4>1. DOMAIN sessions' = {}
        BY <1>1, <1>2, <3>4, CommitWrites
      <4>2. QED BY <4>1 DEF Sat
    <3>5. CASE w.kind = "assign"
      <4>1. /\ interview' = interview /\ bank' = bank /\ sessions' = sessions
            /\ assignees \subseteq assignees'
        BY <1>1, <1>2, <3>5, CommitWrites
      <4>2. QED BY <2>1, <4>1 DEF Sat, IsPublished, Current
    <3>6. CASE w.kind = "unassign"
      <4>1. /\ interview' = interview /\ bank' = bank
            /\ assignees' = assignees \ w.who
            /\ sessions' = [c \in DOMAIN sessions \ w.who |-> sessions[c]]
        BY <1>1, <1>2, <3>6, CommitWrites
      <4>2. DOMAIN sessions' = DOMAIN sessions \ w.who /\ \A c \in DOMAIN sessions' : sessions'[c] = sessions[c]
        BY <4>1
      <4>3. QED BY <2>1, <4>1, <4>2 DEF Sat, IsPublished, Current
    <3>7. CASE w.kind = "start"
      <4>1. /\ interview' = interview /\ bank' = bank /\ assignees' = assignees
            /\ DOMAIN sessions' = w.who \cup DOMAIN sessions
            /\ \A c \in DOMAIN sessions' : sessions'[c] = IF c \in w.who THEN w.session ELSE sessions[c]
        BY <1>1, <1>2, <3>7, CommitWrites
      <4>2. IsPublished /\ w.who \subseteq assignees /\ w.session = Current
        BY <2>3, <3>7 DEF StillSo
      <4>3. QED BY <2>1, <4>1, <4>2 DEF Sat, IsPublished, Current
    <3>8. QED BY <1>3, <3>1, <3>2, <3>3, <3>4, <3>5, <3>6, <3>7 DEF Writes
  <2>5. ASSUME NEW s \in Requests PROVE StillSo(tx[s])'
    <3>1. CASE tx'[s] = Idle
      BY <3>1, IdleWrites DEF StillSo
    <3>2. CASE tx'[s] # Idle
      <4>1. PICK v : v = tx[s]
        OBVIOUS
      <4>2. s # r /\ tx'[s].kind = v.kind /\ tx'[s].who = v.who /\ tx'[s].session = v.session
        BY <1>4, <3>2, <4>1 DEF Carried
      <4>3. StillSo(v) /\ Writes(v) /\ ~Overlap(w, v) /\ ~Overlap(v, w)
        BY <1>1, <1>2, <2>1, <4>1 DEF NoOverlap, TypesHold
      <4>4. v.kind # "idle"
        BY <1>4, <3>2, <4>2 DEF Carried, Writes
      <4>5. Clash(w, v) => StillFits(v, interview', bank', assignees', sessions')
        <5>1. Clash(w, v) => r \in v.behind
          BY <1>1, <1>3, <4>1, <4>2, <4>4 DEF PaperInv, OneWaits
        <5>2. QED BY <1>5, <3>2, <4>1, <4>2, <5>1
      <4>6. CASE v.kind = "edit"
        <5>1. w.kind # "publish"
          BY <4>3, <4>6, OverlapIs
        <5>2. interview'.status \in {interview.status, "DRAFT", "DELETED"}
          BY <1>1, <1>2, <1>3, <5>1, CommitWrites DEF Writes
        <5>3. interview'.status # "PUBLISHED"
          BY <4>3, <4>6, <5>2 DEF StillSo, IsPublished
        <5>4. QED BY <4>2, <4>6, <5>3 DEF StillSo, IsPublished
      <4>7. CASE v.kind = "unpublish"
        <5>1. w.kind # "assign"
          BY <4>3, <4>7, OverlapIs
        <5>2. assignees' \subseteq assignees
          BY <1>1, <1>2, <1>3, <5>1, CommitWrites DEF Writes
        <5>3. QED BY <4>2, <4>3, <4>7, <5>2 DEF StillSo
      <4>8. CASE v.kind = "start"
        <5>1. IsPublished /\ v.who # {} /\ v.who \subseteq assignees /\ v.session = Current
          BY <4>3, <4>8 DEF StillSo
        <5>2. w.kind \notin {"edit", "unpublish"}
          BY <2>3, <5>1 DEF StillSo
        <5>3. w.kind # "delete"
          <6>1. SUFFICES ASSUME w.kind = "delete" PROVE FALSE
            OBVIOUS
          <6>2. StillFits(v, interview', bank', assignees', sessions')
            BY <4>5, <6>1 DEF Clash
          <6>3. interview'.status = "DELETED"
            BY <1>1, <1>2, <6>1, CommitWrites
          <6>4. QED BY <6>2, <6>3 DEF StillFits
        <5>4. interview' = interview /\ bank' = bank
          <6>1. CASE w.kind = "publish"
            <7>1. interview' = [interview EXCEPT !.status = "PUBLISHED"] /\ bank' = bank
              BY <1>1, <1>2, <6>1, CommitWrites
            <7>2. QED BY <1>2, <5>1, <7>1 DEF TypesHold, IsPublished
          <6>2. CASE w.kind \in {"assign", "unassign", "start"}
            BY <1>1, <1>2, <6>2, CommitWrites
          <6>3. QED BY <1>3, <5>2, <5>3, <6>1, <6>2 DEF Writes
        <5>5. v.who \subseteq assignees'
          <6>1. CASE w.kind = "unassign"
            <7>1. assignees' = assignees \ w.who
              BY <1>1, <1>2, <6>1, CommitWrites
            <7>2. CASE w.who \cap v.who = {}
              BY <5>1, <7>1, <7>2
            <7>3. CASE w.who \cap v.who # {}
              <8>1. StillFits(v, interview', bank', assignees', sessions')
                BY <4>5, <7>3 DEF Clash
              <8>2. QED BY <4>8, <8>1 DEF StillFits
            <7>4. QED BY <7>2, <7>3
          <6>2. CASE w.kind \in {"publish", "assign", "start"}
            <7>1. assignees \subseteq assignees'
              BY <1>1, <1>2, <6>2, CommitWrites
            <7>2. QED BY <5>1, <7>1
          <6>3. QED BY <1>3, <5>2, <5>3, <6>1, <6>2 DEF Writes
        <5>6. QED BY <4>2, <4>8, <5>1, <5>4, <5>5 DEF StillSo, IsPublished, Current
      <4>9. QED BY <4>2, <4>6, <4>7, <4>8 DEF StillSo
    <3>3. QED BY <3>1, <3>2
  <2>6. QED BY <2>2, <2>4, <2>5
<1>10. QED BY <1>6, <1>7, <1>8, <1>9 DEF PaperInv

LEMMA RollBackKeeps ==
    ASSUME PaperInv, NEW r \in Requests, RollBack(r)
    PROVE  PaperInv'
<1>1. TypesHold /\ Carried(r)
  BY RollBackCarries DEF PaperInv
<1>2. UNCHANGED <<interview, bank, assignees, sessions, overlapped>>
  BY DEF RollBack
<1>3. TypesHold'
  BY <1>1, <1>2 DEF TypesHold, Carried
<1>4. OneWaits'
  BY <1>1, CarriedWaits DEF PaperInv
<1>5. ASSUME ~overlapped
      PROVE  NoOverlap' /\ Sat' /\ \A s \in Requests : StillSo(tx[s])'
  <2>1. NoOverlap /\ Sat /\ \A s \in Requests : StillSo(tx[s])
    BY <1>5 DEF PaperInv
  <2>2. NoOverlap'
    BY <1>1, <2>1, CarriedNoOverlap
  <2>3. Sat'
    BY <1>2, <2>1 DEF Sat, IsPublished, Current
  <2>4. ASSUME NEW s \in Requests PROVE StillSo(tx[s])'
    <3>1. CASE tx'[s] = Idle
      BY <3>1, IdleWrites DEF StillSo
    <3>2. CASE tx'[s] # Idle
      <4>1. tx'[s].kind = tx[s].kind /\ tx'[s].who = tx[s].who /\ tx'[s].session = tx[s].session
        BY <1>1, <3>2 DEF Carried
      <4>2. QED BY <1>2, <2>1, <4>1 DEF StillSo, IsPublished, Current
    <3>3. QED BY <3>1, <3>2
  <2>5. QED BY <2>2, <2>3, <2>4
<1>6. QED BY <1>2, <1>3, <1>4, <1>5 DEF PaperInv

-----------------------------------------------------------------------------
(* Every request decides on what it finds.                                 *)

LEMMA EditKeeps ==
    ASSUME PaperInv, NEW r \in Requests, NEW columns \in Columns, NEW rows, NEW new, NEW gone,
           NEW w, w = [kind |-> Idle.kind, columns |-> columns, rows |-> rows, new |-> new, gone |-> gone,
                       who |-> Idle.who, session |-> Idle.session, behind |-> Idle.behind],
           Edit(r, w)
    PROVE  PaperInv'
<1>1. PICK v : v = [w EXCEPT !.kind = "edit"]
  OBVIOUS
<1>2. v = [kind |-> "edit", columns |-> columns, rows |-> rows, new |-> new, gone |-> gone,
           who |-> Idle.who, session |-> Idle.session, behind |-> Idle.behind]
  BY <1>1
<1>3. IsDraft /\ Decides(r, v)
  BY <1>1 DEF Edit
<1>4. Writes(v) /\ v.kind = "edit"
  BY <1>2 DEF Writes
<1>5. StillSo(v)
  BY <1>3, <1>4 DEF StillSo, IsDraft, IsPublished
<1>6. QED BY <1>3, <1>4, <1>5, DecidesKeeps

LEMMA IdleIs ==
    /\ Idle = [kind |-> Idle.kind, columns |-> Idle.columns, rows |-> Idle.rows, new |-> Idle.new,
               gone |-> Idle.gone, who |-> Idle.who, session |-> Idle.session, behind |-> Idle.behind]
    /\ Idle.columns \in Columns
BY DEF Idle, Columns

LEMMA ColumnsEdited ==
    ASSUME PaperInv, NEW r \in Requests, NEW columns \in Columns, Edit(r, [Idle EXCEPT !.columns = columns])
    PROVE  PaperInv'
<1>1. PICK w : w = [Idle EXCEPT !.columns = columns]
  OBVIOUS
<1>2. w = [kind |-> Idle.kind, columns |-> columns, rows |-> Idle.rows, new |-> Idle.new,
               gone |-> Idle.gone, who |-> Idle.who, session |-> Idle.session, behind |-> Idle.behind]
  BY <1>1, IdleIs
<1>3. QED BY <1>1, <1>2, IdleIs, EditKeeps

LEMMA RowsEdited ==
    ASSUME PaperInv, NEW r \in Requests, NEW rows, Edit(r, [Idle EXCEPT !.rows = rows])
    PROVE  PaperInv'
<1>1. PICK w : w = [Idle EXCEPT !.rows = rows]
  OBVIOUS
<1>2. w = [kind |-> Idle.kind, columns |-> Idle.columns, rows |-> rows, new |-> Idle.new,
               gone |-> Idle.gone, who |-> Idle.who, session |-> Idle.session, behind |-> Idle.behind]
  BY <1>1, IdleIs
<1>3. QED BY <1>1, <1>2, IdleIs, EditKeeps

LEMMA RowsAdded ==
    ASSUME PaperInv, NEW r \in Requests, NEW new, Edit(r, [Idle EXCEPT !.new = new])
    PROVE  PaperInv'
<1>1. PICK w : w = [Idle EXCEPT !.new = new]
  OBVIOUS
<1>2. w = [kind |-> Idle.kind, columns |-> Idle.columns, rows |-> Idle.rows, new |-> new,
               gone |-> Idle.gone, who |-> Idle.who, session |-> Idle.session, behind |-> Idle.behind]
  BY <1>1, IdleIs
<1>3. QED BY <1>1, <1>2, IdleIs, EditKeeps

LEMMA RowsDeleted ==
    ASSUME PaperInv, NEW r \in Requests, NEW gone, Edit(r, [Idle EXCEPT !.gone = gone])
    PROVE  PaperInv'
<1>1. PICK w : w = [Idle EXCEPT !.gone = gone]
  OBVIOUS
<1>2. w = [kind |-> Idle.kind, columns |-> Idle.columns, rows |-> Idle.rows, new |-> Idle.new,
               gone |-> gone, who |-> Idle.who, session |-> Idle.session, behind |-> Idle.behind]
  BY <1>1, IdleIs
<1>3. QED BY <1>1, <1>2, IdleIs, EditKeeps

LEMMA PublishKeeps ==
    ASSUME PaperInv, NEW r \in Requests, Publish(r)
    PROVE  PaperInv'
<1>1. PICK w : w = [Idle EXCEPT !.kind = "publish", !.columns = [status |-> "PUBLISHED"]]
  OBVIOUS
<1>2. Decides(r, w)
  BY <1>1 DEF Publish
<1>3. Writes(w) /\ w.kind = "publish"
  BY <1>1 DEF Writes, Idle
<1>4. QED BY <1>2, <1>3, DecidesKeeps DEF StillSo

LEMMA UnpublishKeeps ==
    ASSUME PaperInv, NEW r \in Requests, Unpublish(r)
    PROVE  PaperInv'
<1>1. PICK w : w = [Idle EXCEPT !.kind = "unpublish", !.columns = [status |-> "DRAFT"]]
  OBVIOUS
<1>2. Decides(r, w) /\ assignees = {}
  BY <1>1 DEF Unpublish, MayUnpublish
<1>3. Writes(w) /\ w.kind = "unpublish"
  BY <1>1 DEF Writes, Idle
<1>4. QED BY <1>2, <1>3, DecidesKeeps DEF StillSo

LEMMA DeleteKeeps ==
    ASSUME PaperInv, NEW r \in Requests, Delete(r)
    PROVE  PaperInv'
<1>1. PICK w : w = [Idle EXCEPT !.kind = "delete"]
  OBVIOUS
<1>2. Decides(r, w)
  BY <1>1 DEF Delete
<1>3. Writes(w) /\ w.kind = "delete"
  BY <1>1 DEF Writes, Idle
<1>4. QED BY <1>2, <1>3, DecidesKeeps DEF StillSo

LEMMA AssignKeeps ==
    ASSUME PaperInv, NEW r \in Requests, NEW cs, Assign(r, cs)
    PROVE  PaperInv'
<1>1. PICK w : w = [Idle EXCEPT !.kind = "assign", !.who = cs \ assignees]
  OBVIOUS
<1>2. Decides(r, w)
  BY <1>1 DEF Assign
<1>3. Writes(w) /\ w.kind = "assign"
  BY <1>1 DEF Writes, Idle
<1>4. QED BY <1>2, <1>3, DecidesKeeps DEF StillSo

LEMMA UnassignKeeps ==
    ASSUME PaperInv, NEW r \in Requests, NEW c, UnassignCandidate(r, c)
    PROVE  PaperInv'
<1>1. PICK w : w = [Idle EXCEPT !.kind = "unassign", !.who = {c}]
  OBVIOUS
<1>2. Decides(r, w)
  BY <1>1 DEF UnassignCandidate
<1>3. Writes(w) /\ w.kind = "unassign"
  BY <1>1 DEF Writes, Idle
<1>4. QED BY <1>2, <1>3, DecidesKeeps DEF StillSo

LEMMA StartKeeps ==
    ASSUME PaperInv, NEW r \in Requests, NEW c, StartSession(r, c)
    PROVE  PaperInv'
<1>1. PICK w : w = [Idle EXCEPT !.kind = "start", !.who = {c}, !.session = Current]
  OBVIOUS
<1>2. Decides(r, w) /\ IsPublished /\ c \in assignees
  BY <1>1 DEF StartSession, Current
<1>3. Writes(w) /\ w.kind = "start" /\ w.who = {c} /\ w.session = Current
  BY <1>1 DEF Writes, Idle
<1>4. StillSo(w)
  BY <1>2, <1>3 DEF StillSo
<1>5. QED BY <1>2, <1>3, <1>4, DecidesKeeps

-----------------------------------------------------------------------------
LEMMA PaperInit == AuthoringInit => PaperInv
<1> SUFFICES ASSUME AuthoringInit PROVE PaperInv
  OBVIOUS
<1>1. interview \in [status : {"DRAFT", "PUBLISHED", "DELETED"}, topics : SUBSET Topics, count : Counts]
  BY DEF AuthoringInit
<1>2. bank = [q \in DOMAIN bank |-> bank[q]]
  <2>1. <<>> = [q \in DOMAIN <<>> |-> <<>>[q]]
    OBVIOUS
  <2>2. PICK q \in Questions, t \in Topics :
           \/ bank = <<>>
           \/ bank = [x \in {q} |-> [parent |-> 0, topic |-> t, active |-> TRUE, position |-> 0]]
    BY DEF AuthoringInit
  <2>3. QED BY <2>1, <2>2
<1>3. \A r \in Requests : tx[r] = Idle
  BY DEF AuthoringInit
<1>4. TypesHold
  BY <1>1, <1>2, <1>3, IdleWrites DEF AuthoringInit, TypesHold
<1>5. OneWaits
  BY <1>3, IdleWrites DEF OneWaits
<1>6. NoOverlap
  BY <1>3, IdleWrites, OverlapIs DEF NoOverlap
<1>7. Sat
  <2>1. DOMAIN sessions = {}
    BY DEF AuthoringInit
  <2>2. QED BY <2>1 DEF Sat
<1>8. \A r \in Requests : StillSo(tx[r])
  BY <1>3, IdleWrites DEF StillSo
<1>9. QED BY <1>4, <1>5, <1>6, <1>7, <1>8 DEF PaperInv

LEMMA PaperNext == PaperInv /\ [AuthoringNext]_authoringVars => PaperInv'
<1> SUFFICES ASSUME PaperInv, [AuthoringNext]_authoringVars PROVE PaperInv'
  OBVIOUS
<1>1. CASE UNCHANGED authoringVars
  BY <1>1 DEF authoringVars, paperVars, PaperInv, TypesHold, OneWaits, NoOverlap, Sat, StillSo, IsPublished, Current
<1>2. ASSUME NEW r \in Requests, NEW topics \in SUBSET Topics \ {{}}, UpdateTopics(r, topics)
      PROVE  PaperInv'
  <2>1. PICK columns : columns = [topics |-> topics]
    OBVIOUS
  <2>2. columns \in Columns
    BY <1>2, <2>1 DEF Columns
  <2>3. QED BY <1>2, <2>1, <2>2, ColumnsEdited DEF UpdateTopics
<1>3. ASSUME NEW r \in Requests, NEW n \in Counts, UpdateCount(r, n)
      PROVE  PaperInv'
  <2>1. PICK columns : columns = [count |-> n]
    OBVIOUS
  <2>2. columns \in Columns
    BY <1>3, <2>1 DEF Columns
  <2>3. QED BY <1>3, <2>1, <2>2, ColumnsEdited DEF UpdateCount
<1>4. ASSUME NEW r \in Requests, NEW q \in Questions, NEW topic \in Topics, AddQuestion(r, q, topic)
      PROVE  PaperInv'
  BY <1>4, RowsAdded DEF AddQuestion
<1>5. ASSUME NEW r \in Requests, NEW q \in Questions, NEW topic \in Topics, UpdateTopic(r, q, topic)
      PROVE  PaperInv'
  BY <1>5, RowsEdited DEF UpdateTopic
<1>6. ASSUME NEW r \in Requests, NEW p \in Questions, NEW q \in Questions, AddFollowUp(r, p, q)
      PROVE  PaperInv'
  BY <1>6, RowsAdded DEF AddFollowUp
<1>7. ASSUME NEW r \in Requests, NEW q \in Questions, UpdateActive(r, q)
      PROVE  PaperInv'
  BY <1>7, RowsEdited DEF UpdateActive
<1>8. ASSUME NEW r \in Requests, NEW q \in Questions, DeleteQuestion(r, q)
      PROVE  PaperInv'
  BY <1>8, RowsDeleted DEF DeleteQuestion
<1>9. ASSUME NEW r \in Requests, NEW order, Reorder(r, order)
      PROVE  PaperInv'
  BY <1>9, RowsEdited DEF Reorder
<1>10. QED
  BY <1>1, <1>2, <1>3, <1>4, <1>5, <1>6, <1>7, <1>8, <1>9, PublishKeeps, UnpublishKeeps, DeleteKeeps,
     AssignKeeps, UnassignKeeps, StartKeeps, CommitKeeps, RollBackKeeps DEF AuthoringNext

-----------------------------------------------------------------------------
\* Every session sees one paper, the published one (InterviewService, "every session must see
\* one paper"), however requests interleave, unless a publication overlapped an edit or an
\* unpublication an assignment.
THEOREM SessionsSeeOnePaper == AuthoringSpec => []OnePaper
<1>1. PaperInv => OnePaper
  BY DEF PaperInv, Sat, Current, OnePaper
<1>2. QED BY <1>1, PaperInit, PaperNext, PTL DEF AuthoringSpec

\* A request under way never works on what has been taken from under it: an edit that is to be
\* written finds no published interview, a session that is to be started an assignment and the
\* paper as it is (InterviewService._draft, InterviewSessionService.start).
THEOREM DecisionsStand ==
    AuthoringSpec => [](~overlapped => \A r \in Requests : StillSo(tx[r]))
<1>1. PaperInv => (~overlapped => \A r \in Requests : StillSo(tx[r]))
  BY DEF PaperInv
<1>2. QED BY <1>1, PaperInit, PaperNext, PTL DEF AuthoringSpec
=============================================================================
