---------------------------- MODULE ExamAuthoring ----------------------------
(***************************************************************************)
(* Writing an exam: its questions, its lifecycle and its assignments, while *)
(* candidates start it (AssessmentService, AssignmentService, readiness).  *)
(*                                                                         *)
(* A request reads, decides, and commits what it writes later; nothing in  *)
(* this part of the server locks a row it has read.  tx holds what an open *)
(* request will write, computed from what it read.                         *)
(***************************************************************************)
EXTENDS Naturals, SequencesExt

CONSTANTS
    Admins,
    Candidates,
    Ids,          \* rows of questions
    Problems,     \* published and enabled coding problems
    Texts,        \* what a question asks: wording, options and key, or the pinned version
    Marks,        \* what a question may be worth
    Totals,       \* total_marks, standing for every field of EXAM_DEFINING_FIELDS
    MaxShared,    \* bound: questions of an exam several administrators write
    None

VARIABLES
    team,         \* the administrators who write this exam
    exam,         \* the assessments row, None once deleted
    questions,    \* the questions rows, by id
    assigned,     \* candidates with an assessment_assignments row
    attempts,     \* candidates with an assessment_attempts row
    tx            \* tx[p]: what the open request of p will write, None without one

vars == <<team, exam, questions, assigned, attempts, tx>>

-----------------------------------------------------------------------------
Kinds == {"MCQ", "CODING", "MIXED"}

Exam == [status : {"DRAFT", "READY", "PUBLISHED"}, kind : Kinds, total : Totals]

Question == [type : {"OBJECTIVE", "CODING"}, problem : Problems \cup {None},
             text : Texts, marks : Marks, position : Nat]

\* What a request writes: columns of the exam, columns of questions (every column: an
\* insert), deleted questions, candidates assigned and unassigned, a deleted exam, an
\* attempt; and whether it began before there was any attempt.
NoWrite == [columns |-> <<>>, rows |-> <<>>, gone |-> {}, joins |-> {}, leaves |-> {},
            drops |-> FALSE, starts |-> FALSE, early |-> FALSE]

\* AssessmentService.create; one administrator works on the exam, or all of them do.
Init ==
    /\ team \in {{a} : a \in Admins} \cup {Admins}
    /\ exam \in [status : {"DRAFT"}, kind : Kinds, total : Totals]
    /\ questions = <<>>
    /\ assigned = {}
    /\ attempts = {}
    /\ tx = [p \in Admins \cup Candidates |-> None]

-----------------------------------------------------------------------------
Rows == DOMAIN questions

Position(q) == questions[q].position

\* list_for_assessment: by position; rows with one position come in any order.
Listings ==
    {s \in SetToSeqs(Rows) :
        \A i, j \in DOMAIN s : i < j => Position(s[i]) <= Position(s[j])}

\* next_question_position
NextPosition == IF Rows = {} THEN 0 ELSE Max({Position(q) : q \in Rows}) + 1

Place(s, q) == CHOOSE i \in DOMAIN s : s[i] = q

\* Mutant of Renumbered: the positions are left as they are.
NotRenumbered(s) == <<>>

\* _compact_positions: the rows that are not where the list has them.
Renumbered(s) ==
    [q \in {r \in Rows \cap ToSet(s) : Position(r) # Place(s, r) - 1} |->
        [position |-> Place(s, q) - 1]]

\* type_allows
TypeAllows(kind, type) ==
    IF type = "CODING" THEN kind \in {"CODING", "MIXED"} ELSE kind \in {"MCQ", "MIXED"}

\* Mutant of Editable: nobody counts.
AlwaysEditable == TRUE

\* _require_editable: an unlocked count of the attempts.
Editable == attempts = {}

\* readiness.evaluate, but for the content of a question and the exam's own fields.
IsReady ==
    /\ Rows # {}
    /\ \A q \in Rows : TypeAllows(exam.kind, questions[q].type)
    /\ {Position(q) : q \in Rows} = 0..(Cardinality(Rows) - 1)
    /\ SumFunction([q \in Rows |-> questions[q].marks]) = exam.total

\* Ids of questions no request uses.
Fresh(q) ==
    /\ q \in Ids \ Rows
    /\ \A p \in DOMAIN tx : tx[p] # None => q \notin DOMAIN tx[p].rows
    /\ Cardinality(team) > 1 => Cardinality(Rows) < MaxShared

\* The columns a request changed, on top of the row as it has become.
Over(row, columns) == [f \in DOMAIN row |-> IF f \in DOMAIN columns THEN columns[f] ELSE row[f]]

\* Of these columns the ones that differ from the row's.
Changed(row, columns) == [f \in {g \in DOMAIN columns : columns[g] # row[g]} |-> columns[f]]

\* p's request has read and decided; w is what it will write.
Decide(p, w) ==
    /\ exam # None
    /\ tx[p] = None
    /\ p \in team \cup Candidates
    /\ tx' = [tx EXCEPT ![p] = [w EXCEPT !.early = attempts = {}]]
    /\ UNCHANGED <<team, exam, questions, assigned, attempts>>

WriteRows(p, rows) == Decide(p, [NoWrite EXCEPT !.rows = rows])

WriteColumns(p, columns) == Decide(p, [NoWrite EXCEPT !.columns = columns])

-----------------------------------------------------------------------------
\* AssessmentService.update: the kind, and the fields that define how the exam is taken.
Update(a, kind, total) ==
    /\ exam # None
    /\ <<kind, total>> # <<exam.kind, exam.total>>
    /\ Editable
    /\ kind # exam.kind => \A q \in Rows : TypeAllows(kind, questions[q].type)
    /\ WriteColumns(a, Changed(exam, [kind |-> kind, total |-> total]))

AddQuestion(a, q, text, marks) ==
    /\ exam # None
    /\ Editable
    /\ TypeAllows(exam.kind, "OBJECTIVE")
    /\ Fresh(q)
    /\ WriteRows(a, [x \in {q} |-> [type |-> "OBJECTIVE", problem |-> None, text |-> text,
                                    marks |-> marks, position |-> NextPosition]])

\* add_coding_question: each problem once.
AddCodingQuestion(a, q, problem, text, marks) ==
    /\ exam # None
    /\ Editable
    /\ TypeAllows(exam.kind, "CODING")
    /\ \A r \in Rows : questions[r].problem # problem
    /\ Fresh(q)
    /\ WriteRows(a, [x \in {q} |-> [type |-> "CODING", problem |-> problem, text |-> text,
                                    marks |-> marks, position |-> NextPosition]])

\* update_question; of a coding question only the marks.
UpdateQuestion(a, q, text, marks) ==
    /\ Editable
    /\ q \in Rows
    /\ <<text, marks>> # <<questions[q].text, questions[q].marks>>
    /\ questions[q].type = "CODING" => text = questions[q].text
    /\ WriteRows(a, [x \in {q} |-> Changed(questions[q], [text |-> text, marks |-> marks])])

\* set_coding_version: another published version of the same problem.
SetCodingVersion(a, q, text) ==
    /\ Editable
    /\ q \in Rows
    /\ questions[q].type = "CODING" /\ questions[q].text # text
    /\ WriteRows(a, [x \in {q} |-> [text |-> text]])

\* delete_question, which closes the gap.
DeleteQuestion(a, q) ==
    /\ Editable
    /\ q \in Rows
    /\ \E s \in Listings :
          Decide(a, [NoWrite EXCEPT !.gone = {q}, !.rows = Renumbered(RemoveAt(s, Place(s, q)))])

\* duplicate_question: the copy n takes the slot after q, whatever follows moves one up.
DuplicateQuestion(a, q, n) ==
    /\ Editable
    /\ q \in Rows
    /\ questions[q].type = "OBJECTIVE"
    /\ Fresh(n)
    /\ LET before == {r \in Rows : Position(r) <= Position(q)}
       IN  \E s \in Listings :
             LET list == InsertAt(s, Cardinality(before) + 1, n)
             IN  WriteRows(a, [r \in {n} \cup (Rows \ before) \cup DOMAIN Renumbered(list) |->
                                  IF r = n THEN [questions[q] EXCEPT !.position = Place(list, n) - 1]
                                  ELSE [position |-> Place(list, r) - 1]])

\* reorder_questions: the list names every question once.
Reorder(a, s) ==
    /\ Editable
    /\ s \in SetToSeqs(Rows)
    /\ WriteRows(a, [q \in Rows |-> [position |-> Place(s, q) - 1]])

-----------------------------------------------------------------------------
\* mark_ready, whatever the status was.
MarkReady(a) ==
    /\ exam # None
    /\ exam.status # "READY"
    /\ IsReady
    /\ WriteColumns(a, [status |-> "READY"])

\* The publish route: mark_ready, then READY -> PUBLISHED.
Publish(a) ==
    /\ exam # None
    /\ IsReady
    /\ WriteColumns(a, [status |-> "PUBLISHED"])

Unpublish(a) ==
    /\ exam # None
    /\ exam.status = "PUBLISHED"
    /\ assigned = {}
    /\ WriteColumns(a, [status |-> "DRAFT"])

RevertToDraft(a) ==
    /\ exam # None
    /\ exam.status = "READY"
    /\ WriteColumns(a, [status |-> "DRAFT"])

\* AssignmentService.assign: the candidates who have no assignment yet.  A request refused
\* for one candidate still commits those before: any set may be what is written.
Assign(a, cs) ==
    /\ exam # None
    /\ exam.status = "PUBLISHED"
    /\ cs # {} /\ cs \cap assigned = {}
    /\ Decide(a, [NoWrite EXCEPT !.joins = cs])

Unassign(a, c) ==
    /\ c \in assigned
    /\ Decide(a, [NoWrite EXCEPT !.leaves = {c}])

Delete(a) == Decide(a, [NoWrite EXCEPT !.drops = TRUE])

\* AttemptService.start_or_resume of an assigned candidate without an attempt.
Start(c) ==
    /\ exam # None
    /\ exam.status = "PUBLISHED"
    /\ c \in assigned \ attempts
    /\ Decide(c, [NoWrite EXCEPT !.starts = TRUE])

-----------------------------------------------------------------------------
\* An UPDATE of a row that is gone fails, and with it the request.
Applies(w) ==
    \A q \in DOMAIN w.rows : q \in Rows \/ "type" \in DOMAIN w.rows[q]

Applied(w) ==
    [q \in (Rows \cup DOMAIN w.rows) \ w.gone |->
        IF q \notin DOMAIN w.rows THEN questions[q]
        ELSE IF q \in Rows THEN Over(questions[q], w.rows[q]) ELSE w.rows[q]]

\* The request commits.  Deleting an assignment deletes the candidate's attempts with it, and
\* deleting the exam everything; inserts check their foreign keys and unique keys.
Commit(p) ==
    /\ tx[p] # None
    /\ exam # None
    /\ Applies(tx[p])
    /\ tx[p].joins \cap assigned = {}
    /\ tx[p].starts => p \in assigned
    /\ tx' = [tx EXCEPT ![p] = None]
    /\ IF tx[p].drops
       THEN /\ exam' = None
            /\ questions' = <<>>
            /\ assigned' = {}
            /\ attempts' = {}
       ELSE /\ exam' = Over(exam, tx[p].columns)
            /\ questions' = Applied(tx[p])
            /\ assigned' = (assigned \cup tx[p].joins) \ tx[p].leaves
            /\ attempts' = (attempts \cup (IF tx[p].starts THEN {p} ELSE {})) \ tx[p].leaves
    /\ UNCHANGED team

\* A constraint, a lost connection or a crash: nothing is written.
RollBack(p) ==
    /\ tx[p] # None
    /\ tx' = [tx EXCEPT ![p] = None]
    /\ UNCHANGED <<team, exam, questions, assigned, attempts>>

QuestionRequest(a) ==
    \/ \E q \in Ids, text \in Texts, marks \in Marks :
          \/ AddQuestion(a, q, text, marks)
          \/ \E problem \in Problems : AddCodingQuestion(a, q, problem, text, marks)
          \/ UpdateQuestion(a, q, text, marks)
          \/ SetCodingVersion(a, q, text)
    \/ \E q \in Ids : DeleteQuestion(a, q) \/ (\E n \in Ids : DuplicateQuestion(a, q, n))
    \/ \E s \in SetToSeqs(Rows) : Reorder(a, s)

Next ==
    \/ \E a \in team :
          \/ \E kind \in Kinds, total \in Totals : Update(a, kind, total)
          \/ QuestionRequest(a)
          \/ MarkReady(a) \/ Publish(a) \/ Unpublish(a) \/ RevertToDraft(a) \/ Delete(a)
          \/ \E cs \in SUBSET Candidates : Assign(a, cs)
          \/ \E c \in Candidates : Unassign(a, c)
    \/ \E c \in Candidates : Start(c)
    \/ \E p \in DOMAIN tx : Commit(p) \/ RollBack(p)

Spec == Init /\ [][Next]_vars

-----------------------------------------------------------------------------
\* Type invariant.
TypeOK ==
    /\ team \subseteq Admins
    /\ exam \in Exam \cup {None}
    /\ Rows \subseteq Ids
    /\ \A q \in Rows : questions[q] \in Question
    /\ assigned \subseteq Candidates /\ attempts \subseteq assigned

\* What every candidate is examined on: the questions in their order, and the rules.
Paper == <<questions, IF exam = None THEN None ELSE <<exam.kind, exam.total>> >>

\* Nothing locks the paper against the first attempt, but it can only still change by a
\* request that had begun before: once those are over, every attempt is on one paper until
\* the last of them is deleted (AssessmentService._require_editable).
PaperSettles ==
    [][attempts # {} /\ exam' # None /\ (\A a \in Admins : tx[a] # None => ~tx[a].early)
         => Paper' = Paper]_vars

\* While one administrator at a time writes the exam its questions are numbered 0, 1, ...
\* without gaps, fit its kind and hold each problem once, after every request
\* (_compact_positions, reorder_questions, type_allows, add_coding_question).
PaperWellFormed ==
    team \in {{a} : a \in Admins} /\ exam # None =>
        /\ {Position(q) : q \in Rows} = 0..(Cardinality(Rows) - 1)
        /\ \A q \in Rows : TypeAllows(exam.kind, questions[q].type)
        /\ \A q, r \in Rows : questions[q].problem = questions[r].problem
                                => q = r \/ questions[q].problem = None

\* An exam is back in draft only once every candidate is unassigned (revert_to_draft,
\* unpublish).
DraftUnassigned == exam # None /\ exam.status = "DRAFT" => assigned = {}
=============================================================================
