-------------------------- MODULE InterviewAuthoring --------------------------
(***************************************************************************)
(* The requests on an interview: InterviewService for administrators, and  *)
(* the start of a session for candidates.  A request reads, decides and    *)
(* flushes what it writes, and commits later; tx holds what it flushed.    *)
(* Nothing locks the interview while a request decides: a row that another *)
(* request flushed makes it wait, what another one read does not.          *)
(***************************************************************************)
EXTENDS InterviewPaper

CONSTANTS
    Requests,     \* requests that may be under way at once
    Questions,    \* ids of questions, positive numbers
    Counts,       \* values of question_count
    MaxEdits      \* bound: edits requested

VARIABLES tx, edits

authoringVars == <<paperVars, tx, edits>>

-----------------------------------------------------------------------------
Interview == [status : {"DRAFT", "PUBLISHED", "DELETED"}, topics : SUBSET Topics, count : Counts]

InterviewQuestion == [parent : Questions \cup {0}, topic : Topics, active : BOOLEAN, position : Nat]

\* What a request writes: columns of the interview; changed, new and deleted questions;
\* candidates assigned, unassigned or starting.  behind: requests whose rows it waits for.
Idle == [kind |-> "idle", columns |-> <<>>, rows |-> <<>>, new |-> <<>>, gone |-> {}, who |-> {},
         session |-> <<>>, behind |-> {}]

\* create leaves an empty draft; one with a question stands beside it.
AuthoringInit ==
    /\ interview \in {[status |-> "DRAFT", topics |-> Topics, count |-> n] : n \in Counts}
    /\ \E q \in Questions, t \in Topics :
          bank \in {<<>>,
                    [x \in {q} |-> [parent |-> 0, topic |-> t, active |-> TRUE, position |-> 0]]}
    /\ assignees = {}
    /\ sessions = <<>>
    /\ overlapped = FALSE
    /\ tx = [r \in Requests |-> Idle]
    /\ edits = 0

-----------------------------------------------------------------------------
IsDraft == interview.status = "DRAFT"

Primaries == {q \in DOMAIN bank : bank[q].parent = 0}
FollowUps(p) == {q \in DOMAIN bank : bank[q].parent = p}
Parents(new) == {new[q].parent : q \in DOMAIN new} \ {0}

\* The rows two requests both need: one of them waits for the other.  A deleted interview takes
\* everything with it; what is deleted cannot be changed or referred to; a key is inserted once.
Conflict(o, w) ==
    \/ "delete" \in {o.kind, w.kind}
    \/ o.columns # <<>> /\ w.columns # <<>>
    \/ DOMAIN o.rows \cap DOMAIN w.rows # {}
    \/ o.gone \cap (w.gone \cup DOMAIN w.rows \cup Parents(w.new)) # {}
    \/ w.gone \cap (o.gone \cup DOMAIN o.rows \cup Parents(o.new)) # {}
    \/ Parents(o.new) \cap Parents(w.new) # {}
    \/ o.who \cap w.who # {}

\* What a request decided can still be written to the rows as they have become.
StillFits(w, i, b, a, s) ==
    /\ i.status # "DELETED"
    /\ DOMAIN w.rows \subseteq DOMAIN b
    /\ w.gone \subseteq DOMAIN b
    /\ Parents(w.new) \subseteq DOMAIN b
    /\ ~\E q \in DOMAIN b : b[q].parent \in Parents(w.new)
    /\ w.kind = "assign" => w.who \cap a = {}
    /\ w.kind \in {"unassign", "start"} => w.who \subseteq a
    /\ w.kind = "start" => w.who \cap DOMAIN s = {}

Overlap(o, w) == {o.kind, w.kind} \in {{"publish", "edit"}, {"unpublish", "assign"}}

Decides(r, w) ==
    /\ tx[r] = Idle
    /\ LET open == {s \in Requests : tx[s] # Idle}
       IN  /\ tx' = [tx EXCEPT ![r] = [w EXCEPT !.behind = {s \in open : Conflict(tx[s], w)}]]
           /\ overlapped' = (overlapped \/ \E s \in open : Overlap(tx[s], w))
    /\ UNCHANGED <<interview, bank, assignees, sessions>>

\* An edit of a draft (InterviewService._draft).
Edit(r, w) ==
    /\ IsDraft
    /\ edits < MaxEdits
    /\ edits' = edits + 1
    /\ Decides(r, [w EXCEPT !.kind = "edit"])

UpdateTopics(r, topics) ==
    /\ IsDraft /\ topics # interview.topics
    /\ Edit(r, [Idle EXCEPT !.columns = [topics |-> topics]])

UpdateCount(r, n) ==
    /\ IsDraft /\ n # interview.count
    /\ Edit(r, [Idle EXCEPT !.columns = [count |-> n]])

IsNew(q) == q \notin DOMAIN bank /\ ~\E s \in Requests : q \in DOMAIN tx[s].new

NextPosition ==
    IF bank = <<>> THEN 0 ELSE 1 + Max({bank[q].position : q \in DOMAIN bank})

\* What is added is active; an inactive one is added and then edited.
AddQuestion(r, q, topic) ==
    /\ IsDraft /\ topic \in interview.topics /\ IsNew(q)
    /\ Edit(r, [Idle EXCEPT !.new = [x \in {q} |-> [parent |-> 0, topic |-> topic, active |-> TRUE,
                                                     position |-> NextPosition]]])

AddFollowUp(r, p, q) ==
    /\ p \in Primaries /\ FollowUps(p) = {} /\ IsNew(q)
    /\ Edit(r, [Idle EXCEPT !.new = [x \in {q} |-> [bank[p] EXCEPT !.parent = p, !.active = TRUE]]])

\* update_question: the changed columns; a follow-up keeps in step with its primary.
UpdateActive(r, q) ==
    /\ q \in DOMAIN bank
    /\ Edit(r, [Idle EXCEPT !.rows = [x \in {q} |-> [active |-> ~bank[q].active]]])

UpdateTopic(r, q, topic) ==
    /\ IsDraft /\ q \in Primaries /\ topic \in interview.topics \ {bank[q].topic}
    /\ Edit(r, [Idle EXCEPT !.rows =
                  [f \in {q} \cup {g \in FollowUps(q) : bank[g].topic # topic} |-> [topic |-> topic]]])

\* With its follow-up, by cascade.
DeleteQuestion(r, q) ==
    /\ q \in DOMAIN bank
    /\ Edit(r, [Idle EXCEPT !.gone = {q} \cup FollowUps(q)])

\* reorder: the position of each primary is its place in the list; follow-ups go with theirs.
Reorder(r, order) ==
    LET primary(q) == IF q \in Primaries THEN q ELSE bank[q].parent
        place(q) == CHOOSE n \in DOMAIN order : order[n] = primary(q)
        moved == {q \in DOMAIN bank : bank[q].position # place(q) - 1}
    IN  /\ moved # {}
        /\ Edit(r, [Idle EXCEPT !.rows = [q \in moved |-> [position |-> place(q) - 1]]])

-----------------------------------------------------------------------------
Publish(r) ==
    /\ IsDraft
    /\ interview.topics # {}
    /\ Len(BuildPlan(interview, bank)) = interview.count
    /\ Decides(r, [Idle EXCEPT !.kind = "publish", !.columns = [status |-> "PUBLISHED"]])
    /\ UNCHANGED edits

\* Mutant of MayUnpublish: only candidates who have started are counted.
NoneStarted == sessions = <<>>

MayUnpublish == assignees = {}

Unpublish(r) ==
    /\ IsPublished
    /\ MayUnpublish
    /\ Decides(r, [Idle EXCEPT !.kind = "unpublish", !.columns = [status |-> "DRAFT"]])
    /\ UNCHANGED edits

Delete(r) ==
    /\ IsDraft
    /\ Decides(r, [Idle EXCEPT !.kind = "delete"])
    /\ UNCHANGED edits

Assign(r, cs) ==
    /\ IsPublished
    /\ cs \ assignees # {}
    /\ Decides(r, [Idle EXCEPT !.kind = "assign", !.who = cs \ assignees])
    /\ UNCHANGED edits

UnassignCandidate(r, c) ==
    /\ interview.status # "DELETED"
    /\ c \in assignees
    /\ Decides(r, [Idle EXCEPT !.kind = "unassign", !.who = {c}])
    /\ UNCHANGED edits

\* InterviewSessionService.start; paper, a ghost: the questions as they were.
StartSession(r, c) ==
    /\ IsPublished
    /\ c \in assignees \ DOMAIN sessions
    /\ LET plan == BuildPlan(interview, bank)
       IN  /\ plan # <<>>
           /\ Decides(r, [Idle EXCEPT !.kind = "start", !.who = {c},
                                      !.session = [plan |-> plan, paper |-> bank]])
    /\ UNCHANGED edits

-----------------------------------------------------------------------------
\* The columns a request changed, on top of the row as it has become.
Over(row, columns) == [f \in DOMAIN row |-> IF f \in DOMAIN columns THEN columns[f] ELSE row[f]]

Beside(new, old) == [x \in DOMAIN new \cup DOMAIN old |-> IF x \in DOMAIN new THEN new[x] ELSE old[x]]

\* Deleting a primary deletes its follow-up.
Kept(gone) == {q \in DOMAIN bank : q \notin gone /\ bank[q].parent \notin gone}

Written(w) ==
    LET changed == [q \in Kept(w.gone) |->
                      IF q \in DOMAIN w.rows THEN Over(bank[q], w.rows[q]) ELSE bank[q]]
    IN  Beside(w.new, changed)

\* A request that ends lets those go on that waited for it: the ones whose rows it took fail, and
\* a deletion takes the follow-ups that were added meanwhile.
Resumed(w, r) ==
    IF ~StillFits(w, interview', bank', assignees', sessions') THEN Idle
    ELSE [w EXCEPT !.behind = @ \ {r},
                   !.gone = @ \cup {q \in DOMAIN bank' : bank'[q].parent \in @}]

Ends(r) ==
    tx' = [s \in Requests |->
             IF s = r THEN Idle ELSE IF r \in tx[s].behind THEN Resumed(tx[s], r) ELSE tx[s]]

Commit(r) ==
    /\ tx[r] # Idle
    /\ tx[r].behind = {}
    /\ LET w == tx[r]
       IN  IF w.kind = "delete"
           THEN /\ interview' = [interview EXCEPT !.status = "DELETED"]
                /\ bank' = <<>> /\ assignees' = {} /\ sessions' = <<>>
           ELSE /\ interview' = Over(interview, w.columns)
                /\ bank' = Written(w)
                /\ assignees' = CASE w.kind = "assign" -> assignees \cup w.who
                                 [] w.kind = "unassign" -> assignees \ w.who
                                 [] OTHER -> assignees
                /\ sessions' = CASE w.kind = "start" -> Beside([c \in w.who |-> w.session], sessions)
                                 [] w.kind = "unassign" -> [c \in DOMAIN sessions \ w.who |-> sessions[c]]
                                 [] OTHER -> sessions
    /\ Ends(r)
    /\ UNCHANGED <<overlapped, edits>>

RollBack(r) ==
    /\ tx[r] # Idle
    /\ UNCHANGED <<interview, bank, assignees, sessions, overlapped, edits>>
    /\ tx' = [s \in Requests |->
                IF s = r THEN Idle ELSE [tx[s] EXCEPT !.behind = @ \ {r}]]

AuthoringNext ==
    \E r \in Requests :
        \/ \E topics \in SUBSET Topics \ {{}} : UpdateTopics(r, topics)
        \/ \E n \in Counts : UpdateCount(r, n)
        \/ \E q \in Questions, topic \in Topics : AddQuestion(r, q, topic) \/ UpdateTopic(r, q, topic)
        \/ \E p, q \in Questions : AddFollowUp(r, p, q)
        \/ \E q \in Questions : UpdateActive(r, q) \/ DeleteQuestion(r, q)
        \/ \E order \in SetToSeqs(Primaries) : Reorder(r, order)
        \/ Publish(r) \/ Unpublish(r) \/ Delete(r)
        \/ \E cs \in SUBSET Candidates : Assign(r, cs)
        \/ \E c \in Candidates : UnassignCandidate(r, c) \/ StartSession(r, c)
        \/ Commit(r) \/ RollBack(r)

AuthoringSpec == AuthoringInit /\ [][AuthoringNext]_authoringVars

===============================================================================
