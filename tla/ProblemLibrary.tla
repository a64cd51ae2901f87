---------------------------- MODULE ProblemLibrary ----------------------------
(***************************************************************************)
(* One problem of the coding library: its versions, the validation of a     *)
(* draft on the runner, its publication, and the exams that pin it         *)
(* (CodingProblemService, and ExecutionService for VALIDATE jobs).          *)
(*                                                                         *)
(* A request reads, decides and flushes what it writes, and commits later: *)
(* open is the list of the requests in between, in the order they flushed. *)
(***************************************************************************)
EXTENDS Naturals, SequencesExt

CONSTANTS
    Solutions,    \* reference solutions, standing for every field of VersionUpdate
    Inputs,       \* the input of a test
    Outputs,      \* the output expected of it
    None,
    MaxVersions,  \* bound: version numbers
    MaxJobs,      \* bound: validations requested
    MaxEdits,     \* bound: edits requested
    MaxOpen       \* bound: requests under way at once

VARIABLES
    versions,     \* rows of coding_problem_versions by number; none: the problem is deleted
    pinned,       \* versions some exam's question names
    jobs,         \* VALIDATE rows of code_executions, in the order they were created
    open,         \* requests that have flushed and not committed
    edits         \* edits requested so far

vars == <<versions, pinned, jobs, open, edits>>

-----------------------------------------------------------------------------
\* One sample and one hidden test; which of them a version has is the domain of its tests.
TestIds == {"PUBLIC", "HIDDEN"}

Test == [input : Inputs, output : Outputs]

\* validated: None, or the job that validated the version and the outputs it was judged by.
\* crossed, a ghost: an edit of the version was under way beside its publication.
Draft(solution, tests) ==
    [status |-> "DRAFT", solution |-> solution, tests |-> tests, validated |-> None,
     crossed |-> FALSE]

\* What a request writes: columns of its version, inserted or changed tests, deleted tests,
\* a job, a new version, deleted versions.  touches: the version's own row is updated, which
\* locks it and sets updated_at; outdates: the jobs that are older than that.
NoWrite == [kind |-> "edit", version |-> 0, columns |-> <<>>, rows |-> <<>>, gone |-> {},
            job |-> 0, new |-> <<>>, drops |-> {}, touches |-> FALSE, outdates |-> {}]

\* create leaves an empty draft; one that has been written stands beside it.
Init ==
    /\ \E t \in Test, s \in Solutions :
          versions \in {<<Draft(None, <<>>)>>, <<Draft(s, [i \in TestIds |-> t])>>}
    /\ pinned = {}
    /\ jobs = <<>>
    /\ open = <<>>
    /\ edits = 0

-----------------------------------------------------------------------------
IsDraft(v) == v \in DOMAIN versions /\ versions[v].status = "DRAFT"

Jobs(v) == {j \in DOMAIN jobs : jobs[j].version = v /\ jobs[j].state # "gone"}

InFlight(j) == jobs[j].state \in {"queued", "running"}

Open == ToSet(open)

\* Two requests for one version, one of which edits it.
Crosses(w, kind) == \E o \in Open : o.version = w.version /\ o.kind = kind

\* The columns a request changed, on top of the row as it has become.
Over(row, columns) == [f \in DOMAIN row |-> IF f \in DOMAIN columns THEN columns[f] ELSE row[f]]

\* A request has flushed w.  What it leaves uncommitted meets an edit, or the edit meets it.
Decide(w) ==
    /\ Len(open) < MaxOpen
    /\ open' = Append(open, w)
    /\ versions' = [v \in DOMAIN versions |->
                      IF \/ w.kind = "publish" /\ v = w.version /\ Crosses(w, "edit")
                         \/ w.kind = "edit" /\ v = w.version /\ Crosses(w, "publish")
                      THEN [versions[v] EXCEPT !.crossed = TRUE] ELSE versions[v]]
    /\ UNCHANGED pinned

\* The updated version row, with the time of the flush.
Touching(w) == [w EXCEPT !.touches = TRUE, !.outdates = Jobs(w.version)]

\* version.validated_at = None: an update of the row, unless it already was None as read and
\* nothing else of the row changes.
Unvalidated(v, w) ==
    IF versions[v].validated = None /\ w.columns = <<>> THEN w
    ELSE Touching([w EXCEPT !.columns =
            [f \in {"validated"} \cup DOMAIN w.columns |->
                IF f = "validated" THEN None ELSE w.columns[f]]])

\* An edit of a draft; verdicts of its jobs that are being written are crossed by it.
Edit(v, w) ==
    /\ IsDraft(v)
    /\ edits < MaxEdits
    /\ edits' = edits + 1
    /\ Decide(Unvalidated(v, [w EXCEPT !.version = v]))
    /\ jobs' = [j \in DOMAIN jobs |->
                  IF \E o \in Open : o.kind = "verdict" /\ o.version = v /\ o.job = j
                  THEN [jobs[j] EXCEPT !.crossed = TRUE] ELSE jobs[j]]

UpdateVersion(v, solution) ==
    /\ IsDraft(v) /\ solution # versions[v].solution
    /\ Edit(v, [NoWrite EXCEPT !.columns = [solution |-> solution]])

AddTest(v, t, test) ==
    /\ IsDraft(v) /\ t \notin DOMAIN versions[v].tests
    /\ ~\E o \in Open : o.version = v /\ t \in DOMAIN o.rows
    /\ Edit(v, [NoWrite EXCEPT !.rows = [x \in {t} |-> test]])

UpdateTest(v, t, test) ==
    /\ IsDraft(v) /\ t \in DOMAIN versions[v].tests
    /\ test # versions[v].tests[t]
    /\ Edit(v, [NoWrite EXCEPT !.rows =
             [x \in {t} |-> [f \in {g \in DOMAIN test : test[g] # versions[v].tests[t][g]} |-> test[f]]]])

DeleteTest(v, t) ==
    /\ IsDraft(v) /\ t \in DOMAIN versions[v].tests
    /\ Edit(v, [NoWrite EXCEPT !.gone = {t}])

-----------------------------------------------------------------------------
\* new_version: the next draft, a copy of the newest version.
NewVersion ==
    /\ versions # <<>>
    /\ ~\E v \in DOMAIN versions : IsDraft(v)
    /\ LET newest == Max(DOMAIN versions)
       IN  /\ newest < MaxVersions
           /\ Decide([NoWrite EXCEPT !.kind = "new", !.new =
             [v \in {newest + 1} |-> Draft(versions[newest].solution, versions[newest].tests)]])
    /\ UNCHANGED <<jobs, edits>>

\* publish_issues, but for wording, languages and MAX_TEST_CASES.
Publishable(v) ==
    /\ DOMAIN versions[v].tests = TestIds
    /\ versions[v].solution # None => versions[v].validated # None

Publish(v) ==
    /\ IsDraft(v)
    /\ Publishable(v)
    /\ Decide(Touching([NoWrite EXCEPT !.kind = "publish", !.version = v,
                                       !.columns = [status |-> "PUBLISHED"]]))
    /\ UNCHANGED <<jobs, edits>>

DiscardDraft(v) ==
    /\ IsDraft(v)
    /\ Cardinality(DOMAIN versions) > 1
    /\ Decide([NoWrite EXCEPT !.kind = "drop", !.version = v, !.drops = {v}, !.touches = TRUE])
    /\ UNCHANGED <<jobs, edits>>

\* delete: refused while an exam uses the problem.
Delete ==
    /\ versions # <<>>
    /\ pinned = {}
    /\ Decide([NoWrite EXCEPT !.kind = "delete"])
    /\ UNCHANGED <<jobs, edits>>

\* add_coding_question and set_coding_version of an exam: a published version.
Pin(v) ==
    /\ v \in DOMAIN versions \ pinned
    /\ versions[v].status = "PUBLISHED"
    /\ pinned' = pinned \cup {v}
    /\ UNCHANGED <<versions, jobs, open, edits>>

-----------------------------------------------------------------------------
\* request_validation: one at a time, as far as this request sees.  The job carries the
\* solution; it is crossed if an edit has flushed before it and commits after it.
RequestValidation(v) ==
    /\ v \in DOMAIN versions
    /\ versions[v].solution # None
    /\ versions[v].tests # <<>>
    /\ ~\E j \in Jobs(v) : InFlight(j)
    /\ Len(jobs) < MaxJobs
    /\ Decide([NoWrite EXCEPT !.kind = "validate", !.version = v, !.job = Len(jobs) + 1])
    /\ jobs' = Append(jobs, [version |-> v, state |-> "new", solution |-> versions[v].solution,
                             inputs |-> <<>>, outdated |-> FALSE,
                             crossed |-> Crosses([version |-> v], "edit")])
    /\ UNCHANGED edits

\* claim: the runner is given the inputs of the moment.  A lease may be over at any time.
Claim(j) ==
    /\ InFlight(j)
    /\ ~\E o \in Open : o.job = j
    /\ jobs' = [jobs EXCEPT ![j].state = "running",
                            ![j].inputs = [t \in DOMAIN versions[jobs[j].version].tests |->
                                             versions[jobs[j].version].tests[t].input]]
    /\ UNCHANGED <<versions, pinned, open, edits>>

\* Mutant of StillStands: an accepted run always counts.
AnyRunStands(j) == TRUE

\* version.updated_at <= execution.created_at
StillStands(j) == ~jobs[j].outdated

\* complete, accepted: every test as it is now has a result that matches its output.
Accept(j) ==
    /\ jobs[j].state = "running"
    /\ ~\E o \in Open : o.job = j
    /\ LET v == jobs[j].version
           judged == [t \in DOMAIN versions[v].tests |-> versions[v].tests[t].output]
           verdict == [NoWrite EXCEPT !.kind = "verdict", !.version = v, !.job = j]
       IN  /\ DOMAIN judged \subseteq DOMAIN jobs[j].inputs
           /\ Decide(IF StillStands(j)
                     THEN Touching([verdict EXCEPT !.columns =
                                      [validated |-> [job |-> j, outputs |-> judged]]])
                     ELSE verdict)
           /\ jobs' = [jobs EXCEPT ![j].crossed = @ \/ Crosses(verdict, "edit")]
    /\ UNCHANGED edits

\* complete with any other verdict, an error reported, or too many claims.
Reject(j) ==
    /\ InFlight(j)
    /\ ~\E o \in Open : o.job = j
    /\ jobs' = [jobs EXCEPT ![j].state = "done"]
    /\ UNCHANGED <<versions, pinned, open, edits>>

-----------------------------------------------------------------------------
\* The requests that have not committed, without the i-th; those whose version is gone can
\* only fail.
Rest(i, drops) ==
    [k \in 1..(Len(open) - 1) |->
        LET o == RemoveAt(open, i)[k]
        IN  IF o.version \in drops THEN [o EXCEPT !.version = 0] ELSE o]

\* A row that another request has updated is waited for, and one that is gone not updated.
\* The keys: one draft of a problem, one version of a number, no version that is pinned deleted.
Admits(i) ==
    LET w == open[i]
    IN  /\ w.kind \notin {"new", "delete"} => w.version \in DOMAIN versions
        /\ w.touches => ~\E k \in 1..(i - 1) : open[k].touches /\ open[k].version = w.version
        /\ w.rows # <<>> => \A t \in DOMAIN w.rows :
              t \in DOMAIN versions[w.version].tests \/ w.rows[t] \in Test
        /\ w.new # <<>> => /\ versions # <<>>
                           /\ ~\E v \in DOMAIN versions : IsDraft(v)
                           /\ DOMAIN w.new \cap DOMAIN versions = {}

\* Mutant of Releases: a question that names the version goes with it.
AlwaysReleases(w) == TRUE

\* ON DELETE RESTRICT
Releases(w) == w.drops \cap pinned = {}

Written(w, version) ==
    LET rows == [t \in (DOMAIN version.tests \cup DOMAIN w.rows) \ w.gone |->
                   IF t \notin DOMAIN w.rows THEN version.tests[t]
                   ELSE IF t \in DOMAIN version.tests THEN Over(version.tests[t], w.rows[t])
                   ELSE w.rows[t]]
    IN  Over([version EXCEPT !.tests = rows], w.columns)

\* A request commits.  Its jobs go with a version.
Commit(i) ==
    LET w == open[i]
        drops == IF w.kind = "delete" THEN DOMAIN versions ELSE w.drops
    IN  /\ Admits(i)
        /\ Releases([w EXCEPT !.drops = drops])
        /\ open' = Rest(i, drops)
        /\ versions' = [v \in (DOMAIN versions \cup DOMAIN w.new) \ drops |->
                          IF v \in DOMAIN w.new THEN w.new[v]
                          ELSE IF v = w.version THEN Written(w, versions[v]) ELSE versions[v]]
        /\ jobs' = [j \in DOMAIN jobs |->
                      IF jobs[j].version \in drops THEN [jobs[j] EXCEPT !.state = "gone"]
                      ELSE IF j = w.job
                      THEN [jobs[j] EXCEPT !.state = IF w.kind = "validate" THEN "queued" ELSE "done"]
                      ELSE [jobs[j] EXCEPT !.outdated = @ \/ j \in w.outdates]]
        /\ UNCHANGED <<pinned, edits>>

\* A constraint, a lost connection or a crash: nothing is written.
RollBack(i) ==
    /\ open' = RemoveAt(open, i)
    /\ jobs' = IF open[i].kind = "validate" THEN [jobs EXCEPT ![open[i].job].state = "gone"] ELSE jobs
    /\ UNCHANGED <<versions, pinned, edits>>

Next ==
    \/ \E v \in 1..MaxVersions :
          \/ \E s \in Solutions \cup {None} : UpdateVersion(v, s)
          \/ \E t \in TestIds :
                \/ DeleteTest(v, t)
                \/ \E test \in Test : AddTest(v, t, test) \/ UpdateTest(v, t, test)
          \/ Publish(v) \/ DiscardDraft(v) \/ Pin(v) \/ RequestValidation(v)
    \/ NewVersion \/ Delete
    \/ \E j \in DOMAIN jobs : Claim(j) \/ Accept(j) \/ Reject(j)
    \/ \E i \in DOMAIN open : Commit(i) \/ RollBack(i)

Spec == Init /\ [][Next]_vars

-----------------------------------------------------------------------------
\* Type invariant.
TypeOK ==
    /\ \A v \in DOMAIN versions :
          /\ v \in 1..MaxVersions
          /\ versions[v].status \in {"DRAFT", "PUBLISHED"}
          /\ versions[v].solution \in Solutions \cup {None}
          /\ \A t \in DOMAIN versions[v].tests : t \in TestIds /\ versions[v].tests[t] \in Test
    /\ Cardinality({v \in DOMAIN versions : IsDraft(v)}) <= 1
    /\ \A j \in DOMAIN jobs : jobs[j].state \in {"new", "queued", "running", "done", "gone"}

\* A validation that no edit overlapped is one of the solution and of the expected outputs the
\* version has: an edit after the request, or after the verdict, leaves none
\* (ExecutionService.complete: "Only a validation of the version as it still stands counts").
ValidatedAsItStands ==
    \A v \in DOMAIN versions :
        LET by == versions[v].validated
        IN  by # None /\ ~jobs[IF by = None THEN 1 ELSE by.job].crossed =>
              /\ jobs[by.job].solution = versions[v].solution
              /\ \A t \in DOMAIN versions[v].tests :
                    t \in DOMAIN by.outputs /\ by.outputs[t] = versions[v].tests[t].output

\* A version whose publication no edit overlapped never changes again, and a version that an
\* exam examines is there (draft, discard_draft, delete and the foreign key of questions).
PublishedStands ==
    [][/\ pinned \subseteq DOMAIN versions'
       /\ \A v \in DOMAIN versions \cap DOMAIN versions' :
            versions[v].status = "PUBLISHED" /\ ~versions[v].crossed =>
              /\ versions'[v].status = "PUBLISHED"
              /\ versions'[v].solution = versions[v].solution
              /\ versions'[v].tests = versions[v].tests]_vars

\* The same of the inputs: an input changed on a draft that is not validated yet, after the
\* runner was given the old one.
InputsValidated ==
    \A v \in DOMAIN versions :
        LET by == versions[v].validated
        IN  by # None /\ ~jobs[IF by = None THEN 1 ELSE by.job].crossed =>
              \A t \in DOMAIN versions[v].tests :
                 jobs[by.job].inputs[t] = versions[v].tests[t].input
=============================================================================
