------------------------------ MODULE ExamClient ------------------------------
(***************************************************************************)
(* The exam page of the desktop app against the server: the attempt it     *)
(* loads (useExam.ts, ExamAttemptPage.tsx), the answers it saves, the      *)
(* clock it asks again (useExamClock.ts), the submission (ExamRunner.tsx)  *)
(* and the hold it follows (useAttemptControl.ts).  The server handles a   *)
(* request in one step (ExamAttempt has what happens inside); what the     *)
(* page does in between, and what the network does to its requests, is     *)
(* what this module is about.                                              *)
(*                                                                         *)
(* One question; a selection is named by its number, 0 being none.  The    *)
(* exam's card and the proctoring check before the paper are left out.     *)
(***************************************************************************)
EXTENDS Naturals, Sequences

CONSTANTS
    None,
    MaxCalls,   \* bound: requests under way at a time
    MaxEdits,   \* bound: selections the candidate makes
    MaxHolds,   \* bound: times the exam is put on hold
    MaxFaults   \* bound: requests that fail and restarts of the app

VARIABLES
    attempt,    \* the server's attempt
    late,       \* its deadline has passed
    calls,      \* requests under way and their answers
    pushes,     \* ATTEMPT_CONTROL messages on their way to the page
    page,       \* what ExamAttemptPage shows
    shown,      \* useAnswers: the selection on screen
    save,       \* its save state
    clock,      \* useExamClock: the attempt is open
    held,       \* useAttemptControl: the exam is on hold
    over,       \* ghost: the candidate has seen the end of the exam
    edits, holds, faults

vars == <<attempt, late, calls, pushes, page, shown, save, clock, held, over, edits, holds, faults>>

-----------------------------------------------------------------------------
Selections == 0..MaxEdits
Slots == 1..MaxCalls

\* mine: the answer was sent by the paper on screen and not given up since.
Attempt == [status : {"IN_PROGRESS", "SUBMITTED", "TIME_EXPIRED"}, held : BOOLEAN,
            answer : Selections, mine : BOOLEAN]

\* What a request may tell the page of the attempt.
Read == [finished : BOOLEAN, held : BOOLEAN, answer : Selections]

\* next: what a save sends after its answer.  stray: the page does not wait any more.
Call == [kind : {"load", "clock", "control", "put", "submit"},
         value : Selections, next : Selections \cup {None}, mine : BOOLEAN,
         at : {"sent", "answered", "stray"},
         said : {None, "ok", "attempt_locked", "attempt_on_hold"}, read : Read \cup {None}]

\* crossed: the screen of the end has given way to a failed reload, while an answer that was read
\* before the end is still to come.
Endings == {"unseen", "seen", "crossed"}

StateOK ==
    /\ attempt \in Attempt /\ late \in BOOLEAN
    /\ calls \in [Slots -> Call \cup {None}]
    /\ pushes \in Seq(BOOLEAN)
    /\ page \in {"loading", "error", "paper", "finished"}
    /\ shown \in Selections
    /\ save \in {"idle", "saving", "saved", "error"}
    /\ clock \in BOOLEAN /\ held \in BOOLEAN
    /\ edits \in 0..MaxEdits /\ holds \in 0..MaxHolds /\ faults \in 0..MaxFaults

TypeOK == StateOK /\ over \in Endings

Asked(kind, value) ==
    [kind |-> kind, value |-> value, next |-> None, mine |-> TRUE, at |-> "sent",
     said |-> None, read |-> None]

Init ==
    /\ attempt = [status |-> "IN_PROGRESS", held |-> FALSE, answer |-> 0, mine |-> TRUE]
    /\ late = FALSE
    /\ calls = [i \in Slots |-> IF i = 1 THEN Asked("load", 0) ELSE None]
    /\ pushes = <<>>
    /\ page = "loading" /\ shown = 0 /\ save = "idle" /\ clock = TRUE /\ held = FALSE
    /\ over = "unseen"
    /\ edits = 0 /\ holds = 0 /\ faults = 0

UnderWay(i) == calls[i] # None
Awaited(i, kind) == UnderWay(i) /\ calls[i].kind = kind /\ calls[i].at # "stray"

\* The calls once a request is sent in a slot that is free.
Send(before, kind, value) ==
    LET free == {i \in Slots : before[i] = None}
        first == CHOOSE i \in free : \A j \in free : i <= j IN
    /\ free # {}
    /\ calls' = [before EXCEPT ![first] = Asked(kind, value)]

Without(i) == [calls EXCEPT ![i] = None]

\* The paper leaves the screen: what it waits for no longer reaches it.
Unmounted(these) == [i \in Slots |-> IF these[i] = None THEN None ELSE [these[i] EXCEPT !.mine = FALSE]]

-----------------------------------------------------------------------------
(* The server *)

Finished(a) == a.status # "IN_PROGRESS"

\* AttemptDetail for the paper, of which AttemptSession has the status and the control.
ReadBy(kind, a) ==
    [finished |-> Finished(a) /\ kind \in {"load", "clock", "submit"},
     held |-> a.held /\ kind \in {"load", "control"},
     answer |-> IF kind = "load" THEN a.answer ELSE 0]

\* Every request of the candidate applies the clock first.
Settled == IF late /\ ~Finished(attempt) THEN [attempt EXCEPT !.status = "TIME_EXPIRED"] ELSE attempt

\* save_answer
Saved(a, c) ==
    IF Finished(a) THEN <<"attempt_locked", a>>
    ELSE IF a.held THEN <<"attempt_on_hold", a>>
    ELSE <<"ok", [a EXCEPT !.answer = c.value, !.mine = c.mine /\ c.at = "sent"]>>

\* submit
Submitted(a) ==
    IF a.status = "SUBMITTED" THEN <<"ok", a>>
    ELSE IF a.status = "TIME_EXPIRED" THEN <<"attempt_locked", a>>
    ELSE IF a.held THEN <<"attempt_on_hold", a>>
    ELSE <<"ok", [a EXCEPT !.status = "SUBMITTED"]>>

Handled(c) ==
    CASE c.kind = "put" -> Saved(Settled, c)
      [] c.kind = "submit" -> Submitted(Settled)
      [] OTHER -> <<"ok", Settled>>

Serve(i) ==
    /\ UnderWay(i) /\ calls[i].at \in {"sent", "stray"}
    /\ LET outcome == Handled(calls[i]) IN
       /\ attempt' = outcome[2]
       /\ calls' = [calls EXCEPT ![i] =
             IF @.at = "stray" THEN None
             ELSE [@ EXCEPT !.at = "answered", !.said = outcome[1], !.read = ReadBy(calls[i].kind, outcome[2])]]
    /\ UNCHANGED <<late, pushes, page, shown, save, clock, held, edits, holds, faults>>

Deadline ==
    /\ late = FALSE /\ late' = TRUE
    /\ UNCHANGED <<attempt, calls, pushes, page, shown, save, clock, held, edits, holds, faults>>

\* attempt_control: the page is told, if its socket is open.
Control(a) ==
    /\ attempt' = a
    /\ \/ pushes' = Append(pushes, a.held)
       \/ UNCHANGED pushes
    /\ UNCHANGED <<late, calls, page, shown, save, clock, held, edits, faults>>

Hold ==
    /\ ~Finished(Settled) /\ ~attempt.held /\ holds < MaxHolds
    /\ Control([attempt EXCEPT !.held = TRUE])
    /\ holds' = holds + 1

Release ==
    /\ ~Finished(Settled) /\ attempt.held
    /\ Control([attempt EXCEPT !.held = FALSE])
    /\ UNCHANGED holds

\* An administrator ends the exam.
End ==
    /\ ~Finished(Settled)
    /\ Control([attempt EXCEPT !.status = "SUBMITTED"])
    /\ UNCHANGED holds

-----------------------------------------------------------------------------
(* What the candidate and the timers do *)

\* Mutant: a save is sent at once.
NeverQueued == FALSE

\* useAnswers: one request at a time, the latest selection next.
Queued == \E i \in Slots : Awaited(i, "put") /\ calls[i].mine

Flush(value) ==
    IF Queued
    THEN /\ calls' = [i \in Slots |-> IF Awaited(i, "put") /\ calls[i].mine
                                       THEN [calls[i] EXCEPT !.next = value] ELSE calls[i]]
         /\ UNCHANGED save
    ELSE Send(calls, "put", value) /\ save' = "saving"

Select ==
    /\ page = "paper" /\ ~held /\ edits < MaxEdits
    /\ edits' = edits + 1
    /\ shown' = edits + 1
    /\ Flush(edits + 1)
    /\ UNCHANGED <<attempt, late, pushes, page, clock, held, holds, faults>>

Retry ==
    /\ page = "paper" /\ ~held /\ save = "error"
    /\ Flush(shown)
    /\ UNCHANGED <<attempt, late, pushes, page, shown, clock, held, edits, holds, faults>>

Asks(kind) ==
    /\ page = "paper"
    /\ Send(calls, kind, 0)
    /\ UNCHANGED <<attempt, late, pushes, page, shown, save, clock, held, edits, holds, faults>>

\* handleSubmit, its button disabled while it waits.
Submit == ~held /\ (\A i \in Slots : ~Awaited(i, "submit")) /\ Asks("submit")

\* useExamClock: every 30 s, sooner at 00:00, and when the window is seen again.
Resync == clock /\ Asks("clock")

\* useAttemptControl: after an absence.
Return == ~held /\ Asks("control")

\* useAttemptControl: every 5 s on hold.
HoldPoll == held /\ Asks("control")

-----------------------------------------------------------------------------
(* Answers *)

\* Mutant: whatever arrives last is shown.
keepNothing(read) == FALSE

\* A finished attempt on screen is not replaced by one read before.
keepFinished(read) == page = "finished" /\ ~read.finished

Mounted(read) ==
    IF page = "paper"
    THEN UNCHANGED <<shown, save, clock, held>>
    ELSE /\ shown' = read.answer /\ save' = "idle"
         /\ clock' = TRUE /\ held' = read.held

\* load and replace
Show(i) ==
    LET read == calls[i].read IN
    IF keepFinished(read)
    THEN calls' = Without(i) /\ UNCHANGED <<page, shown, save, clock, held>>
    ELSE IF read.finished
    THEN /\ page' = "finished" /\ calls' = Unmounted(Without(i))
         /\ UNCHANGED <<shown, save, clock, held>>
    ELSE page' = "paper" /\ calls' = Without(i) /\ Mounted(read)

\* onStale
Reload(i) == Send(Without(i), "load", 0)

LoadAnswered(i) == calls[i].kind = "load" /\ Show(i)

\* The exam has ended meanwhile, as the page learns here.
Ends(i) == clock /\ calls[i].read.finished

ClockAnswered(i) ==
    /\ calls[i].kind = "clock"
    /\ IF page # "paper" \/ ~calls[i].mine
       THEN calls' = Without(i) /\ UNCHANGED clock
       ELSE /\ clock' = ~calls[i].read.finished
            /\ IF Ends(i) THEN Reload(i) ELSE calls' = Without(i)
    /\ UNCHANGED <<page, shown, save, held>>

ControlAnswered(i) ==
    /\ calls[i].kind = "control"
    /\ held' = IF page = "paper" /\ calls[i].mine THEN calls[i].read.held ELSE held
    /\ calls' = Without(i)
    /\ UNCHANGED <<page, shown, save, clock>>

SaveState(i, new) == save' = IF calls[i].mine THEN new ELSE save

\* useAnswers.flush: the loop goes on with what was queued.
SaveAnswered(i) ==
    /\ calls[i].kind = "put"
    /\ CASE calls[i].said = "ok" /\ calls[i].next # None ->
              /\ calls' = [calls EXCEPT ![i] = [Asked("put", @.next) EXCEPT !.mine = calls[i].mine]]
              /\ SaveState(i, "saving")
         [] calls[i].said = "ok" /\ calls[i].next = None ->
              calls' = Without(i) /\ SaveState(i, "saved")
         [] calls[i].said = "attempt_locked" -> Reload(i) /\ SaveState(i, "idle")
         [] calls[i].said = "attempt_on_hold" ->
              /\ IF page = "paper" THEN Send(Without(i), "control", 0) ELSE calls' = Without(i)
              /\ SaveState(i, "error")
    /\ UNCHANGED <<page, shown, clock, held>>

SubmitAnswered(i) ==
    /\ calls[i].kind = "submit"
    /\ IF calls[i].said = "ok" THEN Show(i)
       ELSE Reload(i) /\ UNCHANGED <<page, shown, save, clock, held>>

Receive(i) ==
    /\ UnderWay(i) /\ calls[i].at = "answered"
    /\ \/ LoadAnswered(i) \/ ClockAnswered(i) \/ ControlAnswered(i)
       \/ SaveAnswered(i) \/ SubmitAnswered(i)
    /\ UNCHANGED <<attempt, late, pushes, edits, holds, faults>>

ReceivePush ==
    /\ pushes # <<>>
    /\ pushes' = Tail(pushes)
    /\ held' = IF page = "paper" THEN Head(pushes) ELSE held
    /\ UNCHANGED <<attempt, late, calls, page, shown, save, clock, edits, holds, faults>>

-----------------------------------------------------------------------------
(* Faults *)

Changes(i) == calls[i].kind \in {"put", "submit"}

\* The request may still be on its way to the server.
GivenUp(i) == [calls EXCEPT ![i].at = "stray", ![i].next = None]

\* The page hears of a failure, and calls are as these.
After(i, these) ==
    CASE calls[i].kind = "load" ->
              /\ page' = "error" /\ calls' = Unmounted(these)
              /\ UNCHANGED save
      [] calls[i].kind = "submit" -> Send(these, "load", 0) /\ UNCHANGED <<page, save>>
      [] calls[i].kind = "put" -> calls' = these /\ SaveState(i, "error") /\ UNCHANGED page
      [] OTHER -> calls' = these /\ UNCHANGED <<page, save>>

Fail(i) ==
    /\ UnderWay(i) /\ calls[i].at # "stray" /\ faults < MaxFaults
    /\ faults' = faults + 1
    /\ \/ After(i, Without(i))
       \/ Changes(i) /\ calls[i].at = "sent" /\ After(i, GivenUp(i))
    /\ UNCHANGED <<attempt, late, pushes, shown, clock, held, edits, holds>>

\* The app is started again and opens the exam.
Left(i) ==
    IF UnderWay(i) /\ Changes(i) /\ calls[i].at \in {"sent", "stray"}
    THEN [calls[i] EXCEPT !.at = "stray", !.next = None] ELSE None

Restart ==
    /\ faults < MaxFaults
    /\ faults' = faults + 1
    /\ page' = "loading" /\ pushes' = <<>>
    /\ Send([i \in Slots |-> Left(i)], "load", 0)
    /\ shown' = 0 /\ save' = "idle" /\ clock' = TRUE /\ held' = FALSE
    /\ UNCHANGED <<attempt, late, edits, holds>>

-----------------------------------------------------------------------------
\* An answer to a load that was read while the exam was running, on its way to the page.
Outdated == \E i \in Slots : Awaited(i, "load") /\ calls[i].at = "answered" /\ ~calls[i].read.finished

\* What the candidate has seen, whoever acts.  An app that is started again waits for no such answer.
Watch ==
    over' = IF page' = "finished" \/ (page' = "loading" /\ over # "unseen") THEN "seen"
            ELSE IF page = "finished" /\ page' = "error" /\ Outdated' THEN "crossed"
            ELSE over

Step ==
    \/ \E i \in Slots : Serve(i) \/ Receive(i) \/ Fail(i)
    \/ ReceivePush \/ Deadline \/ Hold \/ Release \/ End
    \/ Select \/ Retry \/ Submit \/ Resync \/ Return \/ HoldPoll
    \/ Restart

Next == Step /\ Watch

Spec == Init /\ [][Next]_vars

-----------------------------------------------------------------------------
\* An answer shown as saved is the one the server has, unless a save that the page had given up
\* arrived after all (useAnswers: one request per question at a time, collapsed to the latest).
AnswerIsStored == page = "paper" /\ save = "saved" /\ attempt.mine => attempt.answer = shown

\* Once the candidate has seen the end of the exam, the paper does not come back, whatever answers
\* arrive, whatever fails and however often the app is started again, unless a reload failed on that
\* screen with an answer from before the end still to come (keepFinished).
EndIsKept == over = "seen" => page # "paper"

\* What useExam.ts says of keepFinished ("a response read before the submit committed ... must not
\* replace it"), and what does not hold: once the candidate has seen the end of the exam, the paper
\* does not come back.  After a reload that failed there is nothing for keepFinished to keep.
NeverBackToPaper == over # "unseen" => page # "paper"

\* A page on the paper of an exam that is over will hear of it: its clock still asks, or the
\* attempt is being loaded again, and an answer to that load is the finished attempt (useExamClock,
\* ExamAttemptPage).
NeverStuck ==
    page = "paper" /\ ~clock
        => \E i \in Slots : Awaited(i, "load") /\ (calls[i].at = "answered" => calls[i].read.finished)
===============================================================================
