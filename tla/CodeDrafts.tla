------------------------------ MODULE CodeDrafts ------------------------------
(***************************************************************************)
(* The code of one coding question between the page and the server: the    *)
(* autosave of useCodingQuestion.ts, the backup in local storage           *)
(* (codingLogic.ts), and the revision the server checks (drafts.py).  A    *)
(* page is one mount of the hook: pages follow each other when the         *)
(* candidate leaves the question and returns, and stand side by side in    *)
(* two windows; what a page that was left had under way still happens.     *)
(*                                                                         *)
(* A text is a number, its language included; 0 is the starter code.       *)
(***************************************************************************)
EXTENDS DraftState

CONSTANTS
    None,
    MaxEdits,       \* bound: texts the candidate types
    MaxSaves,       \* bound: saves that are sent
    MaxFailures     \* bound: requests without an answer

\* The sentinel is no text and no answer.
ConstantsFit ==
    /\ None \notin Nat /\ None \notin {"stored", "conflict", "locked"}
    /\ MaxEdits \in Nat /\ MaxSaves \in Nat /\ MaxFailures \in Nat

-----------------------------------------------------------------------------
Texts == 0..Len(before)

Copy == [text : Texts, revision : Nat]

SaveStates == {"saved", "saving", "unsaved", "offline", "conflict"}

Page == [mounted : {"no", "loading", "yes", "left", "dead"}, shown : Texts, revision : Nat,
         pending : Texts \cup {None}, state : SaveStates]

Put == [text : Texts, base : Nat, answer : {None, "stored", "conflict", "locked"}, revision : Nat]

TypeOK ==
    /\ draft \in Copy /\ backup \in Copy \cup {None}
    /\ open \in BOOLEAN
    /\ page \in [Pages -> Page]
    /\ put \in [Pages -> Put \cup {None}]
    /\ get \in [Pages -> {None} \cup [for : {"load", "reload"}, answer : Copy \cup {None}]]
    /\ crossed \in BOOLEAN
    /\ before \in Seq(SUBSET Texts)
    /\ sent \in 0..MaxSaves /\ failures \in 0..MaxFailures

Unmounted == [mounted |-> "no", shown |-> 0, revision |-> 0, pending |-> None, state |-> "saved"]

Init ==
    /\ draft = [text |-> 0, revision |-> 0]
    /\ open = TRUE /\ backup = None
    /\ page = [p \in Pages |-> Unmounted]
    /\ put = [p \in Pages |-> None]
    /\ get = [p \in Pages |-> None]
    /\ crossed = FALSE /\ before = <<>>
    /\ sent = 0 /\ failures = 0

-----------------------------------------------------------------------------
(* Reading *)

Read(p, for) ==
    /\ get[p] = None
    /\ get' = [get EXCEPT ![p] = [for |-> for, answer |-> None]]

Mount(p) ==
    /\ page[p].mounted = "no"
    /\ page' = [page EXCEPT ![p].mounted = "loading"]
    /\ Read(p, "load")
    /\ UNCHANGED <<draft, open, backup, put, crossed, before, sent, failures>>

\* reloadFromServer, offered after a conflict.
Reload(p) ==
    /\ Mounted(p) /\ page[p].state = "conflict"
    /\ Read(p, "reload")
    /\ UNCHANGED <<draft, open, backup, page, put, crossed, before, sent, failures>>

\* coding_question
AnswerRead(p) ==
    /\ get[p] # None /\ get[p].answer = None
    /\ get' = [get EXCEPT ![p].answer = draft]
    /\ UNCHANGED <<draft, open, backup, page, put, crossed, before, sent, failures>>

\* Mutant: any backup is shown, however old.
AnyBackup(server) == backup # None

\* initialCode: the backup holds edits that have not reached the server.
Newer(server) ==
    /\ backup # None
    /\ backup.revision >= server.revision

\* What the page opens with.
Loaded(server) ==
    IF Newer(server) /\ backup.text # server.text
    THEN [mounted |-> "yes", shown |-> backup.text, revision |-> server.revision,
          pending |-> backup.text, state |-> "unsaved"]
    ELSE [mounted |-> "yes", shown |-> server.text, revision |-> server.revision,
          pending |-> None, state |-> "saved"]

ReceiveRead(p) ==
    /\ get[p] # None /\ get[p].answer # None
    /\ get' = [get EXCEPT ![p] = None]
    /\ crossed' = (crossed \/ (get[p].for = "reload" /\ put[p] # None))
    /\ page' = [page EXCEPT ![p] =
          IF @.mounted \in {"left", "dead"} THEN @
          ELSE IF get[p].for = "load" THEN Loaded(get[p].answer)
          ELSE [@ EXCEPT !.shown = get[p].answer.text, !.revision = get[p].answer.revision,
                         !.pending = None, !.state = "saved"]]
    /\ UNCHANGED <<draft, open, backup, put, before, sent, failures>>

-----------------------------------------------------------------------------
(* Editing and saving *)

Edit(p) ==
    /\ Mounted(p) /\ Len(before) < MaxEdits
    /\ LET shown == page[p].shown
           new == Len(before) + 1 IN
       /\ before' = Append(before, {shown} \cup IF shown = 0 THEN {} ELSE before[shown])
       /\ page' = [page EXCEPT ![p].shown = new, ![p].pending = new,
                               ![p].state = IF @ = "conflict" THEN @ ELSE "unsaved"]
       /\ backup' = [text |-> new, revision |-> page[p].revision]
    /\ UNCHANGED <<draft, open, put, get, crossed, sent, failures>>

\* flush: by the timer, a retry, or on leaving the window.
Flushed(p) ==
    /\ page[p].pending # None /\ put[p] = None /\ sent < MaxSaves
    /\ put' = [put EXCEPT ![p] = [text |-> page[p].pending, base |-> page[p].revision,
                                  answer |-> None, revision |-> 0]]
    /\ sent' = sent + 1

Flush(p) ==
    /\ Mounted(p)
    /\ Flushed(p)
    /\ page' = [page EXCEPT ![p].pending = None, ![p].state = "saving"]
    /\ UNCHANGED <<draft, open, backup, get, crossed, before, failures>>

\* Leaving the question saves what is pending, unless a save is under way.
Leave(p) ==
    /\ Mounted(p)
    /\ page' = [page EXCEPT ![p].mounted = "left", ![p].pending = IF put[p] = None THEN None ELSE @]
    /\ \/ Flushed(p)
       \/ /\ page[p].pending = None \/ put[p] # None
          /\ UNCHANGED <<put, sent>>
    /\ UNCHANGED <<draft, open, backup, get, crossed, before, failures>>

\* The window is closed or the app dies: the backup is left, and what is on its way to the server.
Die(p) ==
    /\ Mounted(p)
    /\ page' = [page EXCEPT ![p].mounted = "dead", ![p].pending = None]
    /\ UNCHANGED <<draft, open, backup, put, get, crossed, before, sent, failures>>

Current(base) == base = draft.revision

\* DraftService.save, with the attempt's row locked.
Save(p) ==
    /\ put[p] # None /\ put[p].answer = None
    /\ IF open /\ Current(put[p].base)
       THEN /\ draft' = [text |-> put[p].text, revision |-> draft.revision + 1]
            /\ put' = [put EXCEPT ![p].answer = "stored", ![p].revision = draft.revision + 1]
       ELSE /\ put' = [put EXCEPT ![p].answer = IF open THEN "conflict" ELSE "locked"]
            /\ UNCHANGED draft
    /\ UNCHANGED <<open, backup, page, get, crossed, before, sent, failures>>

\* Mutant: what was typed while the save was under way is forgotten.
AlwaysSaved(p) == "saved"

AfterSave(p) == IF page[p].pending # None THEN "unsaved" ELSE "saved"

\* A page that was left still writes the backup.
Stored(p) ==
    /\ put[p] # None /\ put[p].answer = "stored"
    /\ put' = [put EXCEPT ![p] = None]
    /\ page' = [page EXCEPT ![p].revision = put[p].revision, ![p].state = AfterSave(p)]
    /\ backup' = IF page[p].mounted = "dead" THEN backup
                  ELSE [text |-> put[p].text, revision |-> put[p].revision]
    /\ UNCHANGED <<draft, open, get, crossed, before, sent, failures>>

Refused(p) ==
    /\ put[p] # None /\ put[p].answer \in {"conflict", "locked"}
    /\ put' = [put EXCEPT ![p] = None]
    /\ page' = [page EXCEPT ![p].state =
                    IF put[p].answer = "conflict" THEN "conflict" ELSE "unsaved"]
    /\ UNCHANGED <<draft, open, backup, get, crossed, before, sent, failures>>

\* The request or its answer is lost: kept for a retry, unless newer text is there.
Fail(p) ==
    /\ put[p] # None /\ failures < MaxFailures
    /\ failures' = failures + 1
    /\ put' = [put EXCEPT ![p] = None]
    /\ page' = [page EXCEPT ![p].pending = IF @ = None THEN put[p].text ELSE @,
                            ![p].state = "offline"]
    /\ UNCHANGED <<draft, open, backup, get, crossed, before, sent>>

\* The exam ends or is put on hold.
Lock ==
    /\ open
    /\ open' = FALSE
    /\ UNCHANGED <<draft, backup, page, put, get, crossed, before, sent, failures>>

Next ==
    \/ \E p \in Pages :
          \/ Mount(p) \/ Reload(p) \/ AnswerRead(p) \/ ReceiveRead(p)
          \/ Edit(p) \/ Flush(p) \/ Leave(p) \/ Die(p)
          \/ Save(p) \/ Stored(p) \/ Refused(p) \/ Fail(p)
    \/ Lock

Spec == Init /\ [][Next]_draftVars
=============================================================================
