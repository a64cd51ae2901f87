-------------------------- MODULE CodeDraftsProofs --------------------------
(***************************************************************************)
(* Newer code is kept and "saved" is true, for any number of windows and   *)
(* visits, edits, saves and lost answers.  A copy of the code that some    *)
(* place keeps with revision r is harmless for one of two reasons: the     *)
(* server's revision is already past r, so that DraftService.save refuses  *)
(* it, or the copy was typed over what the server has (Knows).             *)
(***************************************************************************)
EXTENDS CodeDrafts, TLAPS

\* What was shown to whoever typed text t, t itself included.
History(t) == {t} \cup IF t = 0 THEN {} ELSE before[t]

Knows(t, revision) ==
    /\ revision <= draft.revision
    /\ revision = draft.revision /\ revision > 0 => draft.text \in History(t)

\* A copy the server made or confirmed is what it has, or older.
Exact(copy) ==
    /\ copy.revision <= draft.revision
    /\ copy.revision = draft.revision => copy.text = draft.text

\* Texts are typed one over the other.
HistoryInv ==
    \A t \in 1..Len(before) :
        /\ before[t] \subseteq 0..(t - 1)
        /\ \A s \in before[t] : History(s) \subseteq before[t]

\* The starter code is shown and never sent.
Typed(t) == t \in Texts \ {0}

PhaseInv ==
    \A p \in Pages :
        /\ get[p] # None /\ get[p].for = "load" => page[p].mounted = "loading"
        /\ page[p].mounted \in {"no", "loading"} => put[p] = None
        /\ page[p].mounted = "no" => get[p] = None
        /\ page[p].pending # None => Typed(page[p].pending)
        /\ put[p] # None => Typed(put[p].text)
        /\ get[p] # None /\ get[p].answer # None => Exact(get[p].answer)
        /\ put[p] # None /\ put[p].answer = "stored" =>
              Exact([text |-> put[p].text, revision |-> put[p].revision])

BackupInv == backup # None => Typed(backup.text) /\ (~crossed => Knows(backup.text, backup.revision))

\* While no reloaded draft has crossed a save, a page goes on from what it sent.
PageInv(p) ==
    /\ Knows(page[p].shown, page[p].revision)
    /\ put[p] # None =>
          /\ put[p].text \in History(page[p].shown)
          /\ Knows(put[p].text, put[p].base)
    /\ page[p].mounted # "dead" =>
          /\ page[p].pending # None => page[p].pending = page[p].shown
          /\ put[p] # None /\ page[p].pending = None => page[p].shown = put[p].text
    /\ Mounted(p) /\ page[p].state = "saved" =>
          Exact([text |-> page[p].shown, revision |-> page[p].revision])

DraftsInv ==
    /\ TypeOK /\ HistoryInv /\ PhaseInv /\ BackupInv
    /\ ~crossed => \A p \in Pages : PageInv(p)

-----------------------------------------------------------------------------
(* Histories. *)

LEMMA HistoryGrows ==
    ASSUME TypeOK, HistoryInv, NEW t \in Texts, NEW s \in History(t)
    PROVE  History(s) \subseteq History(t)
BY DEF TypeOK, HistoryInv, History, Texts

LEMMA SameSets == ASSUME UNCHANGED before PROVE UNCHANGED <<Texts, Copy, Page, Put>>
BY DEF Texts, Copy, Page, Put

LEMMA InitDrafts == ASSUME ConstantsFit PROVE Init => DraftsInv
<1> SUFFICES ASSUME Init PROVE DraftsInv
  OBVIOUS
<1>1. Texts = {0}
  BY DEF Init, Texts
<1>2. TypeOK
  <2>1. Unmounted \in Page
    BY <1>1 DEF Unmounted, Page, SaveStates
  <2>2. before \in Seq(SUBSET Texts)
    BY DEF Init
  <2>3. draft \in Copy
    BY <1>1 DEF Init, Copy
  <2>4. sent \in 0..MaxSaves /\ failures \in 0..MaxFailures
    BY DEF Init, ConstantsFit
  <2>5. page \in [Pages -> Page]
    BY <2>1 DEF Init
  <2> QED BY <2>2, <2>3, <2>4, <2>5 DEF Init, TypeOK
<1>3. HistoryInv /\ PhaseInv /\ BackupInv
  BY DEF Init, HistoryInv, PhaseInv, BackupInv, Unmounted
<1>4. ASSUME NEW p \in Pages PROVE PageInv(p)
  <2>1. page[p] = Unmounted /\ put[p] = None /\ draft.text = 0 /\ draft.revision = 0
    BY DEF Init
  <2>2. page[p].shown = 0 /\ page[p].revision = 0 /\ page[p].pending = None
    BY <2>1 DEF Unmounted
  <2> QED BY <2>1, <2>2 DEF PageInv, Knows, Exact
<1> QED BY <1>2, <1>3, <1>4 DEF DraftsInv

-----------------------------------------------------------------------------
(* Reading. *)

LEMMA MountKeeps ==
    ASSUME ConstantsFit, DraftsInv, NEW p \in Pages, Mount(p)
    PROVE  DraftsInv'
<1> USE DEF DraftsInv
<1>1. TypeOK'
  <2>1. page' \in [Pages -> Page]
    BY DEF Mount, TypeOK, Page
  <2>2. [for |-> "load", answer |-> None] \in [for : {"load", "reload"}, answer : Copy \cup {None}]
    OBVIOUS
  <2>3. get' \in [Pages -> {None} \cup [for : {"load", "reload"}, answer : Copy \cup {None}]]
    BY <2>2 DEF Mount, Read, TypeOK
  <2> QED BY <2>1, <2>3, SameSets DEF Mount, TypeOK
<1>2. HistoryInv'
  BY DEF Mount, HistoryInv, History
<1>3. PhaseInv'
  BY DEF Mount, Read, PhaseInv, TypeOK, Page, Typed, Texts, Exact
<1>4. BackupInv'
  BY DEF Mount, BackupInv, Typed, Texts, Knows, History
<1>5. ~crossed' => \A q \in Pages : PageInv(q)'
  BY DEF Mount, PhaseInv, PageInv, TypeOK, Page, Mounted, Knows, History, Exact
<1> QED BY <1>1, <1>2, <1>3, <1>4, <1>5

LEMMA ReloadKeeps ==
    ASSUME ConstantsFit, DraftsInv, NEW p \in Pages, Reload(p)
    PROVE  DraftsInv'
<1> USE DEF DraftsInv
<1>1. TypeOK'
  <2>1. [for |-> "reload", answer |-> None] \in [for : {"load", "reload"}, answer : Copy \cup {None}]
    OBVIOUS
  <2>2. get' \in [Pages -> {None} \cup [for : {"load", "reload"}, answer : Copy \cup {None}]]
    BY <2>1 DEF Reload, Read, TypeOK
  <2> QED BY <2>2, SameSets DEF Reload, TypeOK
<1>2. HistoryInv'
  BY DEF Reload, HistoryInv, History
<1>3. PhaseInv'
  BY DEF Reload, Read, PhaseInv, TypeOK, Mounted, Typed, Texts, Exact
<1>4. BackupInv'
  BY DEF Reload, BackupInv, Typed, Texts, Knows, History
<1>5. ~crossed' => \A q \in Pages : PageInv(q)'
  BY DEF Reload, PageInv, Mounted, Knows, History, Exact
<1> QED BY <1>1, <1>2, <1>3, <1>4, <1>5

LEMMA AnswerReadKeeps ==
    ASSUME ConstantsFit, DraftsInv, NEW p \in Pages, AnswerRead(p)
    PROVE  DraftsInv'
<1> USE DEF DraftsInv
<1>1. TypeOK'
  <2>1. get' \in [Pages -> {None} \cup [for : {"load", "reload"}, answer : Copy \cup {None}]]
    BY DEF AnswerRead, TypeOK
  <2> QED BY <2>1, SameSets DEF AnswerRead, TypeOK
<1>2. HistoryInv'
  BY DEF AnswerRead, HistoryInv, History
<1>3. PhaseInv'
  BY DEF AnswerRead, PhaseInv, TypeOK, Copy, Typed, Texts, Exact
<1>4. BackupInv'
  BY DEF AnswerRead, BackupInv, Typed, Texts, Knows, History
<1>5. ~crossed' => \A q \in Pages : PageInv(q)'
  BY DEF AnswerRead, PageInv, Mounted, Knows, History, Exact
<1> QED BY <1>1, <1>2, <1>3, <1>4, <1>5

\* What a page opens with is typed over what the server has, or is what the server has.
LEMMA LoadedFits ==
    ASSUME ConstantsFit, DraftsInv, NEW server \in Copy, Exact(server)
    PROVE  /\ Loaded(server) \in Page
           /\ Loaded(server).mounted = "yes"
           /\ Loaded(server).pending # None =>
                 Typed(Loaded(server).pending) /\ Loaded(server).pending = Loaded(server).shown
           /\ ~crossed => Knows(Loaded(server).shown, Loaded(server).revision)
           /\ Loaded(server).state = "saved" =>
                 Exact([text |-> Loaded(server).shown, revision |-> Loaded(server).revision])
<1> USE DEF DraftsInv
<1>1. CASE Newer(server) /\ backup.text # server.text
  <2>1. backup \in Copy /\ Typed(backup.text) /\ backup.revision >= server.revision
    BY <1>1 DEF Newer, TypeOK, BackupInv
  <2>2. Loaded(server) = [mounted |-> "yes", shown |-> backup.text, revision |-> server.revision,
                          pending |-> backup.text, state |-> "unsaved"]
    BY <1>1 DEF Loaded
  <2>3. ~crossed => Knows(backup.text, server.revision)
    BY <1>1, <2>1 DEF BackupInv, Newer, Knows, Exact, Copy, TypeOK
  <2> QED BY <2>1, <2>2, <2>3 DEF Page, Copy, SaveStates
<1>2. CASE ~(Newer(server) /\ backup.text # server.text)
  <2>1. Loaded(server) = [mounted |-> "yes", shown |-> server.text, revision |-> server.revision,
                          pending |-> None, state |-> "saved"]
    BY <1>2 DEF Loaded
  <2>2. Knows(server.text, server.revision)
    BY DEF Knows, Exact, History
  <2> QED BY <2>1, <2>2 DEF Page, Copy, SaveStates, Exact
<1> QED BY <1>1, <1>2

LEMMA ReceiveReadKeeps ==
    ASSUME ConstantsFit, DraftsInv, NEW p \in Pages, ReceiveRead(p)
    PROVE  DraftsInv'
<1> USE DEF DraftsInv
<1> DEFINE answer == get[p].answer
           reloaded == [page[p] EXCEPT !.shown = answer.text, !.revision = answer.revision,
                                       !.pending = None, !.state = "saved"]
<1>1. answer \in Copy /\ Exact(answer)
  BY DEF ReceiveRead, TypeOK, PhaseInv
<1>2. CASE page[p].mounted \in {"left", "dead"}
  <2>1. page' = page
    BY <1>2 DEF ReceiveRead, TypeOK
  <2>2. TypeOK'
    <3>1. get' \in [Pages -> {None} \cup [for : {"load", "reload"}, answer : Copy \cup {None}]]
      BY DEF ReceiveRead, TypeOK
    <3>2. crossed' \in BOOLEAN
      BY DEF ReceiveRead, TypeOK
    <3> QED BY <2>1, <3>1, <3>2, SameSets DEF ReceiveRead, TypeOK
  <2>3. HistoryInv'
    BY DEF ReceiveRead, HistoryInv, History
  <2>4. PhaseInv'
    BY <2>1 DEF ReceiveRead, PhaseInv, TypeOK, Typed, Texts, Exact
  <2>5. ~crossed' => ~crossed
    BY DEF ReceiveRead
  <2>6. BackupInv'
    BY <2>5 DEF ReceiveRead, BackupInv, Typed, Texts, Knows, History
  <2>7. ~crossed' => \A q \in Pages : PageInv(q)'
    BY <2>1, <2>5 DEF ReceiveRead, PageInv, Mounted, Knows, History, Exact
  <2> QED BY <2>2, <2>3, <2>4, <2>6, <2>7
<1>3. CASE page[p].mounted \notin {"left", "dead"}
  <2> DEFINE new == IF get[p].for = "load" THEN Loaded(answer) ELSE reloaded
  <2>1. page' = [page EXCEPT ![p] = new]
    BY <1>3 DEF ReceiveRead, TypeOK
  <2>2. /\ new \in Page
        /\ new.pending # None => Typed(new.pending) /\ new.pending = new.shown
        /\ new.mounted \in {"yes", page[p].mounted}
        /\ ~crossed => Knows(new.shown, new.revision)
        /\ new.state = "saved" => Exact([text |-> new.shown, revision |-> new.revision])
    <3>1. CASE get[p].for = "load"
      BY <1>1, <3>1, LoadedFits
    <3>2. CASE get[p].for # "load"
      <4>1. reloaded \in Page /\ reloaded.pending = None /\ reloaded.mounted = page[p].mounted
            /\ reloaded.shown = answer.text /\ reloaded.revision = answer.revision
        <5>1. page[p] \in Page /\ answer.text \in Texts /\ answer.revision \in Nat
          BY <1>1 DEF TypeOK, Copy
        <5> HIDE DEF answer
        <5> QED BY <5>1 DEF Page, SaveStates
      <4>2. Knows(answer.text, answer.revision)
        BY <1>1 DEF Knows, Exact, History
      <4> QED BY <1>1, <3>2, <4>1, <4>2 DEF Exact
    <3> QED BY <3>1, <3>2
  <2>3. page'[p] = new /\ \A q \in Pages \ {p} : page'[q] = page[q]
    BY <2>1 DEF TypeOK
  <2>4. put[p] = None \/ crossed'
    BY <1>3 DEF ReceiveRead, PhaseInv, TypeOK
  <2> HIDE DEF new
  <2>5. TypeOK'
    <3>1. get' \in [Pages -> {None} \cup [for : {"load", "reload"}, answer : Copy \cup {None}]]
      BY DEF ReceiveRead, TypeOK
    <3>2. crossed' \in BOOLEAN
      BY DEF ReceiveRead, TypeOK
    <3>3. page' \in [Pages -> Page]
      BY <2>1, <2>2 DEF TypeOK
    <3> QED BY <3>1, <3>2, <3>3, SameSets DEF ReceiveRead, TypeOK
  <2>6. HistoryInv'
    BY DEF ReceiveRead, HistoryInv, History
  <2>7. PhaseInv'
    <3>1. get'[p] = None /\ \A q \in Pages \ {p} : get'[q] = get[q]
      BY DEF ReceiveRead, TypeOK
    <3>2. page[p].mounted = "no" => get[p] = None
      BY DEF PhaseInv
    <3> QED BY <2>2, <2>3, <3>1, <3>2 DEF ReceiveRead, PhaseInv, Typed, Texts, Exact
  <2>8. ~crossed' => ~crossed
    BY DEF ReceiveRead
  <2>9. BackupInv'
    BY <2>8 DEF ReceiveRead, BackupInv, Typed, Texts, Knows, History
  <2>10. ~crossed' => \A q \in Pages : PageInv(q)'
    <3>1. UNCHANGED <<draft, before, put>>
      BY DEF ReceiveRead
    <3>2. ASSUME ~crossed', NEW q \in Pages \ {p} PROVE PageInv(q)'
      BY <2>3, <2>8, <3>1, <3>2 DEF PageInv, Mounted, Knows, History, Exact
    <3>3. ASSUME ~crossed' PROVE PageInv(p)'
      BY <2>2, <2>3, <2>4, <2>8, <3>1, <3>3 DEF PageInv, Mounted, Knows, History, Exact
    <3> QED BY <3>2, <3>3
  <2> QED BY <2>5, <2>6, <2>7, <2>9, <2>10
<1> QED BY <1>2, <1>3

-----------------------------------------------------------------------------
(* Editing and saving. *)

LEMMA EditKeeps ==
    ASSUME ConstantsFit, DraftsInv, NEW p \in Pages, Edit(p)
    PROVE  DraftsInv'
<1> USE DEF DraftsInv
<1>0. PICK new \in Nat : new = Len(before) + 1
  BY DEF TypeOK
<1> DEFINE shown == page[p].shown
           seen == {shown} \cup IF shown = 0 THEN {} ELSE before[shown]
<1>1. page[p] \in Page /\ shown \in Texts /\ new # 0 /\ new # None /\ new \in 1..new
      /\ Len(before) \in Nat /\ Len(before) = new - 1
  BY <1>0 DEF TypeOK, Page, Texts, ConstantsFit
<1>2. seen \subseteq Texts /\ seen = History(shown)
  BY <1>1 DEF TypeOK, Texts, History
<1>3. /\ before' = Append(before, seen) /\ Len(before') = new
      /\ before'[new] = seen
      /\ \A t \in 1..Len(before) : before'[t] = before[t]
  BY <1>0, <1>1, <1>2 DEF Edit, TypeOK
<1>4. Texts' = Texts \cup {new} /\ new \notin Texts
  BY <1>0, <1>1, <1>3 DEF Texts
<1>5. /\ \A t \in Texts : History(t)' = History(t)
      /\ History(new)' = {new} \cup History(shown)
  <2>1. ASSUME NEW t \in Texts, t # 0 PROVE before'[t] = before[t]
    BY <1>1, <1>3, <2>1 DEF Texts
  <2> QED BY <1>1, <1>2, <1>3, <2>1 DEF History
<1>6. /\ page'[p] = [page[p] EXCEPT !.shown = new, !.pending = new,
                      !.state = IF @ = "conflict" THEN @ ELSE "unsaved"]
      /\ \A q \in Pages \ {p} : page'[q] = page[q]
      /\ page' \in [Pages -> Page']
  <2>1. /\ page' = [page EXCEPT ![p].shown = new, ![p].pending = new,
                             ![p].state = IF @ = "conflict" THEN @ ELSE "unsaved"]
        /\ page \in [Pages -> Page]
    BY <1>0 DEF Edit, TypeOK
  <2> HIDE DEF shown
  <2>2. /\ page'[p] = [page[p] EXCEPT !.shown = new, !.pending = new,
                       !.state = IF @ = "conflict" THEN @ ELSE "unsaved"]
        /\ \A q \in Pages \ {p} : page'[q] = page[q]
        /\ DOMAIN page' = Pages
        /\ page' = [q \in Pages |-> page'[q]]
    BY <2>1
  <2>3. Page \subseteq Page'
    BY <1>4 DEF Page, SaveStates
  <2>4. page'[p] \in Page'
    BY <1>1, <1>4, <2>2 DEF Page, SaveStates
  <2> QED BY <2>1, <2>2, <2>3, <2>4
<1>7. TypeOK'
  <2>1. Copy \subseteq Copy' /\ Put \subseteq Put'
    BY <1>4 DEF Copy, Put
  <2>2. backup' \in Copy'
    BY <1>0, <1>1, <1>4 DEF Edit, Copy, Page
  <2>3. before' \in Seq(SUBSET Texts')
    <3>1. before' \in Seq(SUBSET Texts)
      BY <1>2, <1>3 DEF TypeOK
    <3> QED BY <3>1, <1>4
  <2>4. put' \in [Pages -> Put' \cup {None}]
    BY <2>1 DEF Edit, TypeOK
  <2>5. get' \in [Pages -> {None} \cup [for : {"load", "reload"}, answer : Copy' \cup {None}]]
    BY <2>1 DEF Edit, TypeOK
  <2> QED BY <1>6, <2>1, <2>2, <2>3, <2>4, <2>5 DEF Edit, TypeOK
<1>8. HistoryInv'
  <2>1. ASSUME NEW t \in 1..Len(before)
        PROVE  before'[t] \subseteq 0..(t - 1) /\ \A s \in before'[t] : History(s)' \subseteq before'[t]
    <3>1. before'[t] = before[t] /\ before[t] \subseteq Texts
      BY <1>1, <1>3, <2>1 DEF TypeOK
    <3> QED BY <1>5, <2>1, <3>1 DEF HistoryInv
  <2>2. before'[new] \subseteq 0..(new - 1)
    BY <1>1, <1>2, <1>3 DEF Texts
  <2>3. \A s \in before'[new] : History(s)' \subseteq before'[new]
    BY <1>1, <1>2, <1>3, <1>5, HistoryGrows
  <2>4. 1..Len(before') = 1..Len(before) \cup {new}
    BY <1>1, <1>3
  <2> QED BY <2>1, <2>2, <2>3, <2>4 DEF HistoryInv
<1>9. UNCHANGED <<draft, put, get, crossed>>
  BY DEF Edit
<1>10. PhaseInv'
  BY <1>1, <1>4, <1>6, <1>9 DEF PhaseInv, Typed, Exact, Edit, Mounted, Page
<1>11. draft.text \in Texts /\ draft.revision \in Nat
  BY DEF TypeOK, Copy
<1>12. ~crossed => /\ Knows(new, page[p].revision)'
                   /\ \A t \in Texts, r \in Nat : Knows(t, r) => Knows(t, r)'
  <2>1. ~crossed => Knows(shown, page[p].revision)
    BY DEF PageInv
  <2>2. page'[p].revision = page[p].revision
    BY <1>1, <1>6 DEF Page
  <2> HIDE DEF shown
  <2> QED BY <1>1, <1>5, <1>9, <2>1, <2>2 DEF Knows
<1>13. BackupInv'
  <2>1. backup' = [text |-> new, revision |-> page[p].revision]
    BY <1>0 DEF Edit
  <2>2. page'[p].revision = page[p].revision
    BY <1>1, <1>6 DEF Page
  <2> QED BY <1>1, <1>4, <1>9, <1>12, <2>1, <2>2 DEF BackupInv, Typed, Knows
<1>14. ASSUME ~crossed', NEW q \in Pages PROVE PageInv(q)'
  <2>1. PageInv(q) /\ ~crossed
    BY <1>9, <1>14
  <2>2. page[q] \in Page /\ put[q] \in Put \cup {None}
    BY DEF TypeOK
  <2>3. put[q] # None => put[q].text \in Texts /\ put[q].base \in Nat
    BY <2>2 DEF Put
  <2>4. CASE q = p
    BY <1>1, <1>5, <1>6, <1>9, <1>12, <2>1, <2>2, <2>3, <2>4 DEF PageInv, Mounted, Page, Knows
  <2>5. CASE q # p
    BY <1>5, <1>6, <1>9, <1>12, <2>1, <2>2, <2>3, <2>5 DEF PageInv, Mounted, Page, Knows, Exact
  <2> QED BY <2>4, <2>5
<1> QED BY <1>7, <1>8, <1>10, <1>13, <1>14

LEMMA FlushKeeps ==
    ASSUME ConstantsFit, DraftsInv, NEW p \in Pages, Flush(p)
    PROVE  DraftsInv'
<1> USE DEF DraftsInv
<1>1. /\ page[p] \in Page /\ put[p] = None /\ page[p].pending \in Texts
      /\ page[p].mounted = "yes"
  BY DEF Flush, Flushed, TypeOK, Page, Mounted
<1>2. /\ page'[p] = [page[p] EXCEPT !.pending = None, !.state = "saving"]
      /\ \A q \in Pages \ {p} : page'[q] = page[q]
      /\ page' \in [Pages -> Page]
  BY <1>1 DEF Flush, TypeOK, Page, SaveStates
<1>3. /\ put'[p] = [text |-> page[p].pending, base |-> page[p].revision, answer |-> None, revision |-> 0]
      /\ \A q \in Pages \ {p} : put'[q] = put[q]
      /\ put' \in [Pages -> Put \cup {None}]
  BY <1>1 DEF Flush, Flushed, TypeOK, Page, Put
<1>4. TypeOK'
  <2>1. sent' \in 0..MaxSaves
    BY DEF Flush, Flushed, TypeOK, ConstantsFit
  <2> QED BY <1>2, <1>3, <2>1, SameSets DEF Flush, TypeOK
<1>5. HistoryInv' /\ BackupInv'
  BY DEF Flush, HistoryInv, BackupInv, History, Typed, Texts, Knows
<1>6. PhaseInv'
  BY <1>1, <1>2, <1>3 DEF Flush, Flushed, PhaseInv, Typed, Texts, Exact, Page, ConstantsFit
<1>7. ASSUME ~crossed', NEW q \in Pages PROVE PageInv(q)'
  <2>1. PageInv(q) /\ UNCHANGED <<draft, before>>
    BY <1>7 DEF Flush
  <2>2. CASE q = p
    BY <1>1, <1>2, <1>3, <2>1, <2>2 DEF PageInv, Mounted, Page, Knows, History, Flush, Flushed
  <2>3. CASE q # p
    BY <1>2, <1>3, <2>1, <2>3 DEF PageInv, Mounted, Knows, History, Exact
  <2> QED BY <2>2, <2>3
<1> QED BY <1>4, <1>5, <1>6, <1>7

LEMMA LeaveKeeps ==
    ASSUME ConstantsFit, DraftsInv, NEW p \in Pages, Leave(p)
    PROVE  DraftsInv'
<1> USE DEF DraftsInv
<1>1. /\ page[p] \in Page /\ page[p].mounted = "yes" /\ put[p] \in Put \cup {None}
  BY DEF Leave, TypeOK, Mounted
<1>2. /\ page'[p] = [page[p] EXCEPT !.mounted = "left", !.pending = IF put[p] = None THEN None ELSE @]
      /\ \A q \in Pages \ {p} : page'[q] = page[q]
      /\ page' \in [Pages -> Page]
  BY <1>1 DEF Leave, TypeOK, Page
<1>3. /\ \/ /\ page[p].pending # None /\ put[p] = None /\ sent < MaxSaves /\ sent' = sent + 1
            /\ put'[p] = [text |-> page[p].pending, base |-> page[p].revision,
                          answer |-> None, revision |-> 0]
         \/ (page[p].pending = None \/ put[p] # None) /\ put'[p] = put[p] /\ sent' = sent
      /\ \A q \in Pages \ {p} : put'[q] = put[q]
      /\ put' \in [Pages -> Put \cup {None}]
  BY <1>1 DEF Leave, Flushed, TypeOK, Page, Put
<1>4. TypeOK'
  <2>1. sent' \in 0..MaxSaves
    BY <1>3 DEF TypeOK, ConstantsFit
  <2> QED BY <1>2, <1>3, <2>1, SameSets DEF Leave, TypeOK
<1>5. HistoryInv' /\ BackupInv'
  BY DEF Leave, HistoryInv, BackupInv, History, Typed, Texts, Knows
<1>6. PhaseInv'
  <2>1. page'[p].mounted = "left" /\ page'[p].pending \in {None, page[p].pending}
    BY <1>1, <1>2 DEF Page
  <2>2. UNCHANGED <<draft, get, Texts>>
    BY DEF Leave, Texts
  <2>3. put'[p] # None => Typed(put'[p].text) /\ (put'[p].answer = "stored" => put'[p] = put[p])
    <3>1. CASE put'[p] = put[p]
      BY <3>1 DEF PhaseInv
    <3>2. CASE put'[p] = [text |-> page[p].pending, base |-> page[p].revision,
                          answer |-> None, revision |-> 0] /\ page[p].pending # None
      <4>1. put'[p].text = page[p].pending /\ put'[p].answer = None
        BY <3>2
      <4> QED BY <3>2, <4>1 DEF PhaseInv, ConstantsFit
    <3> QED BY <1>3, <3>1, <3>2
  <2>4. \A q \in Pages \ {p} : page'[q] = page[q] /\ put'[q] = put[q]
    BY <1>2, <1>3
  <2>5. ASSUME NEW q \in Pages, put'[q] # None
        PROVE  Typed(put[q].text)' /\ (put[q].answer = "stored" =>
                        Exact([text |-> put[q].text, revision |-> put[q].revision]))'
    BY <2>2, <2>3, <2>4, <2>5 DEF PhaseInv, Typed, Exact
  <2> QED BY <2>1, <2>2, <2>4, <2>5, <1>1 DEF PhaseInv, Typed, Exact
<1>7. ASSUME ~crossed', NEW q \in Pages PROVE PageInv(q)'
  <2>1. PageInv(q) /\ UNCHANGED <<draft, before>>
    BY <1>7 DEF Leave
  <2>2. CASE q = p
    <3>1. /\ page'[p].mounted = "left" /\ page'[p].shown = page[p].shown
          /\ page'[p].revision = page[p].revision
          /\ page'[p].pending = IF put[p] = None THEN None ELSE page[p].pending
      BY <1>1, <1>2 DEF Page
    <3>2. Knows(page[p].shown, page[p].revision) /\ page[p].shown \in History(page[p].shown)
      BY <2>1, <2>2 DEF PageInv, History
    <3>3. CASE put'[p] = put[p]
      BY <1>1, <1>3, <2>1, <2>2, <3>1, <3>2, <3>3 DEF PageInv, Mounted, Knows, History
    <3>4. CASE put'[p] # put[p]
      BY <1>1, <1>3, <2>1, <2>2, <3>1, <3>2, <3>4 DEF PageInv, Mounted, Knows, History
    <3> QED BY <3>3, <3>4
  <2>3. CASE q # p
    BY <1>2, <1>3, <2>1, <2>3 DEF PageInv, Mounted, Knows, History, Exact
  <2> QED BY <2>2, <2>3
<1> QED BY <1>4, <1>5, <1>6, <1>7

LEMMA DieKeeps ==
    ASSUME ConstantsFit, DraftsInv, NEW p \in Pages, Die(p)
    PROVE  DraftsInv'
<1> USE DEF DraftsInv
<1>1. page[p] \in Page /\ page[p].mounted = "yes"
  BY DEF Die, TypeOK, Mounted
<1>2. /\ page'[p] = [page[p] EXCEPT !.mounted = "dead", !.pending = None]
      /\ \A q \in Pages \ {p} : page'[q] = page[q]
      /\ page' \in [Pages -> Page]
  BY <1>1 DEF Die, TypeOK, Page
<1>3. TypeOK'
  BY <1>2, SameSets DEF Die, TypeOK
<1>4. HistoryInv' /\ BackupInv'
  BY DEF Die, HistoryInv, BackupInv, History, Typed, Texts, Knows
<1>5. PhaseInv'
  BY <1>1, <1>2 DEF Die, PhaseInv, Typed, Texts, Exact, Page
<1>6. ASSUME ~crossed', NEW q \in Pages PROVE PageInv(q)'
  <2>1. PageInv(q) /\ UNCHANGED <<draft, before, put>>
    BY <1>6 DEF Die
  <2>2. CASE q = p
    BY <1>1, <1>2, <2>1, <2>2 DEF PageInv, Mounted, Page, Knows, History
  <2>3. CASE q # p
    BY <1>2, <2>1, <2>3 DEF PageInv, Mounted, Knows, History, Exact
  <2> QED BY <2>2, <2>3
<1> QED BY <1>3, <1>4, <1>5, <1>6

\* A save of another copy leaves every copy with an old revision behind.
LEMMA SaveKeeps ==
    ASSUME ConstantsFit, DraftsInv, NEW p \in Pages, Save(p)
    PROVE  DraftsInv'
<1> USE DEF DraftsInv
<1>1. /\ put[p] \in Put /\ draft.text \in Texts /\ draft.revision \in Nat
      /\ put[p] # None /\ put[p].answer = None
  BY DEF Save, TypeOK, Copy
<1>2. HistoryInv' /\ UNCHANGED <<before, Texts>>
  BY DEF Save, HistoryInv, History, Texts
<1>3. CASE open /\ Current(put[p].base)
  <2>1. /\ draft' = [text |-> put[p].text, revision |-> draft.revision + 1]
        /\ put'[p] = [put[p] EXCEPT !.answer = "stored", !.revision = draft.revision + 1]
        /\ \A q \in Pages \ {p} : put'[q] = put[q]
        /\ put' \in [Pages -> Put \cup {None}]
    <3>1. put' = [put EXCEPT ![p].answer = "stored", ![p].revision = draft.revision + 1]
      BY <1>3 DEF Save
    <3>2. [put[p] EXCEPT !.answer = "stored", !.revision = draft.revision + 1] \in Put
      <4>1. PICK n \in Nat : n = draft.revision + 1
        BY <1>1
      <4>2. [put[p] EXCEPT !.answer = "stored", !.revision = n] \in Put
        BY <1>1 DEF Put
      <4> QED BY <4>1, <4>2
    <3>3. put' \in [Pages -> Put \cup {None}]
      BY <3>1, <3>2 DEF TypeOK
    <3>4. put'[p] = [put[p] EXCEPT !.answer = "stored", !.revision = draft.revision + 1]
          /\ \A q \in Pages \ {p} : put'[q] = put[q]
      BY <3>1 DEF TypeOK
    <3> QED BY <1>3, <3>3, <3>4 DEF Save
  <2>2. TypeOK'
    <3>1. draft' \in Copy
      BY <1>1, <2>1 DEF Put, Copy
    <3> QED BY <2>1, <3>1, SameSets DEF Save, TypeOK
  <2>3. \A t \in Texts, r \in Nat : Knows(t, r) => r < draft'.revision
    BY <1>1, <2>1 DEF Knows
  <2>4. PhaseInv'
    <3>1. ASSUME NEW copy \in Copy, Exact(copy)
          PROVE  copy.revision < draft'.revision
      BY <1>1, <2>1, <3>1 DEF Exact, Copy
    <3>2. ASSUME NEW q \in Pages, get[q] # None, get[q].answer # None
          PROVE  get[q].answer.revision < draft'.revision /\ get[q].answer.revision \in Nat
      BY <3>1, <3>2 DEF PhaseInv, TypeOK, Copy
    <3>3. ASSUME NEW q \in Pages \ {p}, put[q] # None, put[q].answer = "stored"
          PROVE  put[q].revision < draft'.revision /\ put[q].revision \in Nat
      <4>1. put[q] \in Put
        BY <3>3 DEF TypeOK
      <4> DEFINE copy == [text |-> put[q].text, revision |-> put[q].revision]
      <4>2. copy \in Copy /\ Exact(copy) /\ copy.revision = put[q].revision
        BY <3>3, <4>1 DEF PhaseInv, Put, Copy
      <4> HIDE DEF copy
      <4>3. copy.revision < draft'.revision
        BY <3>1, <4>2
      <4> QED BY <4>1, <4>2, <4>3 DEF Put
    <3>4. put'[p].text = put[p].text /\ put'[p].revision = draft'.revision
      BY <1>1, <2>1 DEF Put
    <3>5. UNCHANGED <<page, get>> /\ draft'.revision \in Nat
      BY <1>1, <2>1 DEF Save
    <3>6. ASSUME NEW q \in Pages, put'[q] # None
          PROVE  /\ Typed(put[q].text)'
                 /\ (put[q].answer = "stored" =>
                        Exact([text |-> put[q].text, revision |-> put[q].revision]))'
      <4>1. CASE q = p
        <5>1. Typed(put[p].text)
          BY <1>1 DEF PhaseInv
        <5>2. draft'.text = put'[p].text /\ put'[p].revision = draft'.revision
          BY <2>1, <3>4
        <5> QED BY <1>2, <3>4, <3>5, <4>1, <5>1, <5>2 DEF Exact, Typed
      <4>2. CASE q # p
        BY <1>2, <2>1, <3>3, <3>5, <3>6, <4>2 DEF PhaseInv, Exact, Typed
      <4> QED BY <4>1, <4>2
    <3>7. ASSUME NEW q \in Pages
          PROVE  /\ page'[q].mounted \in {"no", "loading"} => put'[q] = None
                 /\ (get[q] # None /\ get[q].answer # None => Exact(get[q].answer))'
      BY <1>1, <2>1, <3>2, <3>5 DEF PhaseInv, Exact
    <3> QED BY <1>2, <3>5, <3>6, <3>7 DEF PhaseInv, Typed
  <2>5. BackupInv'
    <3>1. backup # None => backup \in Copy
      BY DEF TypeOK
    <3> QED BY <1>1, <1>2, <2>1, <2>3, <3>1 DEF Save, BackupInv, Knows, Typed, Copy
  <2>6. ASSUME ~crossed', NEW q \in Pages PROVE PageInv(q)'
    <3>1. PageInv(q) /\ UNCHANGED <<page, before>>
      BY <2>6 DEF Save
    <3>2. page[q] \in Page /\ page[q].shown \in Texts /\ page[q].revision \in Nat
      BY DEF TypeOK, Page
    <3>3. page[q].revision < draft'.revision
      BY <2>3, <3>1, <3>2 DEF PageInv
    <3>4. Knows(page[q].shown, page[q].revision)'
      BY <1>1, <2>1, <3>1, <3>2, <3>3 DEF Knows
    <3>5. put[q] # None => /\ put[q].text \in Texts /\ put[q].base \in Nat
                           /\ put[q].base < draft'.revision
      <4>1. put[q] # None => put[q] \in Put
        BY DEF TypeOK
      <4> QED BY <2>3, <3>1, <4>1 DEF PageInv, Put
    <3>6. put'[q] # None => put[q] # None /\ put'[q].text = put[q].text /\ put'[q].base = put[q].base
      BY <1>1, <2>1 DEF Put
    <3>7. put'[q] # None => Knows(put[q].text, put[q].base)'
      BY <1>1, <2>1, <3>1, <3>2, <3>5, <3>6 DEF Knows
    <3> QED BY <1>1, <2>1, <3>1, <3>2, <3>3, <3>4, <3>5, <3>6, <3>7 DEF PageInv, Mounted, Exact, History, Knows
  <2> QED BY <1>2, <2>2, <2>4, <2>5, <2>6
<1>4. CASE ~(open /\ Current(put[p].base))
  <2>1. /\ draft' = draft
        /\ put'[p] = [put[p] EXCEPT !.answer = IF open THEN "conflict" ELSE "locked"]
        /\ \A q \in Pages \ {p} : put'[q] = put[q]
        /\ put' \in [Pages -> Put \cup {None}]
    BY <1>1, <1>4 DEF Save, TypeOK, Put
  <2>2. TypeOK'
    BY <2>1, SameSets DEF Save, TypeOK
  <2>3. put'[p].text = put[p].text /\ put'[p].base = put[p].base /\ put'[p].answer # "stored"
    BY <1>1, <2>1 DEF Put
  <2>4. PhaseInv'
    BY <1>1, <1>2, <2>1, <2>3 DEF Save, PhaseInv, Exact, Typed
  <2>5. BackupInv'
    BY <1>2, <2>1 DEF Save, BackupInv, Knows, Typed, History
  <2>6. ASSUME ~crossed', NEW q \in Pages PROVE PageInv(q)'
    <3>1. PageInv(q) /\ UNCHANGED <<page, before, draft>>
      BY <2>1, <2>6 DEF Save
    <3>2. (put'[q] = None <=> put[q] = None) \/ q = p
      BY <2>1
    <3>3. put'[q] # None => /\ put[q] # None /\ put'[q].text = put[q].text
                            /\ put'[q].base = put[q].base
      BY <1>1, <2>1, <2>3
    <3> QED BY <1>1, <3>1, <3>3 DEF PageInv, Mounted, Exact, History, Knows
  <2> QED BY <1>2, <2>2, <2>4, <2>5, <2>6
<1> QED BY <1>3, <1>4

LEMMA StoredKeeps ==
    ASSUME ConstantsFit, DraftsInv, NEW p \in Pages, Stored(p)
    PROVE  DraftsInv'
<1> USE DEF DraftsInv
<1>1. /\ page[p] \in Page /\ put[p] \in Put /\ put[p] # None /\ put[p].answer = "stored"
      /\ AfterSave(p) \in SaveStates
  BY DEF Stored, TypeOK, AfterSave, SaveStates
<1>2. /\ page'[p] = [page[p] EXCEPT !.revision = put[p].revision, !.state = AfterSave(p)]
      /\ \A q \in Pages \ {p} : page'[q] = page[q]
      /\ page' \in [Pages -> Page]
  <2>1. [page[p] EXCEPT !.revision = put[p].revision, !.state = AfterSave(p)] \in Page
    BY <1>1 DEF Page, Put
  <2> QED BY <2>1 DEF Stored, TypeOK
<1>3. put'[p] = None /\ (\A q \in Pages \ {p} : put'[q] = put[q]) /\ put' \in [Pages -> Put \cup {None}]
  BY DEF Stored, TypeOK
<1>4. TypeOK'
  <2>1. backup' \in Copy \cup {None}
    BY <1>1 DEF Stored, TypeOK, Put, Copy
  <2> QED BY <1>2, <1>3, <2>1, SameSets DEF Stored, TypeOK
<1>5. HistoryInv' /\ UNCHANGED <<draft, before, Texts, crossed, get>>
  BY DEF Stored, HistoryInv, History, Texts
<1>6. PhaseInv'
  <2>1. page'[p].mounted = page[p].mounted /\ page'[p].pending = page[p].pending
    BY <1>1, <1>2 DEF Page
  <2>2. \A q \in Pages \ {p} : page'[q] = page[q] /\ put'[q] = put[q]
    BY <1>2, <1>3
  <2> QED BY <1>3, <1>5, <2>1, <2>2 DEF PhaseInv, Typed, Exact
<1>7. /\ Typed(put[p].text) /\ put[p].text \in Texts /\ put[p].revision \in Nat
      /\ Exact([text |-> put[p].text, revision |-> put[p].revision])
      /\ page[p].shown \in Texts
  BY <1>1 DEF PhaseInv, Put, Page
<1>8. Knows(put[p].text, put[p].revision)
  BY <1>7 DEF Exact, Knows, History
<1>9. BackupInv'
  BY <1>1, <1>5, <1>7, <1>8 DEF Stored, BackupInv, Typed, Knows, History
<1>10. ASSUME ~crossed', NEW q \in Pages PROVE PageInv(q)'
  <2>1. PageInv(q)
    BY <1>5, <1>10
  <2>2. CASE q = p
    <3>1. put[p].text \in History(page[p].shown)
      BY <1>1, <2>1, <2>2 DEF PageInv
    <3>2. Knows(page[p].shown, put[p].revision)
      BY <1>7, <1>8, <3>1, HistoryGrows DEF Knows
    <3>3. page'[p].shown = page[p].shown /\ page'[p].revision = put[p].revision
          /\ page'[p].pending = page[p].pending /\ page'[p].mounted = page[p].mounted
          /\ page'[p].state = AfterSave(p)
      BY <1>1, <1>2 DEF Page
    <3>4. page[p].mounted = "yes" /\ AfterSave(p) = "saved" => page[p].shown = put[p].text
      BY <1>1, <2>1, <2>2 DEF AfterSave, PageInv
    <3> QED BY <1>3, <1>5, <1>7, <2>1, <2>2, <3>2, <3>3, <3>4 DEF PageInv, Mounted, Knows, History, Exact
  <2>3. CASE q # p
    BY <1>2, <1>3, <1>5, <2>1, <2>3 DEF PageInv, Mounted, Knows, History, Exact
  <2> QED BY <2>2, <2>3
<1> QED BY <1>4, <1>5, <1>6, <1>9, <1>10

LEMMA RefusedKeeps ==
    ASSUME ConstantsFit, DraftsInv, NEW p \in Pages, Refused(p)
    PROVE  DraftsInv'
<1> USE DEF DraftsInv
<1>1. page[p] \in Page
  BY DEF Refused, TypeOK
<1>2. /\ page'[p] = [page[p] EXCEPT !.state = IF put[p].answer = "conflict" THEN "conflict" ELSE "unsaved"]
      /\ \A q \in Pages \ {p} : page'[q] = page[q]
      /\ page' \in [Pages -> Page]
  BY <1>1 DEF Refused, TypeOK, Page, SaveStates
<1>3. put'[p] = None /\ (\A q \in Pages \ {p} : put'[q] = put[q]) /\ put' \in [Pages -> Put \cup {None}]
  BY DEF Refused, TypeOK
<1>4. TypeOK'
  BY <1>2, <1>3, SameSets DEF Refused, TypeOK
<1>5. HistoryInv' /\ BackupInv' /\ UNCHANGED <<draft, before, Texts, crossed, get>>
  BY DEF Refused, HistoryInv, BackupInv, History, Typed, Texts, Knows
<1>6. PhaseInv'
  BY <1>1, <1>2, <1>3, <1>5 DEF PhaseInv, Typed, Exact, Page
<1>7. ASSUME ~crossed', NEW q \in Pages PROVE PageInv(q)'
  <2>1. PageInv(q)
    BY <1>5, <1>7
  <2>2. CASE q = p
    BY <1>1, <1>2, <1>3, <1>5, <2>1, <2>2 DEF PageInv, Mounted, Page, Knows, History
  <2>3. CASE q # p
    BY <1>2, <1>3, <1>5, <2>1, <2>3 DEF PageInv, Mounted, Knows, History, Exact
  <2> QED BY <2>2, <2>3
<1> QED BY <1>4, <1>5, <1>6, <1>7

LEMMA FailKeeps ==
    ASSUME ConstantsFit, DraftsInv, NEW p \in Pages, Fail(p)
    PROVE  DraftsInv'
<1> USE DEF DraftsInv
<1>1. /\ page[p] \in Page /\ put[p] \in Put /\ put[p] # None /\ put[p].text \in Texts
  BY DEF Fail, TypeOK, Put
<1>2. /\ page'[p] = [page[p] EXCEPT !.pending = IF @ = None THEN put[p].text ELSE @, !.state = "offline"]
      /\ \A q \in Pages \ {p} : page'[q] = page[q]
      /\ page' \in [Pages -> Page]
  BY <1>1 DEF Fail, TypeOK, Page, SaveStates
<1>3. put'[p] = None /\ (\A q \in Pages \ {p} : put'[q] = put[q]) /\ put' \in [Pages -> Put \cup {None}]
  BY DEF Fail, TypeOK
<1>4. TypeOK'
  <2>1. failures' \in 0..MaxFailures
    BY DEF Fail, TypeOK, ConstantsFit
  <2> QED BY <1>2, <1>3, <2>1, SameSets DEF Fail, TypeOK
<1>5. HistoryInv' /\ BackupInv' /\ UNCHANGED <<draft, before, Texts, crossed, get>>
  BY DEF Fail, HistoryInv, BackupInv, History, Typed, Texts, Knows
<1>6. PhaseInv'
  <2>1. page'[p].mounted = page[p].mounted
        /\ page'[p].pending = IF page[p].pending = None THEN put[p].text ELSE page[p].pending
    BY <1>1, <1>2 DEF Page
  <2>2. Typed(put[p].text) /\ (page[p].pending # None => Typed(page[p].pending))
    BY <1>1 DEF PhaseInv
  <2>3. \A q \in Pages \ {p} : page'[q] = page[q] /\ put'[q] = put[q]
    BY <1>2, <1>3
  <2> QED BY <1>3, <1>5, <2>1, <2>2, <2>3 DEF PhaseInv, Typed, Exact
<1>7. ASSUME ~crossed', NEW q \in Pages PROVE PageInv(q)'
  <2>1. PageInv(q)
    BY <1>5, <1>7
  <2>2. CASE q = p
    BY <1>1, <1>2, <1>3, <1>5, <2>1, <2>2 DEF PageInv, Mounted, Page, Knows, History
  <2>3. CASE q # p
    BY <1>2, <1>3, <1>5, <2>1, <2>3 DEF PageInv, Mounted, Knows, History, Exact
  <2> QED BY <2>2, <2>3
<1> QED BY <1>4, <1>5, <1>6, <1>7

LEMMA RestKeeps ==
    ASSUME DraftsInv, Lock \/ UNCHANGED draftVars
    PROVE  DraftsInv'
<1> USE DEF DraftsInv
<1>1. UNCHANGED <<draft, backup, page, put, get, crossed, before, sent, failures>> /\ open' \in BOOLEAN
  BY DEF Lock, draftVars, TypeOK
<1>2. TypeOK'
  BY <1>1, SameSets DEF TypeOK
<1>3. HistoryInv' /\ PhaseInv' /\ BackupInv'
  BY <1>1 DEF HistoryInv, PhaseInv, BackupInv, History, Typed, Texts, Exact, Knows
<1>4. ~crossed' => \A q \in Pages : PageInv(q)'
  BY <1>1 DEF PageInv, Mounted, Knows, History, Exact
<1> QED BY <1>2, <1>3, <1>4

LEMMA NextKeeps == ASSUME ConstantsFit, DraftsInv, [Next]_draftVars PROVE DraftsInv'
<1>1. CASE Lock \/ UNCHANGED draftVars
  BY <1>1, RestKeeps
<1>2. ASSUME NEW p \in Pages,
             \/ Mount(p) \/ Reload(p) \/ AnswerRead(p) \/ ReceiveRead(p)
             \/ Edit(p) \/ Flush(p) \/ Leave(p) \/ Die(p)
             \/ Save(p) \/ Stored(p) \/ Refused(p) \/ Fail(p)
      PROVE  DraftsInv'
  BY <1>2, MountKeeps, ReloadKeeps, AnswerReadKeeps, ReceiveReadKeeps, EditKeeps, FlushKeeps,
     LeaveKeeps, DieKeeps, SaveKeeps, StoredKeeps, RefusedKeeps, FailKeeps
<1> QED BY <1>1, <1>2 DEF Next

-----------------------------------------------------------------------------
(* The theorems. *)

THEOREM DraftsSafe == ASSUME ConstantsFit PROVE Spec => []DraftsInv
<1>1. Init => DraftsInv
  BY InitDrafts
<1>2. DraftsInv /\ [Next]_draftVars => DraftsInv'
  BY NextKeeps
<1> QED BY <1>1, <1>2, PTL DEF Spec

\* A page that says "saved" shows what the server stores, or stored until somebody else saved (flush,
\* reloadFromServer): for any number of windows, visits, edits, saves and lost answers.
THEOREM SavedIsTrue == ASSUME ConstantsFit PROVE Spec => []SavedIsStored
<1>1. DraftsInv => SavedIsStored
  <2> SUFFICES ASSUME DraftsInv, NEW p \in Pages, Mounted(p), page[p].state = "saved", ~crossed
               PROVE  page[p].revision < draft.revision \/ page[p].shown = draft.text
    BY DEF SavedIsStored
  <2>1. page[p].revision \in Nat /\ draft.revision \in Nat
    BY DEF DraftsInv, TypeOK, Page, Copy
  <2> QED BY <2>1 DEF DraftsInv, PageInv, Exact
<1> QED BY <1>1, DraftsSafe, PTL

\* Code that is overwritten was shown to whoever wrote the code that replaces it (DraftService.save,
\* initialCode), unless a page took a reloaded draft while a save of its own was under way.
THEOREM OnlySeenCodeIsReplaced == ASSUME ConstantsFit PROVE Spec => NothingUnseenReplaced
<1>1. ASSUME DraftsInv, [Next]_draftVars, draft'.revision # draft.revision, draft.revision > 0
      PROVE  Seen \/ crossed
  <2>1. PICK p \in Pages : Save(p)
    BY <1>1 DEF Next, draftVars, Mount, Reload, AnswerRead, ReceiveRead, Edit, Flush, Leave, Die,
                Stored, Refused, Fail, Lock
  <2>2. open /\ Current(put[p].base) /\ put[p] # None /\ draft'.text = put[p].text
    BY <1>1, <2>1 DEF Save
  <2>3. CASE ~crossed
    <3>1. draft.text \in History(put[p].text)
      BY <1>1, <2>2, <2>3 DEF DraftsInv, PageInv, Knows, Current
    <3>2. put[p].text # 0
      BY <1>1, <2>2 DEF DraftsInv, PhaseInv, Typed
    <3>3. UNCHANGED before
      BY <2>1 DEF Save
    <3> QED BY <2>2, <3>1, <3>2, <3>3 DEF Seen, History
  <2> QED BY <2>3
<1>2. DraftsInv /\ [Next]_draftVars => [draft'.revision # draft.revision /\ draft.revision > 0 => Seen \/ crossed]_draftVars
  BY <1>1
<1> QED BY <1>2, DraftsSafe, PTL DEF Spec, NothingUnseenReplaced
=============================================================================
