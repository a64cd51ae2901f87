------------------------------ MODULE DraftState ------------------------------
(***************************************************************************)
(* The places that keep the code of one coding question, and what must     *)
(* hold between them: the row of coding_drafts, the backup in local        *)
(* storage, and each page with its save and its reading under way.         *)
(* CodeDrafts says how they change.                                        *)
(***************************************************************************)
EXTENDS Naturals, Sequences

CONSTANT Pages      \* mounts of the hook useCodingQuestion

VARIABLES
    draft,      \* the row of coding_drafts; revision 0 without one
    open,       \* the attempt may be edited: neither finished nor on hold
    backup,     \* local storage
    page,       \* the hook's state, by page
    put,        \* its save under way
    get,        \* its reading of the question under way, what it was for
    crossed,    \* a page took a reloaded draft while a save of its own was under way
    before,     \* before[t]: the texts that were shown on the way to text t
    sent, failures

draftVars == <<draft, open, backup, page, put, get, crossed, before, sent, failures>>

Mounted(p) == page[p].mounted = "yes"

-----------------------------------------------------------------------------
(* Properties *)

\* Code that is overwritten was shown to whoever wrote the code that replaces it.
Seen == draft.text \in before[draft'.text] \cup {draft'.text}

\* What drafts.py says of the revision: "newer code is never silently overwritten".  A save that fails
\* after the page took the newest draft is sent again, with the revision of that draft.
NewerCodeKept == [][draft'.revision # draft.revision /\ draft.revision > 0 => Seen]_draftVars

\* But for that case newer code is kept: with several windows, returns to the question, lost requests and
\* answers, and backups of any age (DraftService.save, initialCode).
NothingUnseenReplaced ==
    [][draft'.revision # draft.revision /\ draft.revision > 0 => Seen \/ crossed]_draftVars

\* But for that case a page that says "saved" shows what the server stores, or stored until somebody
\* else saved (flush, reloadFromServer).
SavedIsStored ==
    \A p \in Pages : Mounted(p) /\ page[p].state = "saved" /\ ~crossed =>
        \/ page[p].revision < draft.revision
        \/ page[p].shown = draft.text
=============================================================================
