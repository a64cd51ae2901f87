--------------------------- MODULE AttemptLifecycle ---------------------------
(***************************************************************************)
(* What an exam attempt promises, whatever requests race on it: proctoring *)
(* starts once, holds and tab switches happen only while the attempt is    *)
(* open, and finishing is one indivisible, irrevocable step that ends the  *)
(* proctoring session and fixes the result.  No transactions, locks or     *)
(* clock.  ExamAttempt implements this.                                    *)
(***************************************************************************)
EXTENDS Naturals

CONSTANTS Results, TabSwitchLimit, None

VARIABLES phase, held, switches, session, result

vars == <<phase, held, switches, session, result>>

Init ==
    /\ phase = "open"
    /\ held = FALSE
    /\ switches = 0
    /\ session \in {None, "NOT_STARTED"}
    /\ result = None

Activate ==
    /\ phase = "open"
    /\ session = "NOT_STARTED"
    /\ session' = "ACTIVE"
    /\ UNCHANGED <<phase, held, switches, result>>

Hold ==
    /\ phase = "open"
    /\ ~held
    /\ held' = TRUE
    /\ UNCHANGED <<phase, switches, session, result>>

Release ==
    /\ phase = "open"
    /\ held
    /\ held' = FALSE
    /\ UNCHANGED <<phase, switches, session, result>>

Switch ==
    /\ phase = "open"
    /\ session = "ACTIVE"
    /\ ~held
    /\ switches' = switches + 1
    /\ held' = (switches' >= TabSwitchLimit)
    /\ UNCHANGED <<phase, session, result>>

Finish ==
    /\ phase = "open"
    /\ phase' = "finished"
    /\ session' = IF session = None THEN None ELSE "ENDED"
    /\ result' \in Results
    /\ UNCHANGED <<held, switches>>

Next == Activate \/ Hold \/ Release \/ Switch \/ Finish

Spec == Init /\ [][Next]_vars
=============================================================================
