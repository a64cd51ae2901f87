----------------------------- MODULE SocketAccess -----------------------------
(***************************************************************************)
(* The web sockets of one user in the server process                       *)
(* (realtime/security.py, api/v1/ws.py): a ticket of a session opens a     *)
(* socket, which takes one of the user's slots and is checked against its  *)
(* session at intervals for as long as it is open.                         *)
(*                                                                         *)
(* A handler is a coroutine: it runs from one await to the next.  Time is  *)
(* counted from the start of each interval, so it has no end; it does not  *)
(* pass over a check that is due.                                          *)
(***************************************************************************)
EXTENDS Naturals, FiniteSets

CONSTANTS
    Sockets,      \* connections the user may try to have
    Logins,       \* the user's sessions
    MaxSockets,   \* MAX_SOCKETS_PER_USER
    Recheck,      \* RECHECK_SECONDS
    None

SocketsFit == MaxSockets \in Nat /\ Recheck \in Nat \ {0}

VARIABLES
    live,     \* the sessions that are valid, of a user that is active
    ticket,   \* ticket[s]: whether there is a ticket of session s, and whether this process knows it as used
    socket,   \* socket[k]: the handler of connection k
    slots     \* SocketSlots: how many the user holds

socketVars == <<live, ticket, socket, slots>>

-----------------------------------------------------------------------------
\* Closed, admitted but not yet accepted, or in the loop of the guard.
Socket ==
    [at      : {"closed", "admitted", "open"},
     session : Logins \cup {None},  \* None: the legacy token, authenticated at connect only
     due     : 0..Recheck,          \* until the guard checks the session
     late    : Nat]                 \* ghost: since when it is open without a live session

Closed == [at |-> "closed", session |-> None, due |-> 0, late |-> 0]

Init ==
    /\ live = {}
    /\ ticket = [s \in Logins |-> "none"]
    /\ socket = [k \in Sockets |-> Closed]
    /\ slots = 0

-----------------------------------------------------------------------------
Set(k, value) == socket' = [socket EXCEPT ![k] = value]

\* SocketSlots.release
Released == IF slots > 0 THEN slots - 1 ELSE 0

\* A session that ended does not come back: one that nothing is left of stands for a later one.
SignsIn(s) ==
    /\ s \notin live /\ ticket[s] = "none"
    /\ \A k \in Sockets : socket[k].session # s
    /\ live' = live \cup {s}
    /\ UNCHANGED <<ticket, socket, slots>>

\* Signed out, here or everywhere, expired, or the user deactivated.
Ends(s) ==
    /\ s \in live
    /\ live' = live \ {s}
    /\ UNCHANGED <<ticket, socket, slots>>

\* websocket_ticket: a ticket of the session that asks.
IssueTicket(s) ==
    /\ s \in live
    /\ ticket' = [ticket EXCEPT ![s] = "issued"]
    /\ UNCHANGED <<live, socket, slots>>

\* The ticket's time is over.
TicketExpires(s) ==
    /\ ticket[s] # "none"
    /\ ticket' = [ticket EXCEPT ![s] = "none"]
    /\ UNCHANGED <<live, socket, slots>>

\* redeem_ticket and live_user: the ticket is spent even when its session is over.
Redeems(s) == ticket[s] = "issued" /\ ticket' = [ticket EXCEPT ![s] = "used"]

\* admit: up to the first await of the handler, nobody comes in between.
Admit(k, s) ==
    IF slots >= MaxSockets
    THEN UNCHANGED <<socket, slots>>
    ELSE /\ Set(k, [Closed EXCEPT !.at = "admitted", !.session = s])
         /\ slots' = slots + 1

Connect(k) ==
    /\ socket[k].at = "closed"
    /\ \/ \E s \in Logins :
             /\ Redeems(s)
             /\ IF s \in live THEN Admit(k, s) ELSE UNCHANGED <<socket, slots>>
       \/ live # {} /\ UNCHANGED ticket /\ Admit(k, None)
    /\ UNCHANGED live

\* The socket is accepted and greeted, and the guard starts.
Accept(k) ==
    /\ socket[k].at = "admitted"
    /\ Set(k, [socket[k] EXCEPT !.at = "open", !.due = Recheck])
    /\ UNCHANGED <<live, ticket, slots>>

\* The client is gone before it could be greeted: the handler ends before the block that
\* releases the slot.
AcceptFails(k) ==
    /\ socket[k].at = "admitted"
    /\ Set(k, Closed)
    /\ UNCHANGED <<live, ticket, slots>>

\* interview_call: the side of the call is held by somebody else.
Occupied(k) ==
    /\ socket[k].at = "admitted"
    /\ Set(k, Closed)
    /\ slots' = Released
    /\ UNCHANGED <<live, ticket>>

\* SocketGuard.receive: the session is looked up, and the socket closed if it is over.
Check(k) ==
    /\ socket[k].at = "open" /\ socket[k].due = 0
    /\ IF socket[k].session \in live \cup {None}
       THEN Set(k, [socket[k] EXCEPT !.due = Recheck]) /\ UNCHANGED slots
       ELSE Set(k, Closed) /\ slots' = Released
    /\ UNCHANGED <<live, ticket>>

\* The client leaves, or sends too much, too often or what the handler fails on.
Leave(k) ==
    /\ socket[k].at = "open"
    /\ Set(k, Closed)
    /\ slots' = Released
    /\ UNCHANGED <<live, ticket>>

\* The process is restarted: it knows neither slots nor used tickets.
Restart ==
    /\ \E k \in Sockets : socket[k].at # "closed"
    /\ socket' = [k \in Sockets |-> Closed]
    /\ slots' = 0
    /\ ticket' = [s \in Logins |-> IF ticket[s] = "used" THEN "issued" ELSE ticket[s]]
    /\ UNCHANGED live

\* A socket that is open without its session grows late; each check comes nearer.
Tick ==
    /\ \A k \in Sockets : socket[k].at = "open" => socket[k].due > 0
    /\ socket' = [k \in Sockets |->
          IF socket[k].at # "open" THEN socket[k]
          ELSE [socket[k] EXCEPT !.due = @ - 1,
                                 !.late = IF socket[k].session \in live \cup {None} THEN 0 ELSE @ + 1]]
    /\ UNCHANGED <<live, ticket, slots>>

Next ==
    \/ Tick \/ Restart
    \/ \E s \in Logins : SignsIn(s) \/ Ends(s) \/ IssueTicket(s) \/ TicketExpires(s)
    \/ \E k \in Sockets : Connect(k) \/ Accept(k) \/ AcceptFails(k) \/ Occupied(k) \/ Check(k)
                             \/ Leave(k)

Spec == Init /\ [][Next]_socketVars

-----------------------------------------------------------------------------
TypeOK ==
    /\ live \subseteq Logins
    /\ ticket \in [Logins -> {"none", "issued", "used"}]
    /\ socket \in [Sockets -> Socket]
    /\ slots \in Nat

Held == {k \in Sockets : socket[k].at # "closed"}

\* However many handlers start, fail and end, the user's open sockets never exceed the limit, each
\* has its slot, and none goes on for longer than an interval after its session ended ("a socket
\* lives only as long as its session", SocketGuard; SocketSlots).
SocketsFollow ==
    /\ Cardinality(Held) <= slots /\ slots <= MaxSockets
    /\ \A k \in Sockets : socket[k].at = "open" => socket[k].late <= Recheck - socket[k].due
=============================================================================
