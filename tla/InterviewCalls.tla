--------------------------- MODULE InterviewCalls ---------------------------
(***************************************************************************)
(* One live interview call (services/interview/calls.py): who holds which  *)
(* side of it in the in-process hub (realtime/calls.py), the WebSocket     *)
(* handler (api/v1/ws_calls.py), and the negotiation of video between the  *)
(* two apps (useCall.ts).  A page is one person's window; administrators   *)
(* take the interviewer's side, one at a time.                             *)
(*                                                                         *)
(* The handlers share one event loop: one message is handled in one step.  *)
(* The REST call that ends the interview runs beside it.  ICE candidates,  *)
(* media state, chat and notes are left out.                               *)
(***************************************************************************)
EXTENDS Integers, Sequences, FiniteSets

CONSTANTS
    None,
    Candidate,      \* the candidate's page
    Interviewers,   \* the administrators' pages
    MaxAttempts,    \* MAX_ATTEMPTS of useCall
    MaxSockets,     \* bound: sockets a page opens
    MaxConnects,    \* bound: sockets all open
    MaxOffers,      \* bound: negotiations
    MaxTroubles     \* bound: media connections that fail, and presses of Retry

Pages == Interviewers \cup {Candidate}
Sockets == Pages \X (1..MaxSockets)

VARIABLES
    call,       \* the row of interview_calls; "ending": ended, the hub not told yet
    room,       \* CallHub: the socket on each side
    sock,       \* the sockets: the client's end, the handler's, messages on the way up
    inbox,      \* messages on the way to a page or in its queue
    page,       \* useCall
    broken,     \* negotiations whose media connection has failed
    offers, troubles

vars == <<call, room, sock, inbox, page, broken, offers, troubles>>

Sides == {"interviewer", "candidate"}
Side(p) == IF p = Candidate THEN "candidate" ELSE "interviewer"
Other(side) == CHOOSE other \in Sides : other # side

Msg(type, id) == [type |-> type, id |-> id]
Signals == {Msg(t, 0) : t \in {"PEER_JOINED", "PEER_LEFT", "RENEGOTIATE", "CALL_ENDED",
                               "OCCUPIED", "FORBIDDEN"}}
           \cup {Msg("READY", peer) : peer \in {0, 1}}
           \cup {Msg(t, i) : t \in {"OFFER", "ANSWER"}, i \in 1..MaxOffers}

Phases == {"connecting", "waiting", "negotiating", "connected", "video-failed", "reconnecting",
           "ended", "unavailable", "occupied"}

Page == [phase : Phases, peer : BOOLEAN, attempts : 0..MaxAttempts,
         unconnected : BOOLEAN, armed : BOOLEAN, offering : BOOLEAN,
         pc : {None} \cup [id : 1..MaxOffers, answered : BOOLEAN]]

TypeOK ==
    /\ call \in {"none", "OPEN", "ending", "ENDED"}
    /\ room \in [Sides -> {None} \cup Sockets]
    /\ sock \in [Sockets -> [client  : {"unused", "open", "closed"}, shut : BOOLEAN,
                             handler : {"none", "checked", "serving", "over", "leaked"},
                             up : Seq(Signals)]]
    /\ inbox \in [Pages -> Seq(Signals)]
    /\ page \in [Pages -> {None} \cup Page]
    /\ broken \in SUBSET (1..MaxOffers)
    /\ offers \in 0..MaxOffers /\ troubles \in 0..MaxTroubles

Init ==
    /\ call = "none"
    /\ room = [side \in Sides |-> None]
    /\ sock = [s \in Sockets |-> [client |-> "unused", handler |-> "none", shut |-> FALSE,
                                  up |-> <<>>]]
    /\ inbox = [p \in Pages |-> <<>>]
    /\ page = [p \in Pages |-> None]
    /\ broken = {} /\ offers = 0 /\ troubles = 0

-----------------------------------------------------------------------------
(* Sending *)

Holds(p) == {s \in Sockets : s[1] = p /\ sock[s].client = "open"}

Spoken(p, msg) == [s \in Sockets |-> IF s \in Holds(p) THEN [sock[s] EXCEPT !.up = Append(@, msg)]
                                     ELSE sock[s]]

\* CallHub.send: to whoever is on that side; what goes to a broken socket is lost.
Sent(in, side, msg) ==
    LET s == room[side] IN
    [p \in Pages |-> IF s # None /\ s \in Holds(p) /\ ~sock[s].shut THEN Append(in[p], msg)
                     ELSE in[p]]

-----------------------------------------------------------------------------
(* The page *)

Fresh == [phase |-> "connecting", peer |-> FALSE, attempts |-> 0, unconnected |-> FALSE,
          armed |-> FALSE, offering |-> FALSE, pc |-> None]

Live(p) == page[p] # None /\ page[p].phase \notin {"ended", "unavailable", "occupied"}

\* closePc
ClosePc(q) == [q EXCEPT !.armed = FALSE, !.offering = FALSE, !.pc = None]

\* offer, until the connection is made.
Offering(q) == [ClosePc(q) EXCEPT !.offering = TRUE]

\* Attempts are only compared with the maximum.
Again(n) == IF n = MaxAttempts THEN n ELSE n + 1

\* An administrator opens the call, or gets the one that is open; the candidate joins it.
Enter(p) ==
    /\ page[p] = None
    /\ call = "OPEN" \/ (call = "none" /\ p # Candidate)
    /\ call' = "OPEN"
    /\ page' = [page EXCEPT ![p] = Fresh]
    /\ UNCHANGED <<room, sock, inbox, broken, offers, troubles>>

Connect(p) ==
    /\ Live(p) /\ Holds(p) = {}
    /\ Cardinality({s \in Sockets : sock[s].client # "unused"}) < MaxConnects
    /\ \E n \in 1..MaxSockets :
          /\ n = 1 + Cardinality({s \in Sockets : s[1] = p /\ sock[s].client # "unused"})
          /\ sock' = [sock EXCEPT ![<<p, n>>].client = "open"]
    /\ UNCHANGED <<call, room, inbox, page, broken, offers, troubles>>

\* onSignal waits while a connection is made.
Busy(q) == q.offering \/ q.unconnected

\* The socket breaks, or the server has closed it.  The first messages on the way may have come
\* before, and wait in the queue of a page that is busy.  Leaving the page is a drop for good, and
\* coming back a new connection: READY starts everything afresh.
Drop(p, n) ==
    /\ Holds(p) # {} /\ page[p] # None
    /\ n > 0 => Busy(page[p])
    /\ sock' = [s \in Sockets |-> IF s \in Holds(p) THEN [sock[s] EXCEPT !.client = "closed"]
                                  ELSE sock[s]]
    /\ inbox' = [inbox EXCEPT ![p] = SubSeq(@, 1, n)]
    /\ page' = [page EXCEPT ![p] = [ClosePc(@) EXCEPT !.peer = FALSE, !.phase = "reconnecting"]]
    /\ UNCHANGED <<call, room, broken, offers, troubles>>

\* The other side is here: the candidate offers, the interviewer waits for the offer.
Met(p, q) ==
    LET again == [q EXCEPT !.peer = TRUE, !.attempts = 0, !.unconnected = FALSE,
                           !.phase = "negotiating"]
    IN  IF p = Candidate THEN Offering(again) ELSE [again EXCEPT !.armed = TRUE]

\* READY when nobody else is there.  A connection of an earlier negotiation is gone by now.
Alone(q) == [q EXCEPT !.peer = FALSE, !.attempts = 0, !.unconnected = FALSE, !.phase = "waiting"]

\* stalled: another attempt, a few times.
Stalled(p) ==
    LET q == [page[p] EXCEPT !.armed = FALSE, !.attempts = Again(@)] IN
    IF q.attempts >= MaxAttempts THEN [q EXCEPT !.phase = "video-failed"]
    ELSE IF p = Candidate THEN Offering([q EXCEPT !.phase = "negotiating"])
    ELSE [q EXCEPT !.phase = "negotiating", !.armed = TRUE]

\* restart, by Retry or when the interviewer asks for it.
Restarted(p) ==
    LET q == [page[p] EXCEPT !.attempts = 0, !.unconnected = FALSE, !.armed = FALSE] IN
    IF ~q.peer THEN q
    ELSE IF p = Candidate THEN Offering([q EXCEPT !.phase = "negotiating"])
    ELSE [q EXCEPT !.phase = "negotiating", !.armed = TRUE]

\* The interviewer answers an offer; after an answer that never connected it is the next attempt.
Answered(q, id) ==
    LET next == IF q.unconnected THEN Again(q.attempts) ELSE q.attempts IN
    [q EXCEPT !.attempts = next, !.unconnected = TRUE, !.armed = TRUE,
              !.phase = IF q.unconnected /\ next >= MaxAttempts THEN "video-failed" ELSE @,
              !.pc = [id |-> id, answered |-> TRUE]]

Final == {"CALL_ENDED", "OCCUPIED", "FORBIDDEN"}

\* onSignal: one message at a time, each with the negotiation it starts.
Receive(p) ==
    LET msg == Head(inbox[p])
        q == page[p]
    IN
    /\ page[p] # None /\ inbox[p] # <<>> /\ ~q.offering
    /\ inbox' = [inbox EXCEPT ![p] = Tail(@)]
    /\ \/ /\ msg \in {Msg("READY", 1), Msg("PEER_JOINED", 0)}
          /\ page' = [page EXCEPT ![p] = Met(p, q)]
       \/ /\ msg = Msg("READY", 0)
          /\ page' = [page EXCEPT ![p] = Alone(q)]
       \/ /\ msg.type = "PEER_LEFT"
          /\ page' = [page EXCEPT ![p] = [ClosePc(q) EXCEPT !.peer = FALSE, !.phase = "waiting"]]
       \/ /\ msg.type = "RENEGOTIATE"
          /\ page' = [page EXCEPT ![p] = Restarted(p)]
       \/ /\ msg.type = "OFFER"
          /\ page' = [page EXCEPT ![p] = Answered(q, msg.id)]
       \/ /\ msg.type = "ANSWER"
          /\ page' = IF q.pc # None /\ q.pc.id = msg.id
                     THEN [page EXCEPT ![p].pc.answered = TRUE] ELSE page
       \/ /\ msg.type \in Final
          /\ page' = [page EXCEPT ![p] =
                [ClosePc(q) EXCEPT !.peer = FALSE,
                    !.phase = CASE msg.type = "CALL_ENDED" -> "ended"
                                [] msg.type = "OCCUPIED" -> "occupied"
                                [] msg.type = "FORBIDDEN" -> "unavailable"]]
    /\ sock' = IF msg.type = "OFFER" THEN Spoken(p, Msg("ANSWER", msg.id))
               ELSE [s \in Sockets |-> IF s \in Holds(p) /\ msg.type \in Final
                                       THEN [sock[s] EXCEPT !.client = "closed"] ELSE sock[s]]
    /\ UNCHANGED <<call, room, broken, offers, troubles>>

SendOffer ==
    /\ page[Candidate] # None /\ page[Candidate].offering /\ offers < MaxOffers
    /\ offers' = offers + 1
    /\ sock' = Spoken(Candidate, Msg("OFFER", offers'))
    /\ page' = [page EXCEPT ![Candidate].offering = FALSE, ![Candidate].armed = TRUE,
                            ![Candidate].pc = [id |-> offers', answered |-> FALSE]]
    /\ UNCHANGED <<call, room, inbox, broken, troubles>>

\* The connections of both ends belong to one negotiation, which is complete.
Linked(p) ==
    \E i \in Interviewers :
        /\ p \in {i, Candidate}
        /\ page[i] # None /\ page[Candidate] # None
        /\ page[i].pc # None /\ page[Candidate].pc # None
        /\ page[Candidate].pc.answered
        /\ page[i].pc.id = page[Candidate].pc.id /\ page[i].pc.id \notin broken

Connected(p) ==
    /\ Linked(p) /\ page[p].phase # "connected"
    /\ page' = [page EXCEPT ![p].phase = "connected", ![p].attempts = 0,
                            ![p].unconnected = FALSE, ![p].armed = FALSE]
    /\ UNCHANGED <<call, room, sock, inbox, broken, offers, troubles>>

\* No message and no negotiation is under way.
Calm ==
    /\ \A s \in Sockets : sock[s].client = "open" =>
          ~sock[s].shut /\ sock[s].handler = "serving" /\ sock[s].up = <<>>
    /\ \A p \in Pages : page[p] # None => inbox[p] = <<>> /\ ~page[p].offering

\* The watchdog, or a connection that is lost for good; either takes longer than what is under way.
Stall(p) ==
    /\ Calm
    /\ page[p] # None /\ page[p].peer
    /\ \/ page[p].armed /\ page[p].phase # "connected"
       \/ page[p].phase = "connected" /\ page[p].pc # None /\ ~Linked(p)
    /\ page' = [page EXCEPT ![p] = Stalled(p)]
    /\ UNCHANGED <<call, room, sock, inbox, broken, offers, troubles>>

Retry(p) ==
    /\ page[p] # None /\ page[p].phase = "video-failed" /\ troubles < MaxTroubles
    /\ troubles' = troubles + 1
    /\ page' = [page EXCEPT ![p] = Restarted(p)]
    /\ sock' = IF p # Candidate /\ page[p].peer THEN Spoken(p, Msg("RENEGOTIATE", 0)) ELSE sock
    /\ UNCHANGED <<call, room, inbox, broken, offers>>

MediaFails(p) ==
    /\ Linked(p) /\ troubles < MaxTroubles
    /\ troubles' = troubles + 1
    /\ broken' = broken \cup {page[p].pc.id}
    /\ UNCHANGED <<call, room, sock, inbox, page, offers>>

-----------------------------------------------------------------------------
(* The handler of a socket, and the hub *)

\* What the server says before it closes a socket itself.
Dismissed(s, msg) ==
    /\ sock' = [sock EXCEPT ![s].handler = "over", ![s].shut = TRUE, ![s].up = <<>>]
    /\ inbox' = IF sock[s].client = "open" THEN [inbox EXCEPT ![s[1]] = Append(@, msg)] ELSE inbox

\* _side: the database decides; the socket is accepted after that.
Admit(s) ==
    /\ sock[s].client # "unused" /\ sock[s].handler = "none"
    /\ \/ /\ call = "OPEN"
          /\ sock' = [sock EXCEPT ![s].handler = "checked"]
          /\ UNCHANGED inbox
       \/ /\ call # "OPEN"
          /\ Dismissed(s, Msg("FORBIDDEN", 0))
    /\ UNCHANGED <<call, room, page, broken, offers, troubles>>

\* Somebody else has the side.
Taken(s) == LET held == room[Side(s[1])] IN held # None /\ held[1] # s[1]

\* Mutant: the one who comes back is not announced.
FirstOnly(s) == IF s[2] = 1 THEN {"PEER_JOINED"} ELSE {}

\* What the other side is told of a newcomer.
News(s) == {"PEER_JOINED"}

\* READY to a newcomer, and PEER_JOINED to the other side.
Greeted(s) ==
    LET peer == IF room[Other(Side(s[1]))] = None THEN 0 ELSE 1
        told == [inbox EXCEPT ![s[1]] = Append(@, Msg("READY", peer))]
    IN  IF News(s) = {} THEN told ELSE Sent(told, Other(Side(s[1])), Msg("PEER_JOINED", 0))

\* CallHub.join: another person's side is not taken, one's own is, and the socket that had it closed.
\* When the client is gone already, READY raises before the try of the handler: its finally never
\* runs, and the hub keeps the dead socket.
Join(s) ==
    LET side == Side(s[1])
        gone == sock[s].client = "closed"
    IN
    /\ sock[s].handler = "checked"
    /\ \/ /\ Taken(s)
          /\ Dismissed(s, Msg("OCCUPIED", 0))
          /\ UNCHANGED room
       \/ /\ ~Taken(s)
          /\ room' = [room EXCEPT ![side] = s]
          /\ sock' = [t \in Sockets |->
                        IF t = s THEN IF gone THEN [sock[t] EXCEPT !.handler = "leaked", !.up = <<>>]
                                      ELSE [sock[t] EXCEPT !.handler = "serving"]
                        ELSE IF t = room[side] THEN [sock[t] EXCEPT !.shut = TRUE]
                        ELSE sock[t]]
          /\ inbox' = IF gone THEN inbox ELSE Greeted(s)
    /\ UNCHANGED <<call, page, broken, offers, troubles>>

\* _handle: a message of one side is relayed to the other.
Handle(s) ==
    /\ sock[s].handler = "serving" /\ ~sock[s].shut /\ sock[s].up # <<>>
    /\ sock' = [sock EXCEPT ![s].up = Tail(@)]
    /\ inbox' = Sent(inbox, Other(Side(s[1])), Head(sock[s].up))
    /\ UNCHANGED <<call, room, page, broken, offers, troubles>>

\* CallHub.leave: a socket that was replaced changes nothing.
Leaves(s) == room[Side(s[1])] = s

\* The finally of a handler whose client has gone, or that was closed.  What the client had sent
\* may be read first.
Finish(s) ==
    /\ sock[s].handler = "serving" /\ (sock[s].client = "closed" \/ sock[s].shut)
    /\ sock' = [sock EXCEPT ![s].handler = "over", ![s].up = <<>>]
    /\ \/ /\ Leaves(s)
          /\ room' = [room EXCEPT ![Side(s[1])] = None]
          /\ inbox' = Sent(inbox, Other(Side(s[1])), Msg("PEER_LEFT", 0))
       \/ /\ ~Leaves(s)
          /\ UNCHANGED <<room, inbox>>
    /\ UNCHANGED <<call, page, broken, offers, troubles>>

\* CallService.end, committed before the hub is told.
End ==
    /\ call = "OPEN"
    /\ call' = "ending"
    /\ UNCHANGED <<room, sock, inbox, page, broken, offers, troubles>>

\* CallHub.end, in the event loop.
Disconnect ==
    LET in == {room[side] : side \in Sides} \ {None} IN
    /\ call = "ending"
    /\ call' = "ENDED"
    /\ room' = [side \in Sides |-> None]
    /\ inbox' = [p \in Pages |-> IF Holds(p) \cap in = {} THEN inbox[p]
                                 ELSE Append(inbox[p], Msg("CALL_ENDED", 0))]
    /\ sock' = [s \in Sockets |-> IF s \in in THEN [sock[s] EXCEPT !.shut = TRUE] ELSE sock[s]]
    /\ UNCHANGED <<page, broken, offers, troubles>>

Next ==
    \/ \E p \in Pages :
          \/ Enter(p) \/ Connect(p) \/ Receive(p)
          \/ Connected(p) \/ Stall(p) \/ Retry(p) \/ MediaFails(p)
          \/ \E n \in 0..Len(inbox[p]) : Drop(p, n)
    \/ \E s \in Sockets : Admit(s) \/ Join(s) \/ Handle(s) \/ Finish(s)
    \/ SendOffer \/ End \/ Disconnect

Spec == Init /\ [][Next]_vars

-----------------------------------------------------------------------------
(* Properties *)

\* Besides, no handler has anything left to do and nobody is about to negotiate.
Quiet ==
    /\ Calm /\ call # "ending"
    /\ \A s \in Sockets : sock[s].client = "closed" => sock[s].handler \in {"over", "leaked"}
    /\ \A p \in Pages : page[p] # None =>
          /\ page[p].armed => page[p].phase = "connected"
          /\ Linked(p) <=> page[p].phase = "connected"

Leaked == \E s \in Sockets : sock[s].handler = "leaked"

\* On either side of the call.
Present(side) == \E p \in Pages : Side(p) = side /\ Holds(p) # {}

\* Whoever reconnected, was replaced, left or came in whatever order the server noticed: when
\* everything has settled each side shows the other one exactly when it is there (join, leave,
\* interview_call), unless a handler died while it said hello.
SidesKnown ==
    Quiet /\ ~Leaked => \A p \in Pages : Holds(p) # {} => (page[p].peer <=> Present(Other(Side(p))))

\* When both are there they see each other, or both have been told that video could not connect:
\* neither waits for the other for ever (useCall).
VideoOrVerdict ==
    Quiet /\ Holds(Candidate) # {} =>
        \A i \in Interviewers : Holds(i) # {} /\ page[i].peer =>
            page[i].phase = page[Candidate].phase /\ page[i].phase \in {"connected", "video-failed"}

\* Both of it: a call that has settled is known for what it is on either side.
CallSettles == SidesKnown /\ VideoOrVerdict

\* What CallHub.end says: "Tells both sides the call has ended and closes their connections".  A
\* socket that was let in before the end and joins after it stays.
EndedIsEmpty == Quiet /\ call = "ENDED" => \A p \in Pages : Holds(p) = {}
=============================================================================
