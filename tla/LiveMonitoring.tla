--------------------------- MODULE LiveMonitoring ---------------------------
(***************************************************************************)
(* Live video of one candidate for one administrator: the in-process hub   *)
(* (realtime/hub.py), the two WebSocket handlers (api/v1/ws.py), the       *)
(* candidate's publisher (useMediaPublisher.ts) and the administrator's    *)
(* viewer (useMediaViewer.ts).                                             *)
(*                                                                         *)
(* The server runs on one event loop: a handler gives way only where it    *)
(* waits for a message, so that one message is handled in one step.  A     *)
(* socket keeps the order of its messages in each direction; it may break  *)
(* at any time, and the server notices later than the client that is left. *)
(* ICE candidates are left out: both ends keep them until their            *)
(* description is there, and drop those of another negotiation.  The       *)
(* attempt stays open and its proctoring session active.                   *)
(***************************************************************************)
EXTENDS Integers, Sequences, FiniteSets

CONSTANTS
    None,
    MaxRetries,     \* MAX_RETRIES of the viewer
    MaxConnects,    \* bound: sockets each side opens
    MaxViews,       \* bound: times the detail view is opened
    MaxOffers,      \* bound: negotiations
    MaxFaults       \* bound: failures of a peer connection and losses of the devices

Sockets == {"admin", "candidate"} \X (1..MaxConnects)

\* None stands for what is not there.
ASSUME LiveConstants ==
    /\ None \notin Sockets /\ None \notin {"servers", "offer"}
    /\ None \notin [id : Nat, answered : BOOLEAN]
    /\ None \notin [id : Nat, answered : BOOLEAN, tracks : BOOLEAN]
    /\ {MaxRetries, MaxConnects, MaxViews, MaxOffers, MaxFaults} \subseteq Nat

VARIABLES
    media,      \* the candidate's app has an open camera or microphone stream
    lost,       \* the devices have been away
    sock,       \* the sockets: the client's end, the handler's, messages on the way
    hub,        \* MonitoringHub: the candidate's socket and the watching ones
    cand,       \* useMediaPublisher: a publish() under way, the peer connection
    viewer,     \* the detail view and useMediaViewer
    views, offers, faults

vars == <<media, lost, sock, hub, cand, viewer, views, offers, faults>>

Msg(type, id) == [type |-> type, id |-> id]
Messages == {Msg(t, 0) : t \in {"WATCH", "UNWATCH", "PUBLISHING", "NOT_PUBLISHING"}}
            \cup {Msg(t, i) : t \in {"OFFER", "ANSWER"}, i \in 1..MaxOffers}

SocketState ==
    [client  : {"unused", "open", "closed"},
     handler : {"none", "added", "serving", "over", "leaked"},
     up : Seq(Messages), down : Seq(Messages)]

Publisher ==
    [publishing : {None, "servers", "offer"},
     pc : {None} \cup [id : 1..MaxOffers, answered : BOOLEAN, tracks : BOOLEAN]]

Viewer ==
    [open : BOOLEAN, retry : BOOLEAN, retries : 0..MaxRetries,
     pc : {None} \cup [id : 1..MaxOffers, answered : BOOLEAN],
     state : {"idle", "connecting", "connected", "unavailable", "failed"}]

NoViewer == [open |-> FALSE, retry |-> FALSE, retries |-> 0, pc |-> None, state |-> "idle"]

TypeOK ==
    /\ media \in BOOLEAN /\ lost \in BOOLEAN
    /\ sock \in [Sockets -> SocketState]
    /\ hub \in [candidate : {None} \cup Sockets, watchers : SUBSET Sockets]
    /\ cand \in Publisher /\ viewer \in Viewer
    /\ views \in 0..MaxViews /\ offers \in 0..MaxOffers /\ faults \in 0..MaxFaults

Init ==
    /\ media = TRUE /\ lost = FALSE
    /\ sock = [s \in Sockets |->
                 [client |-> "unused", handler |-> "none", up |-> <<>>, down |-> <<>>]]
    /\ hub = [candidate |-> None, watchers |-> {}]
    /\ cand = [publishing |-> None, pc |-> None]
    /\ viewer = NoViewer
    /\ views = 0 /\ offers = 0 /\ faults = 0

-----------------------------------------------------------------------------
(* Sending *)

Open(side) == {s \in Sockets : s[1] = side /\ sock[s].client = "open"}

\* A client sends: nothing happens without an open socket.
Spoken(f, side, msg) ==
    [s \in Sockets |-> IF s[1] = side /\ f[s].client = "open"
                       THEN [f[s] EXCEPT !.up = Append(@, msg)] ELSE f[s]]

\* The server sends out[s] to every socket s of out; what goes to a broken one is lost.
Delivered(f, out) ==
    [s \in Sockets |-> IF s \in DOMAIN out /\ f[s].client = "open"
                       THEN [f[s] EXCEPT !.down = Append(@, out[s])] ELSE f[s]]

To(sockets, msg) == [s \in sockets |-> msg]

CandidateSocket == IF hub.candidate = None THEN {} ELSE {hub.candidate}

-----------------------------------------------------------------------------
(* The administrator's viewer *)

\* The effect runs again: the view was opened, or the connection returned.
Watching == [NoViewer EXCEPT !.open = TRUE, !.state = "connecting"]

\* Its cleanup, when the view is closed or the connection drops.
Stopped(open) == [NoViewer EXCEPT !.open = open]

Enabled == viewer.open /\ Open("admin") # {}

View ==
    /\ ~viewer.open /\ views < MaxViews
    /\ views' = views + 1
    /\ viewer' = IF Open("admin") = {} THEN Stopped(TRUE) ELSE Watching
    /\ sock' = Spoken(sock, "admin", Msg("WATCH", 0))
    /\ UNCHANGED <<media, lost, hub, cand, offers, faults>>

CloseView ==
    /\ viewer.open
    /\ viewer' = Stopped(FALSE)
    /\ sock' = Spoken(sock, "admin", Msg("UNWATCH", 0))
    /\ UNCHANGED <<media, lost, hub, cand, views, offers, faults>>

\* A newer offer replaces the connection, a repeated one is ignored.
OnOffer(id) ==
    viewer' = IF viewer.pc # None /\ viewer.pc.id = id THEN viewer
              ELSE [viewer EXCEPT !.pc = [id |-> id, answered |-> FALSE]]

Answer ==
    /\ viewer.pc # None /\ ~viewer.pc.answered
    /\ viewer' = [viewer EXCEPT !.pc.answered = TRUE]
    /\ sock' = Spoken(sock, "admin", Msg("ANSWER", viewer.pc.id))
    /\ UNCHANGED <<media, lost, hub, cand, views, offers, faults>>

\* renegotiate: a few times a new WATCH, then "failed".
Renegotiated ==
    IF viewer.retries >= MaxRetries
    THEN [viewer EXCEPT !.pc = None, !.retry = FALSE, !.state = "failed"]
    ELSE [viewer EXCEPT !.pc = None, !.retry = TRUE, !.retries = @ + 1, !.state = "connecting"]

\* Both ends hold the same negotiation, offered and answered.
Linked == /\ viewer.pc # None /\ cand.pc # None
          /\ viewer.pc.answered /\ cand.pc.answered /\ viewer.pc.id = cand.pc.id

Connected ==
    /\ Linked /\ viewer.state # "connected"
    /\ viewer' = [viewer EXCEPT !.retry = FALSE, !.retries = 0, !.state = "connected"]
    /\ UNCHANGED <<media, lost, sock, hub, cand, views, offers, faults>>

\* The other end has closed, or never got the answer: "failed", or "disconnected" for too long.
PeerGone ==
    /\ viewer.pc # None /\ viewer.pc.answered /\ ~Linked
    /\ viewer' = Renegotiated
    /\ UNCHANGED <<media, lost, sock, hub, cand, views, offers, faults>>

\* The network between the two, or a step of the negotiation, fails.
MediaFails ==
    /\ viewer.pc # None /\ faults < MaxFaults
    /\ faults' = faults + 1
    /\ viewer' = Renegotiated
    /\ UNCHANGED <<media, lost, sock, hub, cand, views, offers>>

Retry ==
    /\ viewer.retry
    /\ viewer' = [viewer EXCEPT !.retry = FALSE]
    /\ sock' = Spoken(sock, "admin", Msg("WATCH", 0))
    /\ UNCHANGED <<media, lost, hub, cand, views, offers, faults>>

AdminReceives(s) ==
    LET msg == Head(sock[s].down) IN
    /\ s \in Open("admin") /\ sock[s].down # <<>>
    /\ sock' = [sock EXCEPT ![s].down = Tail(@)]
    /\ \/ /\ ~viewer.open \/ msg.type = "PUBLISHING"
          /\ UNCHANGED viewer
       \/ /\ viewer.open /\ msg.type = "NOT_PUBLISHING"
          /\ viewer' = [viewer EXCEPT !.state = "unavailable"]
       \/ /\ viewer.open /\ msg.type = "OFFER"
          /\ OnOffer(msg.id)
    /\ UNCHANGED <<media, lost, hub, cand, views, offers, faults>>

-----------------------------------------------------------------------------
(* The candidate's publisher *)

Closed == [publishing |-> None, pc |-> None]

\* publish: without a track it says so, otherwise it starts over; a publish() still under way is
\* superseded (generation).
OnWatch(f) ==
    IF media THEN /\ cand' = [Closed EXCEPT !.publishing = "servers"]
                  /\ sock' = f
    ELSE /\ UNCHANGED cand
         /\ sock' = Spoken(f, "candidate", Msg("NOT_PUBLISHING", 0))

\* An answer of the negotiation the connection belongs to.
Mine(msg) == cand.pc # None /\ cand.pc.id = msg.id

CandidateReceives(s) ==
    LET msg == Head(sock[s].down)
        rest == [sock EXCEPT ![s].down = Tail(@)]
    IN
    /\ s \in Open("candidate") /\ sock[s].down # <<>>
    /\ \/ /\ msg.type = "WATCH"
          /\ OnWatch(rest)
       \/ /\ msg.type = "UNWATCH"
          /\ cand' = Closed /\ sock' = rest
       \/ /\ msg.type = "ANSWER"
          /\ cand' = IF Mine(msg) THEN [cand EXCEPT !.pc.answered = TRUE] ELSE cand
          /\ sock' = rest
    /\ UNCHANGED <<media, lost, hub, viewer, views, offers, faults>>

\* The ICE servers are there: the connection is made, with an id of its own.
CreatePeer ==
    /\ cand.publishing = "servers" /\ offers < MaxOffers
    /\ offers' = offers + 1
    /\ cand' = [publishing |-> "offer",
                pc |-> [id |-> offers', answered |-> FALSE, tracks |-> media]]
    /\ UNCHANGED <<media, lost, sock, hub, viewer, views, faults>>

SendOffer ==
    /\ cand.publishing = "offer"
    /\ cand' = [cand EXCEPT !.publishing = None]
    /\ sock' = Spoken(sock, "candidate", Msg("OFFER", cand.pc.id))
    /\ UNCHANGED <<media, lost, hub, viewer, views, offers, faults>>

\* The devices go away (useMediaDevice): the tracks that are being sent end with them.
LoseMedia ==
    /\ media /\ faults < MaxFaults
    /\ media' = FALSE /\ lost' = TRUE /\ faults' = faults + 1
    /\ cand' = IF cand.pc = None THEN cand ELSE [cand EXCEPT !.pc.tracks = FALSE]
    /\ UNCHANGED <<sock, hub, viewer, views, offers>>

\* They are opened again; the hook keeps the new streams for the next publish().
RegainMedia ==
    /\ ~media
    /\ media' = TRUE
    /\ UNCHANGED <<lost, sock, hub, cand, viewer, views, offers, faults>>

-----------------------------------------------------------------------------
(* The sockets and their handlers *)

IsNext(s) == s[2] = 1 + Cardinality({t \in Sockets : t[1] = s[1] /\ sock[t].client # "unused"})

\* A client opens a socket and the hub gets to know it.  The viewer asks to watch as soon as its connection is there.
ConnectAdmin(s) ==
    /\ s[1] = "admin" /\ IsNext(s) /\ Open("admin") = {}
    /\ viewer' = IF viewer.open THEN Watching ELSE viewer
    /\ sock' = [sock EXCEPT ![s] = [client |-> "open", handler |-> "serving", down |-> <<>>,
                                    up |-> IF viewer.open THEN <<Msg("WATCH", 0)>> ELSE <<>>]]
    /\ UNCHANGED <<media, lost, hub, cand, views, offers, faults>>

ConnectCandidate(s) ==
    /\ s[1] = "candidate" /\ IsNext(s) /\ Open("candidate") = {}
    /\ hub' = [hub EXCEPT !.candidate = s]
    /\ sock' = [sock EXCEPT ![s].client = "open", ![s].handler = "added"]
    /\ UNCHANGED <<media, lost, cand, viewer, views, offers, faults>>

\* Mutant: a candidate that comes back is not asked for its video.
NobodyToAsk(s) == {}

\* Who is asked for a fresh offer because somebody is watching already.
Asked(s) == IF s[1] = "candidate" /\ hub.watchers # {} THEN CandidateSocket ELSE {}

\* CONNECTION_READY to a candidate.  When the client is gone already this raises before the try of
\* the handler, so that its finally never runs: the hub keeps the dead socket.  (An administrator's
\* handler may raise here too; it watches nothing yet.)
Greet(s) ==
    /\ sock[s].handler = "added"
    /\ sock' = IF sock[s].client = "open"
               THEN Delivered([sock EXCEPT ![s].handler = "serving"],
                              To(Asked(s), Msg("WATCH", 0)))
               ELSE [sock EXCEPT ![s].handler = "leaked"]
    /\ UNCHANGED <<media, lost, hub, cand, viewer, views, offers, faults>>

\* A socket breaks or is closed by its app: what the client sent last may be lost, what it was to
\* receive is.  Both hooks close their peer connection.
Break(s, n) ==
    /\ sock[s].client = "open"
    /\ sock' = [sock EXCEPT ![s].client = "closed", ![s].down = <<>>,
                            ![s].up = SubSeq(@, 1, n)]
    /\ IF s[1] = "admin" THEN viewer' = Stopped(viewer.open) /\ UNCHANGED cand
       ELSE cand' = Closed /\ UNCHANGED viewer
    /\ UNCHANGED <<media, lost, hub, views, offers, faults>>

\* Mutant: the candidate is not told that nobody watches any more.
ToldNothing(watchers) == {}

\* _stop_watch: the candidate is told when the last one has gone.
Told(watchers) == IF watchers = {} THEN CandidateSocket ELSE {}

StopWatch(f, s) ==
    /\ hub' = [hub EXCEPT !.watchers = @ \ {s}]
    /\ sock' = Delivered(f, To(Told(hub.watchers \ {s}), Msg("UNWATCH", 0)))

\* Mutant: whichever socket closes, the candidate is taken for offline.
AnySocket(s) == s[1] = "candidate"

\* remove_candidate: a stale socket that closes after its replacement connected changes nothing.
Present(s) == hub.candidate = s

\* The finally of a handler whose client has gone.
Finish(s) ==
    /\ sock[s].handler = "serving" /\ sock[s].client = "closed" /\ sock[s].up = <<>>
    /\ LET over == [sock EXCEPT ![s].handler = "over"] IN
       \/ /\ s \in hub.watchers
          /\ StopWatch(over, s)
       \/ /\ s \notin hub.watchers
          /\ hub' = [hub EXCEPT !.candidate = IF Present(s) THEN None ELSE @]
          /\ sock' = over
    /\ UNCHANGED <<media, lost, cand, viewer, views, offers, faults>>

\* _handle_admin_message; an answer is relayed for a watcher.
HandleAdmin(s) ==
    LET msg == Head(sock[s].up)
        rest == [sock EXCEPT ![s].up = Tail(@)]
        publishing == IF hub.candidate = None THEN "NOT_PUBLISHING" ELSE "PUBLISHING"
    IN
    /\ s[1] = "admin" /\ sock[s].handler = "serving" /\ sock[s].up # <<>>
    /\ \/ /\ msg.type = "WATCH"
          /\ hub' = [hub EXCEPT !.watchers = @ \cup {s}]
          /\ sock' = Delivered(rest, [t \in CandidateSocket \cup {s} |->
                                        IF t = s THEN Msg(publishing, 0) ELSE Msg("WATCH", 0)])
       \/ /\ msg.type = "UNWATCH"
          /\ StopWatch(rest, s)
       \/ /\ msg.type = "ANSWER"
          /\ sock' = Delivered(rest, To(IF s \in hub.watchers THEN CandidateSocket ELSE {}, msg))
          /\ UNCHANGED hub
    /\ UNCHANGED <<media, lost, cand, viewer, views, offers, faults>>

\* _handle_candidate_message: relayed to whoever watches.
HandleCandidate(s) ==
    /\ s[1] = "candidate" /\ sock[s].handler = "serving" /\ sock[s].up # <<>>
    /\ sock' = Delivered([sock EXCEPT ![s].up = Tail(@)], To(hub.watchers, Head(sock[s].up)))
    /\ UNCHANGED <<media, lost, hub, cand, viewer, views, offers, faults>>

Next ==
    \/ View \/ CloseView \/ Answer \/ Connected \/ PeerGone \/ MediaFails \/ Retry
    \/ CreatePeer \/ SendOffer \/ LoseMedia \/ RegainMedia
    \/ \E s \in Sockets :
          \/ ConnectAdmin(s) \/ ConnectCandidate(s) \/ Greet(s) \/ Finish(s)
          \/ HandleAdmin(s) \/ HandleCandidate(s)
          \/ AdminReceives(s) \/ CandidateReceives(s)
          \/ \E n \in 0..Len(sock[s].up) : Break(s, n)

Spec == Init /\ [][Next]_vars

-----------------------------------------------------------------------------
(* Properties *)

\* Nothing is on its way: no message, no handler with something left to do, no negotiation under
\* way and no retry to come.
Quiet ==
    /\ \A s \in Sockets :
          \/ sock[s].client = "unused" \/ sock[s].handler \in {"over", "leaked"}
          \/ /\ sock[s].client = "open" /\ sock[s].handler = "serving"
             /\ sock[s].up = <<>> /\ sock[s].down = <<>>
    /\ cand.publishing = None /\ ~viewer.retry
    /\ viewer.pc # None => Linked /\ viewer.state = "connected"

\* Somebody has the view open, and both ends are connected.
Watched == Enabled /\ Open("candidate") # {}

\* Whatever broke, was reopened or reconnected before, on either side and in whatever order the
\* server noticed: when everything has settled there is video, unless the viewer has said that it
\* gave up or the candidate had no device to show.
VideoResumes ==
    Quiet /\ Watched /\ ~lost => viewer.pc # None \/ viewer.state = "failed"

\* The camera is not sent to nobody: when everything has settled and no view is open, the
\* candidate's app has no peer connection.
CameraFreed == Quiet /\ cand.pc # None => Enabled

\* When everything has settled, the presence the administrators see is the candidate's socket,
\* unless its handler died while it said hello.
PresenceHonest ==
    Quiet /\ (\A s \in Sockets : sock[s].handler # "leaked")
        => (hub.candidate # None <=> Open("candidate") # {})

\* What a comment says of a candidate that comes back (ws.py, candidate_proctoring): video resumes
\* "without the admin having to reopen the view".  Devices that were away while the app was asked,
\* or while they were being sent, are not published when they return.
VideoReturns ==
    Quiet /\ Watched /\ media
        => \/ viewer.state = "failed"
           \/ viewer.pc # None /\ cand.pc.tracks
=============================================================================
