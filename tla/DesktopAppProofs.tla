--------------------------- MODULE DesktopAppProofs ---------------------------
(***************************************************************************)
(* Proofs about the desktop app during an exam: the live video of          *)
(* LiveMonitoring and the exam page of ExamClient, for any number of       *)
(* sockets, negotiations, requests, edits and faults.                      *)
(*                                                                         *)
(* The video is about messages under way.  What they will come to, once    *)
(* they have arrived, is what Comes says of a queue; the invariant relates *)
(* that to what the other end wants, so that when all queues are empty     *)
(* both ends agree.                                                        *)
(***************************************************************************)
EXTENDS DesktopApp, FiniteSetTheorems, FunctionTheorems, TLAPS

-----------------------------------------------------------------------------
(* The invariant of the live video. *)

\* What holds when the messages of q have arrived: yes makes it true, no false, and now is
\* whether it holds already.
Comes(q, yes, no, now) ==
    \/ \E i \in DOMAIN q : q[i].type = yes /\ \A j \in DOMAIN q : j > i => q[j].type # no
    \/ now /\ \A j \in DOMAIN q : q[j].type # no

Has(q, type) == \E i \in DOMAIN q : q[i].type = type

\* The sockets of a side are used one after the other, and one at a time.
SocketsFit ==
    /\ \A side \in {"admin", "candidate"} : \E n \in 0..MaxConnects :
          \A k \in 1..MaxConnects : sock[<<side, k>>].client # "unused" <=> k <= n
    /\ \A s, t \in Sockets :
          s[1] = t[1] /\ sock[s].client = "open" /\ sock[t].client = "open" => s = t
    /\ \A s \in Sockets :
          /\ sock[s].client = "unused" =>
                sock[s].handler = "none" /\ sock[s].up = <<>> /\ sock[s].down = <<>>
          /\ sock[s].client = "open" => sock[s].handler \in {"added", "serving"}
          /\ sock[s].handler = "added" => s[1] = "candidate"

\* The hub knows the candidate's open socket, or one whose handler has not noticed its end.
HubFits ==
    /\ \A s \in hub.watchers : s[1] = "admin" /\ sock[s].handler = "serving"
    /\ \A s \in Open("candidate") : hub.candidate = s
    /\ hub.candidate # None =>
          /\ hub.candidate[1] = "candidate"
          /\ sock[hub.candidate].handler \in {"added", "serving", "leaked"}

Publishes == cand.pc # None \/ cand.publishing # None

\* The viewer has a connection, will ask for one, or has given up.
Provided == viewer.pc # None \/ viewer.retry \/ viewer.state = "failed"

EndsFit ==
    /\ viewer.pc # None \/ viewer.retry => viewer.open
    /\ Publishes => Open("candidate") # {}
    /\ cand.publishing = "offer" => cand.pc # None

\* The hub counts the administrator as watching exactly when the view is open.
WatchFits ==
    \A s \in Open("admin") :
        Comes(sock[s].up, "WATCH", "UNWATCH", s \in hub.watchers) <=> viewer.open

\* The candidate's app publishes only while somebody watches.
PublishFits ==
    \A s \in Open("candidate") :
        Comes(sock[s].down, "WATCH", "UNWATCH", Publishes) => hub.watchers # {}

\* As long as the devices were never away: the app refuses nobody, it publishes whenever
\* somebody watches, and a viewer without a connection has an offer coming.
VideoFits ==
    ~lost =>
        /\ media
        /\ \A s \in Sockets : s[1] = "candidate" => ~Has(sock[s].up, "NOT_PUBLISHING")
        /\ \A s \in Open("candidate") :
              sock[s].handler = "serving" /\ hub.watchers # {}
                  => Comes(sock[s].down, "WATCH", "UNWATCH", Publishes)
        /\ \A s \in Open("candidate"), a \in Open("admin") :
              sock[s].handler = "serving" /\ viewer.open =>
                  \/ Has(sock[a].up, "WATCH") \/ Has(sock[s].down, "WATCH")
                  \/ cand.publishing # None \/ Has(sock[s].up, "OFFER")
                  \/ Comes(sock[a].down, "OFFER", "NOT_PUBLISHING", Provided)

VideoInv ==
    TypeOK /\ SocketsFit /\ HubFits /\ EndsFit /\ WatchFits /\ PublishFits /\ VideoFits

-----------------------------------------------------------------------------
(* What a queue comes to. *)

LEMMA ComesAppend ==
    ASSUME NEW q \in Seq(Messages), NEW m \in Messages, NEW yes, NEW no, yes # no,
           NEW now \in BOOLEAN
    PROVE  /\ m.type = yes => Comes(Append(q, m), yes, no, now)
           /\ m.type = no => ~Comes(Append(q, m), yes, no, now)
           /\ m.type \notin {yes, no} =>
                 (Comes(Append(q, m), yes, no, now) <=> Comes(q, yes, no, now))
<1>1. /\ DOMAIN Append(q, m) = DOMAIN q \cup {Len(q) + 1}
      /\ \A i \in DOMAIN q : Append(q, m)[i] = q[i]
      /\ Append(q, m)[Len(q) + 1] = m
      /\ \A i \in DOMAIN q : i \in Nat /\ i < Len(q) + 1
      /\ Len(q) + 1 \in Nat
  OBVIOUS
<1> DEFINE p == Append(q, m)
           n == Len(q) + 1
<1> HIDE DEF p, n
<1>2. /\ DOMAIN p = DOMAIN q \cup {n} /\ p[n] = m /\ n \in Nat
      /\ \A i \in DOMAIN q : p[i] = q[i] /\ i \in Nat /\ i < n
  BY <1>1 DEF p, n
<1>3. ASSUME m.type = yes PROVE Comes(p, yes, no, now)
  <2>1. \A j \in DOMAIN p : ~(j > n)
    BY <1>2
  <2> QED
    BY <1>2, <1>3, <2>1 DEF Comes
<1>4. ASSUME m.type = no PROVE ~Comes(p, yes, no, now)
  <2>1. \A i \in DOMAIN p : i = n \/ n > i
    BY <1>2
  <2>2. n \in DOMAIN p /\ p[n].type = no
    BY <1>2, <1>4
  <2> QED
    BY <2>1, <2>2 DEF Comes
<1>5. ASSUME m.type # yes, m.type # no PROVE Comes(p, yes, no, now) <=> Comes(q, yes, no, now)
  BY <1>2, <1>5 DEF Comes
<1> QED
  BY <1>3, <1>4, <1>5 DEF p

LEMMA ComesTail ==
    ASSUME NEW q \in Seq(Messages), q # <<>>, NEW yes, NEW no, yes # no,
           NEW now \in BOOLEAN, NEW then \in BOOLEAN,
           Head(q).type = yes => then, Head(q).type = no => ~then,
           Head(q).type \notin {yes, no} => (then <=> now)
    PROVE  Comes(Tail(q), yes, no, then) <=> Comes(q, yes, no, now)
<1> DEFINE t == Tail(q)
<1>1. /\ Len(q) \in Nat \ {0} /\ DOMAIN q = 1..Len(q) /\ DOMAIN t = 1..(Len(q) - 1)
      /\ \A i \in DOMAIN t : t[i] = q[i + 1]
      /\ Head(q) = q[1]
  OBVIOUS
<1> HIDE DEF t
<1>2. \A i \in DOMAIN q : i = 1 \/ (i - 1 \in DOMAIN t /\ t[i - 1] = q[i])
  BY <1>1
<1>3. \A i \in DOMAIN t : i + 1 \in DOMAIN q /\ t[i] = q[i + 1] /\ i \in Nat /\ i > 0
  BY <1>1
<1>4. 1 \in DOMAIN q /\ \A i \in DOMAIN q : i \in Nat /\ i >= 1
  BY <1>1
<1>5. ASSUME Comes(t, yes, no, then) PROVE Comes(q, yes, no, now)
  <2>1. ASSUME NEW i \in DOMAIN t, t[i].type = yes, \A j \in DOMAIN t : j > i => t[j].type # no
        PROVE  Comes(q, yes, no, now)
    <3>1. q[i + 1].type = yes /\ i + 1 \in DOMAIN q
      BY <1>3, <2>1
    <3>2. ASSUME NEW j \in DOMAIN q, j > i + 1 PROVE q[j].type # no
      <4>1. j - 1 \in DOMAIN t /\ t[j - 1] = q[j] /\ j - 1 > i
        BY <1>2, <1>3, <1>4, <3>2
      <4> QED
        BY <2>1, <4>1
    <3> QED
      BY <3>1, <3>2 DEF Comes
  <2>2. ASSUME then, \A j \in DOMAIN t : t[j].type # no PROVE Comes(q, yes, no, now)
    <3>1. \A j \in DOMAIN q : j > 1 => q[j].type # no
      BY <1>2, <1>4, <2>2
    <3>2. CASE q[1].type = yes
      BY <3>1, <3>2, <1>4 DEF Comes
    <3>3. CASE q[1].type # yes
      <4>1. now /\ q[1].type # no
        BY <1>1, <2>2, <3>3
      <4>2. \A j \in DOMAIN q : q[j].type # no
        BY <1>4, <3>1, <4>1
      <4> QED
        BY <4>1, <4>2 DEF Comes
    <3> QED
      BY <3>2, <3>3
  <2> QED
    BY <1>5, <2>1, <2>2 DEF Comes
<1>6. ASSUME Comes(q, yes, no, now) PROVE Comes(t, yes, no, then)
  <2>1. ASSUME NEW i \in DOMAIN q, i # 1, q[i].type = yes,
               \A j \in DOMAIN q : j > i => q[j].type # no
        PROVE  Comes(t, yes, no, then)
    <3>1. i - 1 \in DOMAIN t /\ t[i - 1].type = yes
      BY <1>2, <2>1
    <3>2. ASSUME NEW j \in DOMAIN t, j > i - 1 PROVE t[j].type # no
      <4>1. j + 1 \in DOMAIN q /\ j + 1 > i /\ t[j] = q[j + 1]
        BY <1>3, <1>4, <3>2
      <4> QED
        BY <2>1, <4>1
    <3> QED
      BY <3>1, <3>2 DEF Comes
  <2>2. ASSUME then, \A j \in DOMAIN q : j > 1 => q[j].type # no
        PROVE  Comes(t, yes, no, then)
    <3>1. \A j \in DOMAIN t : t[j].type # no
      <4> TAKE j \in DOMAIN t
      <4>1. j + 1 \in DOMAIN q /\ j + 1 > 1 /\ t[j] = q[j + 1]
        BY <1>3
      <4> QED
        BY <2>2, <4>1
    <3> QED
      BY <2>2, <3>1 DEF Comes
  <2>3. CASE \E i \in DOMAIN q : q[i].type = yes /\ \A j \in DOMAIN q : j > i => q[j].type # no
    <3>1. PICK i \in DOMAIN q : q[i].type = yes /\ \A j \in DOMAIN q : j > i => q[j].type # no
      BY <2>3
    <3>2. CASE i = 1
      <4>1. then
        BY <1>1, <3>1, <3>2
      <4> QED
        BY <2>2, <3>1, <3>2, <4>1
    <3> QED
      BY <2>1, <3>1, <3>2
  <2>4. CASE now /\ \A j \in DOMAIN q : q[j].type # no
    <3>1. then
      BY <1>1, <1>4, <2>4
    <3> QED
      BY <2>2, <2>4, <3>1
  <2> QED
    BY <1>6, <2>3, <2>4 DEF Comes
<1> QED
  BY <1>5, <1>6 DEF t

LEMMA ComesEmpty ==
    ASSUME NEW yes, NEW no, NEW now \in BOOLEAN
    PROVE  Comes(<<>>, yes, no, now) <=> now
BY DEF Comes

LEMMA ComesMore ==
    ASSUME NEW q, NEW yes, NEW no, NEW now, NEW then, now => then, Comes(q, yes, no, now)
    PROVE  Comes(q, yes, no, then)
BY DEF Comes

LEMMA ComesAfterYes ==
    ASSUME NEW q \in Seq(Messages), q # <<>>, NEW yes, NEW no, yes # no, Head(q).type = yes,
           NEW now \in BOOLEAN, NEW then \in BOOLEAN, Comes(Tail(q), yes, no, then)
    PROVE  Comes(q, yes, no, now)
<1>1. CASE then
  BY <1>1, ComesTail
<1>2. CASE ~then
  <2>1. PICK sure \in BOOLEAN : sure = TRUE
    OBVIOUS
  <2>2. sure /\ Comes(Tail(q), yes, no, sure)
    BY <1>2, <2>1, ComesMore
  <2> QED
    BY <2>2, ComesTail
<1> QED
  BY <1>1, <1>2

LEMMA HasAppend ==
    ASSUME NEW q \in Seq(Messages), NEW m \in Messages, NEW type
    PROVE  Has(Append(q, m), type) <=> Has(q, type) \/ m.type = type
<1>1. /\ DOMAIN Append(q, m) = DOMAIN q \cup {Len(q) + 1}
      /\ \A i \in DOMAIN q : Append(q, m)[i] = q[i]
      /\ Append(q, m)[Len(q) + 1] = m
      /\ Len(q) + 1 \notin DOMAIN q
  OBVIOUS
<1> QED
  BY <1>1 DEF Has

LEMMA HasTail ==
    ASSUME NEW q \in Seq(Messages), q # <<>>, NEW type
    PROVE  Has(q, type) <=> Head(q).type = type \/ Has(Tail(q), type)
<1> DEFINE t == Tail(q)
<1>1. /\ Len(q) \in Nat \ {0} /\ DOMAIN q = 1..Len(q) /\ DOMAIN t = 1..(Len(q) - 1)
      /\ \A i \in DOMAIN t : t[i] = q[i + 1]
      /\ Head(q) = q[1]
  OBVIOUS
<1> HIDE DEF t
<1>2. \A i \in DOMAIN q : i = 1 \/ (i - 1 \in DOMAIN t /\ t[i - 1] = q[i])
  BY <1>1
<1>3. \A i \in DOMAIN t : i + 1 \in DOMAIN q /\ t[i] = q[i + 1]
  BY <1>1
<1>4. 1 \in DOMAIN q
  BY <1>1
<1> QED
  BY <1>1, <1>2, <1>3, <1>4 DEF Has, t

LEMMA ComesUnsaid ==
    ASSUME NEW q, NEW yes, NEW no, NEW now, Comes(q, yes, no, now), ~Has(q, yes)
    PROVE  now
BY DEF Comes, Has

-----------------------------------------------------------------------------
(* Messages and sockets. *)

LEMMA SocketIs ==
    ASSUME NEW s \in Sockets
    PROVE  s[1] \in {"admin", "candidate"} /\ s[2] \in 1..MaxConnects /\ s = <<s[1], s[2]>>
BY DEF Sockets

LEMMA MsgIs ==
    /\ \A t \in {"WATCH", "UNWATCH", "PUBLISHING", "NOT_PUBLISHING"} : Msg(t, 0) \in Messages
    /\ \A t \in {"OFFER", "ANSWER"}, i \in 1..MaxOffers : Msg(t, i) \in Messages
    /\ \A t, i : Msg(t, i).type = t
<1>1. \A t, i : Msg(t, i).type = t
  BY DEF Msg
<1>2. \A t \in {"WATCH", "UNWATCH", "PUBLISHING", "NOT_PUBLISHING"} : Msg(t, 0) \in Messages
  BY DEF Messages
<1>3. \A t \in {"OFFER", "ANSWER"}, i \in 1..MaxOffers : Msg(t, i) \in Messages
  BY DEF Messages
<1> QED
  BY <1>1, <1>2, <1>3

LEMMA SocketType ==
    ASSUME NEW x \in SocketState
    PROVE  /\ x.client \in {"unused", "open", "closed"}
           /\ x.handler \in {"none", "added", "serving", "over", "leaked"}
           /\ x.up \in Seq(Messages) /\ x.down \in Seq(Messages)
           /\ \A q \in Seq(Messages) :
                 [x EXCEPT !.up = q] \in SocketState /\ [x EXCEPT !.down = q] \in SocketState
           /\ \A h \in {"none", "added", "serving", "over", "leaked"} :
                 [x EXCEPT !.handler = h] \in SocketState
BY DEF SocketState

LEMMA SpokenIs ==
    ASSUME NEW f \in [Sockets -> SocketState], NEW side, NEW msg \in Messages
    PROVE  /\ Spoken(f, side, msg) \in [Sockets -> SocketState]
           /\ \A s \in Sockets :
                 /\ Spoken(f, side, msg)[s].client = f[s].client
                 /\ Spoken(f, side, msg)[s].handler = f[s].handler
                 /\ Spoken(f, side, msg)[s].down = f[s].down
                 /\ s[1] = side /\ f[s].client = "open" =>
                       Spoken(f, side, msg)[s].up = Append(f[s].up, msg)
                 /\ ~(s[1] = side /\ f[s].client = "open") => Spoken(f, side, msg)[s] = f[s]
<1>1. ASSUME NEW s \in Sockets
      PROVE  /\ f[s] \in SocketState
             /\ Append(f[s].up, msg) \in Seq(Messages)
             /\ [f[s] EXCEPT !.up = Append(@, msg)] \in SocketState
  <2>1. f[s] \in SocketState
    OBVIOUS
  <2>2. f[s].up \in Seq(Messages)
    BY <2>1, SocketType
  <2>3. Append(f[s].up, msg) \in Seq(Messages)
    BY <2>2
  <2> QED
    BY <2>1, <2>3, SocketType
<1>2. \A s \in Sockets : [f[s] EXCEPT !.up = Append(@, msg)].up = Append(f[s].up, msg)
  BY <1>1 DEF SocketState
<1> QED
  BY <1>1, <1>2 DEF Spoken

LEMMA DeliveredIs ==
    ASSUME NEW f \in [Sockets -> SocketState], NEW out,
           \A s \in DOMAIN out \cap Sockets : out[s] \in Messages
    PROVE  /\ Delivered(f, out) \in [Sockets -> SocketState]
           /\ \A s \in Sockets :
                 /\ Delivered(f, out)[s].client = f[s].client
                 /\ Delivered(f, out)[s].handler = f[s].handler
                 /\ Delivered(f, out)[s].up = f[s].up
                 /\ s \in DOMAIN out /\ f[s].client = "open" =>
                       Delivered(f, out)[s].down = Append(f[s].down, out[s])
                 /\ ~(s \in DOMAIN out /\ f[s].client = "open") => Delivered(f, out)[s] = f[s]
<1>1. ASSUME NEW s \in Sockets, s \in DOMAIN out
      PROVE  /\ Append(f[s].down, out[s]) \in Seq(Messages)
             /\ [f[s] EXCEPT !.down = Append(@, out[s])] \in SocketState
  <2>1. f[s] \in SocketState /\ out[s] \in Messages
    BY <1>1
  <2>2. f[s].down \in Seq(Messages)
    BY <2>1, SocketType
  <2>3. Append(f[s].down, out[s]) \in Seq(Messages)
    BY <2>1, <2>2
  <2> QED
    BY <2>1, <2>3, SocketType
<1>2. \A s \in Sockets : s \in DOMAIN out =>
        [f[s] EXCEPT !.down = Append(@, out[s])].down = Append(f[s].down, out[s])
  BY <1>1 DEF SocketState
<1> QED
  BY <1>1, <1>2 DEF Delivered

\* Handlers come to their end without a change of who is connected.
LEMMA EndsKept ==
    ASSUME SocketsFit,
           \A s \in Sockets :
              /\ sock'[s].client = sock[s].client
              /\ sock[s].client = "unused" => sock'[s] = sock[s]
              /\ \/ sock'[s].handler = sock[s].handler
                 \/ sock[s].client = "open" /\ sock'[s].handler = "serving"
                 \/ sock[s].client # "open" /\ sock'[s].handler \in {"over", "leaked"}
    PROVE  SocketsFit' /\ \A side : Open(side)' = Open(side)
<1>1. \A side : Open(side)' = Open(side)
  BY DEF Open
<1>2. \A side \in {"admin", "candidate"}, k \in 1..MaxConnects : <<side, k>> \in Sockets
  BY DEF Sockets
<1>3. \A side \in {"admin", "candidate"} : \E n \in 0..MaxConnects :
         \A k \in 1..MaxConnects : sock'[<<side, k>>].client # "unused" <=> k <= n
  <2> TAKE side \in {"admin", "candidate"}
  <2>1. PICK n \in 0..MaxConnects :
          \A k \in 1..MaxConnects : sock[<<side, k>>].client # "unused" <=> k <= n
    BY DEF SocketsFit
  <2>2. \A k \in 1..MaxConnects : sock'[<<side, k>>].client # "unused" <=> k <= n
    BY <1>2, <2>1
  <2> QED
    BY <2>2
<1>4. \A s, t \in Sockets :
         s[1] = t[1] /\ sock'[s].client = "open" /\ sock'[t].client = "open" => s = t
  BY DEF SocketsFit
<1>5. ASSUME NEW s \in Sockets
      PROVE  /\ sock'[s].client = "unused" =>
                  sock'[s].handler = "none" /\ sock'[s].up = <<>> /\ sock'[s].down = <<>>
             /\ sock'[s].client = "open" => sock'[s].handler \in {"added", "serving"}
             /\ sock'[s].handler = "added" => s[1] = "candidate"
  BY DEF SocketsFit
<1>6. SocketsFit'
  BY <1>3, <1>4, <1>5 DEF SocketsFit
<1> QED
  BY <1>1, <1>6

\* Messages change neither the sockets nor their handlers.
LEMMA SameEnds ==
    ASSUME SocketsFit,
           \A s \in Sockets :
              /\ sock'[s].client = sock[s].client /\ sock'[s].handler = sock[s].handler
              /\ sock[s].client = "unused" => sock'[s] = sock[s]
    PROVE  SocketsFit' /\ \A side : Open(side)' = Open(side)
BY EndsKept

\* A step of one end by itself: no message is sent or handled.
LEMMA LocalStep ==
    ASSUME VideoInv, TypeOK', UNCHANGED <<sock, hub>>,
           lost => lost', ~lost' => media',
           viewer'.open = viewer.open,
           viewer'.pc # None \/ viewer'.retry => viewer'.open,
           Provided => Provided', Publishes' <=> Publishes,
           cand.publishing # None => cand'.publishing # None,
           cand'.publishing = "offer" => cand'.pc # None
    PROVE  VideoInv'
<1>1. SocketsFit' /\ \A side : Open(side)' = Open(side)
  BY SameEnds DEF VideoInv
<1>2. HubFits'
  BY <1>1 DEF VideoInv, HubFits
<1>3. EndsFit'
  BY <1>1 DEF VideoInv, EndsFit
<1>4. WatchFits'
  BY <1>1 DEF VideoInv, WatchFits, Comes
<1>5. PublishFits'
  BY <1>1 DEF VideoInv, PublishFits, Comes
<1>6. ASSUME ~lost' PROVE VideoFits'
  <2>1. ~lost /\ VideoFits
    BY <1>6 DEF VideoInv
  <2>2. \A s \in Open("candidate") :
          sock[s].handler = "serving" /\ hub.watchers # {}
              => Comes(sock[s].down, "WATCH", "UNWATCH", Publishes')
    BY <2>1 DEF VideoFits, Comes
  <2>3. ASSUME NEW s \in Open("candidate"), NEW a \in Open("admin"),
               sock[s].handler = "serving", viewer.open
        PROVE  \/ Has(sock[a].up, "WATCH") \/ Has(sock[s].down, "WATCH")
               \/ cand'.publishing # None \/ Has(sock[s].up, "OFFER")
               \/ Comes(sock[a].down, "OFFER", "NOT_PUBLISHING", Provided')
    <3>1. Comes(sock[a].down, "OFFER", "NOT_PUBLISHING", Provided)
            => Comes(sock[a].down, "OFFER", "NOT_PUBLISHING", Provided')
      BY DEF Comes
    <3> QED
      BY <2>1, <2>3, <3>1 DEF VideoFits
  <2>4. media' /\ \A s \in Sockets : s[1] = "candidate" => ~Has(sock[s].up, "NOT_PUBLISHING")
    BY <1>6, <2>1 DEF VideoFits
  <2> QED
    BY <1>1, <2>2, <2>3, <2>4 DEF VideoFits
<1> QED
  BY <1>1, <1>2, <1>3, <1>4, <1>5, <1>6 DEF VideoInv, VideoFits

-----------------------------------------------------------------------------
(* Steps of one end. *)

LEMMA ViewerType ==
    ASSUME NEW v \in Viewer
    PROVE  /\ v.open \in BOOLEAN /\ v.retry \in BOOLEAN /\ v.retries \in 0..MaxRetries
           /\ v.pc \in {None} \cup [id : 1..MaxOffers, answered : BOOLEAN]
           /\ v.state \in {"idle", "connecting", "connected", "unavailable", "failed"}
BY DEF Viewer

LEMMA PublisherType ==
    ASSUME NEW c \in Publisher
    PROVE  /\ c.publishing \in {None, "servers", "offer"}
           /\ c.pc \in {None} \cup [id : 1..MaxOffers, answered : BOOLEAN, tracks : BOOLEAN]
BY DEF Publisher

LEMMA Constant ==
    /\ MaxRetries \in Nat /\ MaxConnects \in Nat /\ MaxViews \in Nat /\ MaxOffers \in Nat
    /\ MaxFaults \in Nat
    /\ None \notin Sockets /\ None # "servers" /\ None # "offer"
    /\ \A i \in 1..MaxOffers, b \in BOOLEAN : [id |-> i, answered |-> b] # None
    /\ \A i \in 1..MaxOffers, b, t \in BOOLEAN : [id |-> i, answered |-> b, tracks |-> t] # None
<1>1. \A i \in 1..MaxOffers, b \in BOOLEAN :
         [id |-> i, answered |-> b] \in [id : Nat, answered : BOOLEAN]
  OBVIOUS
<1>2. \A i \in 1..MaxOffers, b, t \in BOOLEAN :
         [id |-> i, answered |-> b, tracks |-> t] \in [id : Nat, answered : BOOLEAN, tracks : BOOLEAN]
  OBVIOUS
<1> QED
  BY <1>1, <1>2, LiveConstants DEF LiveConstants

LEMMA ConnectedStep == ASSUME VideoInv, Connected PROVE VideoInv'
<1>1. viewer \in Viewer /\ viewer.pc # None
  BY DEF VideoInv, TypeOK, Connected, Linked
<1>2. viewer' = [viewer EXCEPT !.retry = FALSE, !.retries = 0, !.state = "connected"]
  BY DEF Connected
<1>3. /\ viewer' \in Viewer /\ viewer'.open = viewer.open /\ viewer'.pc = viewer.pc
      /\ viewer'.retry = FALSE
  <2>1. 0 \in 0..MaxRetries
    BY Constant
  <2>2. viewer' \in Viewer
    BY <1>1, <1>2, <2>1 DEF Viewer
  <2>3. viewer'.open = viewer.open /\ viewer'.pc = viewer.pc /\ viewer'.retry = FALSE
    BY <1>1, <1>2 DEF Viewer
  <2> QED
    BY <2>2, <2>3
<1>4. UNCHANGED <<media, lost, sock, hub, cand, views, offers, faults>>
  BY DEF Connected
<1>5. TypeOK'
  BY <1>3, <1>4 DEF VideoInv, TypeOK
<1>6. Provided' /\ Publishes' = Publishes
  BY <1>1, <1>3, <1>4 DEF Provided, Publishes
<1> QED
  BY <1>3, <1>4, <1>5, <1>6, LocalStep DEF VideoInv, EndsFit, VideoFits

LEMMA RenegotiatedIs ==
    ASSUME viewer \in Viewer
    PROVE  /\ Renegotiated \in Viewer /\ Renegotiated.open = viewer.open
           /\ Renegotiated.pc = None
           /\ Renegotiated.retry \/ (~Renegotiated.retry /\ Renegotiated.state = "failed")
<1>1. CASE viewer.retries >= MaxRetries
  <2>1. Renegotiated = [viewer EXCEPT !.pc = None, !.retry = FALSE, !.state = "failed"]
    BY <1>1 DEF Renegotiated
  <2> QED
    BY <2>1 DEF Viewer
<1>2. CASE ~(viewer.retries >= MaxRetries)
  <2>1. Renegotiated = [viewer EXCEPT !.pc = None, !.retry = TRUE, !.retries = viewer.retries + 1,
                                      !.state = "connecting"]
    BY <1>2 DEF Renegotiated
  <2>2. viewer.retries + 1 \in 0..MaxRetries
    BY <1>2, ViewerType, Constant
  <2> QED
    BY <2>1, <2>2 DEF Viewer
<1> QED
  BY <1>1, <1>2

\* A viewer whose connection failed asks again or has given up.
LEMMA RenegotiateStep ==
    ASSUME VideoInv, viewer.pc # None, viewer' = Renegotiated,
           UNCHANGED <<media, lost, sock, hub, cand, views, offers>>, faults' \in 0..MaxFaults
    PROVE  VideoInv'
<1>1. viewer \in Viewer /\ viewer.open
  BY DEF VideoInv, TypeOK, EndsFit
<1>2. /\ viewer' \in Viewer /\ viewer'.open = viewer.open
      /\ viewer'.retry \/ viewer'.state = "failed"
  BY <1>1, RenegotiatedIs
<1>3. TypeOK'
  BY <1>2 DEF VideoInv, TypeOK
<1>4. Provided' /\ Publishes' = Publishes
  BY <1>2 DEF Provided, Publishes
<1> QED
  BY <1>1, <1>2, <1>3, <1>4, LocalStep DEF VideoInv, EndsFit, VideoFits

LEMMA PeerGoneStep == ASSUME VideoInv, PeerGone PROVE VideoInv'
<1>1. faults' \in 0..MaxFaults
  BY DEF PeerGone, VideoInv, TypeOK
<1> QED
  BY <1>1, RenegotiateStep DEF PeerGone

LEMMA MediaFailsStep == ASSUME VideoInv, MediaFails PROVE VideoInv'
<1>1. faults' \in 0..MaxFaults
  BY Constant DEF MediaFails, VideoInv, TypeOK
<1> QED
  BY <1>1, RenegotiateStep DEF MediaFails

LEMMA CreatePeerStep == ASSUME VideoInv, CreatePeer PROVE VideoInv'
<1>1. offers \in 0..MaxOffers /\ media \in BOOLEAN /\ offers < MaxOffers /\ offers' = offers + 1
  BY DEF VideoInv, TypeOK, CreatePeer
<1>2. offers' \in 1..MaxOffers
  BY <1>1, Constant
<1>3. cand' = [publishing |-> "offer", pc |-> [id |-> offers', answered |-> FALSE, tracks |-> media]]
  BY DEF CreatePeer
<1>4. cand' \in Publisher /\ cand'.pc # None /\ cand'.publishing # None
  BY <1>1, <1>2, <1>3, Constant DEF Publisher
<1>5. UNCHANGED <<media, lost, sock, hub, viewer, views, faults>>
  BY DEF CreatePeer
<1>6. TypeOK'
  BY <1>2, <1>4, <1>5 DEF VideoInv, TypeOK
<1>7. Publishes /\ Publishes' /\ Provided' = Provided
  BY <1>4, <1>5, Constant DEF Publishes, CreatePeer, Provided
<1> QED
  BY <1>4, <1>5, <1>6, <1>7, LocalStep DEF VideoInv, EndsFit, VideoFits

LEMMA LoseMediaStep == ASSUME VideoInv, LoseMedia PROVE VideoInv'
<1>1. cand \in Publisher
  BY DEF VideoInv, TypeOK
<1>2. cand' \in Publisher /\ cand'.publishing = cand.publishing /\ (cand'.pc # None <=> cand.pc # None)
  <2>1. CASE cand.pc = None
    BY <1>1, <2>1 DEF LoseMedia
  <2>2. CASE cand.pc # None
    <3>1. cand' = [cand EXCEPT !.pc = [cand.pc EXCEPT !.tracks = FALSE]]
      BY <2>2 DEF LoseMedia
    <3>2. cand.pc \in [id : 1..MaxOffers, answered : BOOLEAN, tracks : BOOLEAN]
      BY <1>1, <2>2, PublisherType
    <3>3. /\ [cand.pc EXCEPT !.tracks = FALSE] \in [id : 1..MaxOffers, answered : BOOLEAN, tracks : BOOLEAN]
          /\ [cand.pc EXCEPT !.tracks = FALSE].id \in 1..MaxOffers
      BY <3>2
    <3>4. [cand.pc EXCEPT !.tracks = FALSE] # None
      <4>1. [cand.pc EXCEPT !.tracks = FALSE] \in [id : Nat, answered : BOOLEAN, tracks : BOOLEAN]
        BY <3>3, Constant
      <4> QED
        BY <4>1, LiveConstants DEF LiveConstants
    <3> QED
      BY <1>1, <2>2, <3>1, <3>3, <3>4 DEF Publisher
  <2> QED
    BY <2>1, <2>2
<1>3. UNCHANGED <<sock, hub, viewer, views, offers>> /\ lost' = TRUE /\ media' = FALSE
  BY DEF LoseMedia
<1>4. faults' \in 0..MaxFaults
  BY Constant DEF LoseMedia, VideoInv, TypeOK
<1>5. TypeOK'
  BY <1>2, <1>3, <1>4 DEF VideoInv, TypeOK
<1>6. (Publishes' <=> Publishes) /\ Provided' = Provided
  BY <1>2, <1>3 DEF Publishes, Provided
<1> QED
  BY <1>2, <1>3, <1>5, <1>6, LocalStep DEF VideoInv, EndsFit

LEMMA RegainMediaStep == ASSUME VideoInv, RegainMedia PROVE VideoInv'
<1>1. UNCHANGED <<lost, sock, hub, cand, viewer, views, offers, faults>> /\ media' = TRUE
  BY DEF RegainMedia
<1>2. TypeOK'
  BY <1>1 DEF VideoInv, TypeOK
<1>3. Publishes' = Publishes /\ Provided' = Provided
  BY <1>1 DEF Publishes, Provided
<1> QED
  BY <1>1, <1>2, <1>3, LocalStep DEF VideoInv, EndsFit

-----------------------------------------------------------------------------
(* What the ends say. *)

LEMMA SockType ==
    ASSUME TypeOK, NEW s \in Sockets
    PROVE  sock[s] \in SocketState /\ sock[s].up \in Seq(Messages) /\ sock[s].down \in Seq(Messages)
<1>1. sock[s] \in SocketState
  BY DEF TypeOK
<1> QED
  BY <1>1, SocketType

\* The administrator asks to watch while the view is open, and no longer when it is closed.
LEMMA AdminSpeaks ==
    ASSUME VideoInv, NEW m \in Messages, sock' = Spoken(sock, "admin", m),
           UNCHANGED <<media, lost, hub, cand, offers, faults>>,
           viewer' \in Viewer, views' \in 0..MaxViews,
           viewer'.pc # None \/ viewer'.retry => viewer'.open,
           \/ m.type = "WATCH" /\ viewer'.open
           \/ m.type = "UNWATCH" /\ ~viewer'.open
           \/ m.type = "ANSWER" /\ viewer'.open = viewer.open /\ (Provided => Provided')
    PROVE  VideoInv'
<1>0. sock \in [Sockets -> SocketState] /\ viewer.open \in BOOLEAN /\ viewer'.open \in BOOLEAN
  BY ViewerType DEF VideoInv, TypeOK
<1>1. /\ sock' \in [Sockets -> SocketState]
      /\ \A s \in Sockets :
            /\ sock'[s].client = sock[s].client /\ sock'[s].handler = sock[s].handler
            /\ sock'[s].down = sock[s].down
            /\ s[1] = "admin" /\ sock[s].client = "open" => sock'[s].up = Append(sock[s].up, m)
            /\ ~(s[1] = "admin" /\ sock[s].client = "open") => sock'[s] = sock[s]
  BY <1>0, SpokenIs
<1>2. SocketsFit' /\ \A side : Open(side)' = Open(side)
  BY <1>1, SameEnds DEF VideoInv
<1>3. TypeOK'
  BY <1>1 DEF VideoInv, TypeOK
<1>4. HubFits'
  <2>1. \A s \in hub.watchers : s \in Sockets
    BY DEF VideoInv, TypeOK
  <2>2. hub.candidate # None => hub.candidate \in Sockets
    BY DEF VideoInv, TypeOK
  <2> QED
    BY <1>1, <1>2, <2>1, <2>2 DEF VideoInv, HubFits
<1>5. EndsFit' /\ Publishes' = Publishes
  BY <1>2 DEF VideoInv, EndsFit, Publishes
<1>6. \A s \in Open("admin") : s \in Sockets /\ sock'[s].up = Append(sock[s].up, m)
  BY <1>1 DEF Open
<1>7. \A s \in Open("candidate") : s \in Sockets /\ sock'[s] = sock[s]
  BY <1>1 DEF Open
<1>8. WatchFits'
  <2> SUFFICES ASSUME NEW s \in Open("admin")
               PROVE  Comes(sock'[s].up, "WATCH", "UNWATCH", s \in hub.watchers) <=> viewer'.open
    BY <1>2 DEF WatchFits
  <2>1. Comes(sock[s].up, "WATCH", "UNWATCH", s \in hub.watchers) <=> viewer.open
    BY DEF VideoInv, WatchFits
  <2>2. sock[s].up \in Seq(Messages)
    BY <1>6, SockType DEF VideoInv
  <2> DEFINE now == s \in hub.watchers
             c == Comes(Append(sock[s].up, m), "WATCH", "UNWATCH", now)
  <2>3. /\ m.type = "WATCH" => c
        /\ m.type = "UNWATCH" => ~c
        /\ m.type \notin {"WATCH", "UNWATCH"} =>
              (c <=> Comes(sock[s].up, "WATCH", "UNWATCH", now))
    <3>1. now \in BOOLEAN
      OBVIOUS
    <3> HIDE DEF now
    <3> QED
      BY <2>2, <3>1, ComesAppend
  <2>4. c <=> viewer'.open
    BY <1>0, <2>1, <2>3
  <2> QED
    BY <1>6, <2>4
<1>9. PublishFits'
  BY <1>2, <1>5, <1>7 DEF VideoInv, PublishFits
<1>10. ASSUME ~lost' PROVE VideoFits'
  <2>1. ~lost /\ VideoFits
    BY <1>10 DEF VideoInv
  <2>2. media' /\ \A s \in Sockets : s[1] = "candidate" => ~Has(sock'[s].up, "NOT_PUBLISHING")
    BY <1>1, <2>1 DEF VideoFits
  <2>3. \A s \in Open("candidate") :
          sock'[s].handler = "serving" /\ hub.watchers # {}
              => Comes(sock'[s].down, "WATCH", "UNWATCH", Publishes)
    BY <1>7, <2>1 DEF VideoFits
  <2>4. ASSUME NEW s \in Open("candidate"), NEW a \in Open("admin"),
               sock'[s].handler = "serving", viewer'.open
        PROVE  \/ Has(sock'[a].up, "WATCH") \/ Has(sock'[s].down, "WATCH")
               \/ cand.publishing # None \/ Has(sock'[s].up, "OFFER")
               \/ Comes(sock'[a].down, "OFFER", "NOT_PUBLISHING", Provided')
    <3>1. sock'[s] = sock[s] /\ sock'[a].up = Append(sock[a].up, m) /\ sock'[a].down = sock[a].down
      BY <1>1, <1>6, <1>7 DEF Open
    <3>2. sock[a].up \in Seq(Messages)
      BY <1>6, SockType DEF VideoInv
    <3>0. Has(Append(sock[a].up, m), "WATCH") <=> Has(sock[a].up, "WATCH") \/ m.type = "WATCH"
      BY <3>2, HasAppend
    <3>3. CASE m.type = "WATCH"
      BY <3>0, <3>1, <3>3
    <3>4. CASE m.type = "ANSWER" /\ viewer'.open = viewer.open /\ (Provided => Provided')
      <4>1. \/ Has(sock[a].up, "WATCH") \/ Has(sock[s].down, "WATCH")
            \/ cand.publishing # None \/ Has(sock[s].up, "OFFER")
            \/ Comes(sock[a].down, "OFFER", "NOT_PUBLISHING", Provided)
        BY <2>1, <2>4, <3>1, <3>4 DEF VideoFits
      <4>2. Comes(sock[a].down, "OFFER", "NOT_PUBLISHING", Provided)
              => Comes(sock[a].down, "OFFER", "NOT_PUBLISHING", Provided')
        BY <3>4 DEF Comes
      <4>3. Has(sock[a].up, "WATCH") => Has(sock'[a].up, "WATCH")
        BY <3>0, <3>1
      <4> QED
        BY <3>1, <4>1, <4>2, <4>3
    <3> QED
      BY <2>4, <3>3, <3>4
  <2> QED
    BY <1>2, <1>5, <2>2, <2>3, <2>4 DEF VideoFits
<1> QED
  BY <1>2, <1>3, <1>4, <1>5, <1>8, <1>9, <1>10 DEF VideoInv, VideoFits

LEMMA NoViewerIs ==
    /\ \A open \in BOOLEAN : /\ Stopped(open) \in Viewer /\ Stopped(open).open = open
                             /\ Stopped(open).pc = None /\ Stopped(open).retry = FALSE
    /\ Watching \in Viewer /\ Watching.open = TRUE /\ Watching.pc = None
    /\ Watching.retry = FALSE
<1>1. 0 \in 0..MaxRetries
  BY Constant
<1>2. NoViewer \in Viewer
  BY <1>1 DEF NoViewer, Viewer
<1>3. \A open \in BOOLEAN : Stopped(open) \in Viewer
  BY <1>2 DEF Stopped, Viewer
<1>4. Watching \in Viewer
  BY <1>2 DEF Watching, Viewer
<1> QED
  BY <1>3, <1>4 DEF Stopped, Watching, NoViewer

LEMMA ViewStep == ASSUME VideoInv, View PROVE VideoInv'
<1>1. /\ viewer' \in Viewer /\ viewer'.open = TRUE /\ viewer'.pc = None /\ viewer'.retry = FALSE
  BY NoViewerIs DEF View
<1>2. views' \in 0..MaxViews
  BY Constant DEF View, VideoInv, TypeOK
<1>3. Msg("WATCH", 0) \in Messages /\ Msg("WATCH", 0).type = "WATCH"
  BY MsgIs
<1> QED
  BY <1>1, <1>2, <1>3, AdminSpeaks DEF View

LEMMA CloseViewStep == ASSUME VideoInv, CloseView PROVE VideoInv'
<1>1. /\ viewer' \in Viewer /\ viewer'.open = FALSE /\ viewer'.pc = None /\ viewer'.retry = FALSE
  BY NoViewerIs DEF CloseView
<1>2. views' \in 0..MaxViews
  BY DEF CloseView, VideoInv, TypeOK
<1>3. Msg("UNWATCH", 0) \in Messages /\ Msg("UNWATCH", 0).type = "UNWATCH"
  BY MsgIs
<1> QED
  BY <1>1, <1>2, <1>3, AdminSpeaks DEF CloseView

LEMMA RetryStep == ASSUME VideoInv, Retry PROVE VideoInv'
<1>1. viewer \in Viewer /\ viewer.open
  BY DEF Retry, VideoInv, TypeOK, EndsFit
<1>2. viewer' \in Viewer /\ viewer'.open = viewer.open
  BY <1>1 DEF Retry, Viewer
<1>3. views' \in 0..MaxViews
  BY DEF Retry, VideoInv, TypeOK
<1>4. Msg("WATCH", 0) \in Messages /\ Msg("WATCH", 0).type = "WATCH"
  BY MsgIs
<1> QED
  BY <1>1, <1>2, <1>3, <1>4, AdminSpeaks DEF Retry

LEMMA AnswerStep == ASSUME VideoInv, Answer PROVE VideoInv'
<1>1. viewer \in Viewer /\ viewer.open /\ viewer.pc # None
  BY DEF Answer, VideoInv, TypeOK, EndsFit
<1>2. viewer.pc \in [id : 1..MaxOffers, answered : BOOLEAN]
  BY <1>1, ViewerType
<1>3. viewer' = [viewer EXCEPT !.pc = [viewer.pc EXCEPT !.answered = TRUE]]
  BY DEF Answer
<1>4. [viewer.pc EXCEPT !.answered = TRUE] \in [id : 1..MaxOffers, answered : BOOLEAN]
  BY <1>2
<1>5. [viewer.pc EXCEPT !.answered = TRUE] # None
  <2>1. [viewer.pc EXCEPT !.answered = TRUE] \in [id : Nat, answered : BOOLEAN]
    BY <1>4, Constant
  <2> QED
    BY <2>1, LiveConstants DEF LiveConstants
<1>6. viewer' \in Viewer /\ viewer'.open = viewer.open /\ viewer'.pc # None
  BY <1>1, <1>3, <1>4, <1>5 DEF Viewer
<1>7. views' \in 0..MaxViews
  BY DEF Answer, VideoInv, TypeOK
<1>8. Msg("ANSWER", viewer.pc.id) \in Messages /\ Msg("ANSWER", viewer.pc.id).type = "ANSWER"
  BY <1>2, MsgIs
<1>9. Provided'
  BY <1>6 DEF Provided
<1>10. /\ sock' = Spoken(sock, "admin", Msg("ANSWER", viewer.pc.id))
       /\ UNCHANGED <<media, lost, hub, cand, offers, faults>>
  BY DEF Answer
<1> QED
  BY <1>1, <1>6, <1>7, <1>8, <1>9, <1>10, AdminSpeaks

LEMMA SendOfferStep == ASSUME VideoInv, SendOffer PROVE VideoInv'
<1> DEFINE m == Msg("OFFER", cand.pc.id)
<1>0. /\ sock \in [Sockets -> SocketState] /\ cand \in Publisher
      /\ cand.publishing = "offer" /\ cand.pc # None
      /\ sock' = Spoken(sock, "candidate", m)
      /\ cand' = [cand EXCEPT !.publishing = None]
      /\ UNCHANGED <<media, lost, hub, viewer, views, offers, faults>>
  BY DEF SendOffer, VideoInv, TypeOK, EndsFit
<1>1. m \in Messages /\ m.type = "OFFER"
  <2>1. cand.pc.id \in 1..MaxOffers
    BY <1>0, PublisherType
  <2> QED
    BY <2>1, MsgIs
<1> HIDE DEF m
<1>2. /\ sock' \in [Sockets -> SocketState]
      /\ \A s \in Sockets :
            /\ sock'[s].client = sock[s].client /\ sock'[s].handler = sock[s].handler
            /\ sock'[s].down = sock[s].down
            /\ s[1] = "candidate" /\ sock[s].client = "open" => sock'[s].up = Append(sock[s].up, m)
            /\ ~(s[1] = "candidate" /\ sock[s].client = "open") => sock'[s] = sock[s]
  BY <1>0, <1>1, SpokenIs
<1>3. SocketsFit' /\ \A side : Open(side)' = Open(side)
  BY <1>2, SameEnds DEF VideoInv
<1>4. cand' \in Publisher /\ cand'.pc = cand.pc /\ cand'.publishing = None
  BY <1>0 DEF Publisher
<1>5. TypeOK'
  BY <1>0, <1>2, <1>4 DEF VideoInv, TypeOK
<1>6. HubFits'
  <2>1. \A s \in hub.watchers : s \in Sockets
    BY DEF VideoInv, TypeOK
  <2>2. hub.candidate # None => hub.candidate \in Sockets
    BY DEF VideoInv, TypeOK
  <2> QED
    BY <1>0, <1>2, <1>3, <2>1, <2>2 DEF VideoInv, HubFits
<1>7. Publishes /\ Publishes' /\ Provided' = Provided
  BY <1>0, <1>4 DEF Publishes, Provided
<1>8. EndsFit'
  BY <1>0, <1>3, <1>4, <1>7, Constant DEF VideoInv, EndsFit
<1>9. \A s \in Open("admin") : s \in Sockets /\ sock'[s] = sock[s]
  BY <1>2 DEF Open
<1>10. \A s \in Open("candidate") :
         s \in Sockets /\ sock'[s].down = sock[s].down /\ sock'[s].up = Append(sock[s].up, m)
  BY <1>2 DEF Open
<1>11. WatchFits'
  BY <1>0, <1>3, <1>9 DEF VideoInv, WatchFits
<1>12. PublishFits'
  BY <1>0, <1>3, <1>7, <1>10 DEF VideoInv, PublishFits, Comes
<1>13. ASSUME ~lost' PROVE VideoFits'
  <2>1. ~lost /\ VideoFits
    BY <1>0, <1>13 DEF VideoInv
  <2>2. \A s \in Sockets : s[1] = "candidate" => ~Has(sock'[s].up, "NOT_PUBLISHING")
    <3> SUFFICES ASSUME NEW s \in Sockets, s[1] = "candidate"
                 PROVE  ~Has(sock'[s].up, "NOT_PUBLISHING")
      OBVIOUS
    <3>1. ~Has(sock[s].up, "NOT_PUBLISHING") /\ sock[s].up \in Seq(Messages)
      BY <2>1, SockType DEF VideoFits, VideoInv
    <3>2. Has(Append(sock[s].up, m), "NOT_PUBLISHING")
            <=> Has(sock[s].up, "NOT_PUBLISHING") \/ m.type = "NOT_PUBLISHING"
      BY <1>1, <3>1, HasAppend
    <3> QED
      BY <1>1, <1>2, <3>1, <3>2
  <2>3. \A s \in Open("candidate") :
          sock'[s].handler = "serving" /\ hub'.watchers # {}
              => Comes(sock'[s].down, "WATCH", "UNWATCH", Publishes')
    <3> SUFFICES ASSUME NEW s \in Open("candidate"),
                        sock'[s].handler = "serving", hub'.watchers # {}
                 PROVE  Comes(sock'[s].down, "WATCH", "UNWATCH", Publishes')
      OBVIOUS
    <3>1. Comes(sock[s].down, "WATCH", "UNWATCH", Publishes)
      BY <1>0, <1>2, <1>10, <2>1 DEF VideoFits
    <3>2. Comes(sock[s].down, "WATCH", "UNWATCH", Publishes')
      BY <1>7, <3>1 DEF Comes
    <3> QED
      BY <1>10, <3>2
  <2>4. ASSUME NEW s \in Open("candidate") PROVE Has(sock'[s].up, "OFFER")
    <3>1. sock[s].up \in Seq(Messages)
      BY <1>10, SockType DEF VideoInv
    <3>2. Has(Append(sock[s].up, m), "OFFER") <=> Has(sock[s].up, "OFFER") \/ m.type = "OFFER"
      BY <1>1, <3>1, HasAppend
    <3> QED
      BY <1>1, <1>10, <3>2
  <2> QED
    BY <1>0, <1>3, <2>1, <2>2, <2>3, <2>4 DEF VideoFits
<1> QED
  BY <1>3, <1>5, <1>6, <1>8, <1>11, <1>12, <1>13 DEF VideoInv, VideoFits

-----------------------------------------------------------------------------
(* What the ends hear. *)

LEMMA Popped ==
    ASSUME NEW f \in [Sockets -> SocketState], NEW s \in Sockets, f[s].down # <<>>,
           NEW g, g = [f EXCEPT ![s].down = Tail(@)]
    PROVE  /\ g \in [Sockets -> SocketState]
           /\ g[s].down = Tail(f[s].down) /\ g[s].up = f[s].up
           /\ g[s].client = f[s].client /\ g[s].handler = f[s].handler
           /\ \A t \in Sockets \ {s} : g[t] = f[t]
           /\ Head(f[s].down) \in Messages /\ f[s].down \in Seq(Messages)
<1>1. f[s] \in SocketState /\ f[s].down \in Seq(Messages)
  <2>1. f[s] \in SocketState
    OBVIOUS
  <2> QED
    BY <2>1, SocketType
<1>2. Tail(f[s].down) \in Seq(Messages) /\ Head(f[s].down) \in Messages
  BY <1>1
<1>3. [f[s] EXCEPT !.down = Tail(@)] \in SocketState
  BY <1>1, <1>2, SocketType
<1>4. g = [f EXCEPT ![s] = [f[s] EXCEPT !.down = Tail(@)]]
  OBVIOUS
<1>5. g \in [Sockets -> SocketState] /\ g[s] = [f[s] EXCEPT !.down = Tail(@)]
      /\ \A t \in Sockets \ {s} : g[t] = f[t]
  BY <1>3, <1>4
<1> QED
  BY <1>1, <1>2, <1>5 DEF SocketState

LEMMA AdminReceivesStep ==
    ASSUME VideoInv, NEW s \in Sockets, AdminReceives(s)
    PROVE  VideoInv'
<1> DEFINE msg == Head(sock[s].down)
<1>0. /\ sock \in [Sockets -> SocketState] /\ viewer \in Viewer
      /\ s \in Open("admin") /\ sock[s].down # <<>>
      /\ sock' = [sock EXCEPT ![s].down = Tail(@)]
      /\ UNCHANGED <<media, lost, hub, cand, views, offers, faults>>
  BY DEF AdminReceives, VideoInv, TypeOK
<1>1. s[1] = "admin" /\ sock[s].client = "open"
  BY <1>0 DEF Open
<1>2. /\ sock' \in [Sockets -> SocketState]
      /\ sock'[s].down = Tail(sock[s].down)
      /\ \A t \in Sockets :
            /\ sock'[t].client = sock[t].client /\ sock'[t].handler = sock[t].handler
            /\ sock'[t].up = sock[t].up
            /\ t # s => sock'[t] = sock[t]
      /\ msg \in Messages /\ sock[s].down \in Seq(Messages)
  BY <1>0, Popped
<1>3. \/ viewer' = viewer /\ (~viewer.open \/ msg.type = "PUBLISHING")
      \/ msg.type = "NOT_PUBLISHING" /\ viewer' = [viewer EXCEPT !.state = "unavailable"]
      \/ msg.type = "OFFER" /\ viewer.open /\ OnOffer(msg.id)
  BY DEF AdminReceives
<1>4. /\ viewer' \in Viewer /\ viewer'.open = viewer.open
      /\ viewer'.pc # None \/ viewer'.retry => viewer'.open
      /\ viewer.open =>
           \/ msg.type = "OFFER" /\ Provided'
           \/ msg.type = "NOT_PUBLISHING"
           \/ msg.type \notin {"OFFER", "NOT_PUBLISHING"} /\ Provided' = Provided
  <2>0. viewer.pc # None \/ viewer.retry => viewer.open
    BY DEF VideoInv, EndsFit
  <2>1. CASE viewer' = viewer /\ (~viewer.open \/ msg.type = "PUBLISHING")
    BY <1>0, <2>0, <2>1 DEF Provided
  <2>2. CASE msg.type = "NOT_PUBLISHING" /\ viewer' = [viewer EXCEPT !.state = "unavailable"]
    BY <1>0, <2>0, <2>2 DEF Viewer
  <2>3. CASE msg.type = "OFFER" /\ viewer.open /\ OnOffer(msg.id)
    <3>1. CASE viewer.pc # None /\ viewer.pc.id = msg.id
      BY <1>0, <2>0, <2>3, <3>1 DEF OnOffer, Provided
    <3>2. CASE ~(viewer.pc # None /\ viewer.pc.id = msg.id)
      <4>1. viewer' = [viewer EXCEPT !.pc = [id |-> msg.id, answered |-> FALSE]]
        BY <2>3, <3>2 DEF OnOffer
      <4>2. msg.id \in 1..MaxOffers
        BY <1>2, <2>3 DEF Messages, Msg
      <4>3. /\ [id |-> msg.id, answered |-> FALSE] \in [id : 1..MaxOffers, answered : BOOLEAN]
            /\ [id |-> msg.id, answered |-> FALSE] # None
        BY <4>2, Constant
      <4>4. viewer' \in Viewer /\ viewer'.open = viewer.open /\ viewer'.pc # None
        BY <1>0, <4>1, <4>3 DEF Viewer
      <4> QED
        BY <2>3, <4>4 DEF Provided
    <3> QED
      BY <3>1, <3>2
  <2> QED
    BY <1>3, <2>1, <2>2, <2>3
<1> HIDE DEF msg
<1>5. SocketsFit' /\ \A side : Open(side)' = Open(side)
  BY <1>0, <1>1, <1>2, SameEnds DEF VideoInv
<1>6. TypeOK'
  BY <1>0, <1>2, <1>4 DEF VideoInv, TypeOK
<1>7. HubFits'
  <2>1. \A t \in hub.watchers : t \in Sockets
    BY DEF VideoInv, TypeOK
  <2>2. hub.candidate # None => hub.candidate \in Sockets
    BY DEF VideoInv, TypeOK
  <2> QED
    BY <1>0, <1>2, <1>5, <2>1, <2>2 DEF VideoInv, HubFits
<1>8. EndsFit' /\ Publishes' = Publishes
  BY <1>0, <1>4, <1>5 DEF VideoInv, EndsFit, Publishes
<1>9. \A t \in Open("candidate") : t \in Sockets /\ sock'[t] = sock[t]
  BY <1>1, <1>2 DEF Open
<1>10. \A t \in Open("admin") : t \in Sockets /\ sock'[t].up = sock[t].up /\ t = s
  BY <1>0, <1>1, <1>2 DEF Open, VideoInv, SocketsFit
<1>11. WatchFits'
  BY <1>0, <1>4, <1>5, <1>10 DEF VideoInv, WatchFits
<1>12. PublishFits'
  BY <1>0, <1>5, <1>8, <1>9 DEF VideoInv, PublishFits
<1>13. ASSUME ~lost' PROVE VideoFits'
  <2>1. ~lost /\ VideoFits
    BY <1>0, <1>13 DEF VideoInv
  <2>2. \A t \in Sockets : t[1] = "candidate" => ~Has(sock'[t].up, "NOT_PUBLISHING")
    BY <1>2, <2>1 DEF VideoFits
  <2>3. \A t \in Open("candidate") :
          sock'[t].handler = "serving" /\ hub'.watchers # {}
              => Comes(sock'[t].down, "WATCH", "UNWATCH", Publishes')
    BY <1>0, <1>8, <1>9, <2>1 DEF VideoFits
  <2>4. ASSUME NEW c \in Open("candidate"), sock'[c].handler = "serving", viewer'.open
        PROVE  \/ Has(sock'[s].up, "WATCH") \/ Has(sock'[c].down, "WATCH")
               \/ cand'.publishing # None \/ Has(sock'[c].up, "OFFER")
               \/ Comes(sock'[s].down, "OFFER", "NOT_PUBLISHING", Provided')
    <3>1. \/ Has(sock[s].up, "WATCH") \/ Has(sock[c].down, "WATCH")
          \/ cand.publishing # None \/ Has(sock[c].up, "OFFER")
          \/ Comes(sock[s].down, "OFFER", "NOT_PUBLISHING", Provided)
      BY <1>0, <1>4, <1>9, <2>1, <2>4 DEF VideoFits
    <3>2. ASSUME Comes(sock[s].down, "OFFER", "NOT_PUBLISHING", Provided)
          PROVE  Comes(Tail(sock[s].down), "OFFER", "NOT_PUBLISHING", Provided')
      <4> DEFINE now == Provided
                 then == Provided'
                 q == sock[s].down
      <4>1. /\ now \in BOOLEAN /\ then \in BOOLEAN
            /\ q \in Seq(Messages) /\ q # <<>> /\ Head(q) = msg
            /\ Comes(q, "OFFER", "NOT_PUBLISHING", now)
        BY <1>0, <1>2, <3>2 DEF Provided, msg
      <4>2. \/ msg.type = "OFFER" /\ then
            \/ msg.type = "NOT_PUBLISHING"
            \/ msg.type \notin {"OFFER", "NOT_PUBLISHING"} /\ then = now
        BY <1>4, <2>4
      <4> SUFFICES Comes(Tail(q), "OFFER", "NOT_PUBLISHING", then)
        OBVIOUS
      <4> HIDE DEF now, then, q
      <4>3. CASE msg.type = "NOT_PUBLISHING"
        <5>1. PICK no \in BOOLEAN : ~no
          OBVIOUS
        <5>2. Comes(Tail(q), "OFFER", "NOT_PUBLISHING", no)
          BY <4>1, <4>3, <5>1, ComesTail
        <5> QED
          BY <5>1, <5>2, ComesMore
      <4>4. CASE msg.type # "NOT_PUBLISHING"
        BY <4>1, <4>2, <4>4, ComesTail
      <4> QED
        BY <4>3, <4>4
    <3> QED
      BY <1>0, <1>2, <1>9, <3>1, <3>2
  <2> QED
    BY <1>0, <1>5, <1>10, <2>1, <2>2, <2>3, <2>4 DEF VideoFits
<1> QED
  BY <1>5, <1>6, <1>7, <1>8, <1>11, <1>12, <1>13 DEF VideoInv, VideoFits

LEMMA PublisherIs ==
    /\ Closed \in Publisher /\ Closed.publishing = None /\ Closed.pc = None
    /\ [Closed EXCEPT !.publishing = "servers"] \in Publisher
    /\ [Closed EXCEPT !.publishing = "servers"].publishing = "servers"
    /\ [Closed EXCEPT !.publishing = "servers"].pc = None
BY DEF Closed, Publisher

\* A candidate without a track answers that it does not publish.
LEMMA Refusing ==
    ASSUME NEW f \in [Sockets -> SocketState], NEW s \in Sockets, s[1] = "candidate",
           f[s].client = "open",
           \A t \in Sockets : t[1] = "candidate" /\ f[t].client = "open" => t = s,
           NEW g, g = Spoken(f, "candidate", Msg("NOT_PUBLISHING", 0))
    PROVE  /\ g \in [Sockets -> SocketState]
           /\ \A t \in Sockets :
                 /\ g[t].client = f[t].client /\ g[t].handler = f[t].handler
                 /\ g[t].down = f[t].down
                 /\ t # s => g[t] = f[t]
BY SpokenIs, MsgIs

LEMMA CandidateReceivesStep ==
    ASSUME VideoInv, NEW s \in Sockets, CandidateReceives(s)
    PROVE  VideoInv'
<1> DEFINE msg == Head(sock[s].down)
           rest == [sock EXCEPT ![s].down = Tail(@)]
           q == sock[s].down
<1>0. /\ sock \in [Sockets -> SocketState] /\ cand \in Publisher
      /\ s \in Open("candidate") /\ sock[s].down # <<>>
      /\ UNCHANGED <<media, lost, hub, viewer, views, offers, faults>>
  BY DEF CandidateReceives, VideoInv, TypeOK
<1>1. s[1] = "candidate" /\ sock[s].client = "open"
  BY <1>0 DEF Open
<1>2. /\ rest \in [Sockets -> SocketState]
      /\ rest[s].down = Tail(q) /\ rest[s].up = sock[s].up
      /\ rest[s].client = sock[s].client /\ rest[s].handler = sock[s].handler
      /\ \A t \in Sockets \ {s} : rest[t] = sock[t]
      /\ msg \in Messages /\ q \in Seq(Messages)
  BY <1>0, Popped
<1>3. \/ msg.type = "WATCH" /\ OnWatch(rest)
      \/ msg.type = "UNWATCH" /\ cand' = Closed /\ sock' = rest
      \/ /\ msg.type = "ANSWER" /\ sock' = rest
         /\ cand' = IF Mine(msg) THEN [cand EXCEPT !.pc.answered = TRUE] ELSE cand
  BY DEF CandidateReceives
<1> HIDE DEF msg, rest, q
<1>4. \A t \in Sockets : t[1] = "candidate" /\ rest[t].client = "open" => t = s
  BY <1>1, <1>2 DEF VideoInv, SocketsFit
<1>5. sock' = rest \/ (~media /\ sock' = Spoken(rest, "candidate", Msg("NOT_PUBLISHING", 0)))
  BY <1>3 DEF OnWatch
<1>6. /\ sock' \in [Sockets -> SocketState]
      /\ \A t \in Sockets :
            /\ sock'[t].client = sock[t].client /\ sock'[t].handler = sock[t].handler
            /\ t # s => sock'[t] = sock[t]
      /\ sock'[s].down = Tail(q)
      /\ media => sock'[s].up = sock[s].up
  <2>1. CASE sock' = rest
    BY <1>2, <2>1
  <2>2. CASE ~media /\ sock' = Spoken(rest, "candidate", Msg("NOT_PUBLISHING", 0))
    <3>1. /\ sock' \in [Sockets -> SocketState]
          /\ \A t \in Sockets :
                /\ sock'[t].client = rest[t].client /\ sock'[t].handler = rest[t].handler
                /\ sock'[t].down = rest[t].down
                /\ t # s => sock'[t] = rest[t]
      BY <1>1, <1>2, <1>4, <2>2, Refusing
    <3> QED
      BY <1>2, <2>2, <3>1
  <2> QED
    BY <1>5, <2>1, <2>2
<1>7. /\ cand' \in Publisher
      /\ cand'.publishing = "offer" => cand'.pc # None
      /\ \/ msg.type = "WATCH" /\ media /\ cand'.publishing = "servers"
         \/ msg.type = "WATCH" /\ ~media /\ cand' = cand
         \/ msg.type = "UNWATCH" /\ cand'.publishing = None /\ cand'.pc = None
         \/ /\ msg.type = "ANSWER" /\ cand'.publishing = cand.publishing
            /\ cand'.pc # None <=> cand.pc # None
  <2>0. cand.publishing = "offer" => cand.pc # None
    BY DEF VideoInv, EndsFit
  <2>1. CASE msg.type = "WATCH" /\ OnWatch(rest)
    <3>1. CASE media
      BY <2>1, <3>1, PublisherIs DEF OnWatch
    <3>2. CASE ~media
      BY <1>0, <2>0, <2>1, <3>2 DEF OnWatch
    <3> QED
      BY <3>1, <3>2
  <2>2. CASE msg.type = "UNWATCH" /\ cand' = Closed /\ sock' = rest
    BY <2>2, PublisherIs, Constant
  <2>3. CASE msg.type = "ANSWER" /\ cand' = IF Mine(msg) THEN [cand EXCEPT !.pc.answered = TRUE] ELSE cand
    <3>1. CASE Mine(msg)
      <4>1. cand.pc # None /\ cand.pc \in [id : 1..MaxOffers, answered : BOOLEAN, tracks : BOOLEAN]
        BY <1>0, <3>1, PublisherType DEF Mine
      <4>2. /\ [cand.pc EXCEPT !.answered = TRUE] \in [id : 1..MaxOffers, answered : BOOLEAN, tracks : BOOLEAN]
            /\ [cand.pc EXCEPT !.answered = TRUE].id \in 1..MaxOffers
        BY <4>1
      <4>3. [cand.pc EXCEPT !.answered = TRUE] # None
        <5>1. [cand.pc EXCEPT !.answered = TRUE] \in [id : Nat, answered : BOOLEAN, tracks : BOOLEAN]
          BY <4>2, Constant
        <5> QED
          BY <5>1, LiveConstants DEF LiveConstants
      <4>4. cand' = [cand EXCEPT !.pc = [cand.pc EXCEPT !.answered = TRUE]]
        BY <2>3, <3>1
      <4> QED
        BY <1>0, <2>3, <4>1, <4>2, <4>3, <4>4 DEF Publisher
    <3>2. CASE ~Mine(msg)
      BY <1>0, <2>0, <2>3, <3>2
    <3> QED
      BY <3>1, <3>2
  <2> QED
    BY <1>3, <2>1, <2>2, <2>3
<1>8. SocketsFit' /\ \A side : Open(side)' = Open(side)
  BY <1>1, <1>6, SameEnds DEF VideoInv
<1>9. TypeOK'
  BY <1>0, <1>6, <1>7 DEF VideoInv, TypeOK
<1>10. HubFits'
  <2>1. \A t \in hub.watchers : t \in Sockets
    BY DEF VideoInv, TypeOK
  <2>2. hub.candidate # None => hub.candidate \in Sockets
    BY DEF VideoInv, TypeOK
  <2> QED
    BY <1>0, <1>6, <1>8, <2>1, <2>2 DEF VideoInv, HubFits
<1>11. EndsFit'
  BY <1>0, <1>7, <1>8 DEF VideoInv, EndsFit, Publishes
<1>12. \A t \in Open("admin") : t \in Sockets /\ sock'[t] = sock[t]
  BY <1>1, <1>6 DEF Open
<1>13. \A t \in Open("candidate") : t = s
  BY <1>0, <1>1 DEF Open, VideoInv, SocketsFit
<1>14. WatchFits'
  BY <1>0, <1>8, <1>12 DEF VideoInv, WatchFits
<1> DEFINE now == Publishes
           then == Publishes'
<1>15. /\ now \in BOOLEAN /\ then \in BOOLEAN
       /\ \/ msg.type = "WATCH" /\ media /\ then
          \/ msg.type = "WATCH" /\ ~media
          \/ msg.type = "UNWATCH" /\ ~then
          \/ msg.type = "ANSWER" /\ then = now
  BY <1>7, Constant DEF Publishes
<1>16. /\ \A t \in Open("candidate") :
             Comes(q, "WATCH", "UNWATCH", now) => hub.watchers # {}
       /\ ~lost /\ sock[s].handler = "serving" /\ hub.watchers # {}
             => media /\ Comes(q, "WATCH", "UNWATCH", now)
  BY <1>0, <1>13 DEF VideoInv, PublishFits, VideoFits, q
<1>17. q # <<>> /\ Head(q) = msg
  BY <1>0 DEF q, msg
<1>18. PublishFits'
  <2> SUFFICES ASSUME Comes(Tail(q), "WATCH", "UNWATCH", then)
               PROVE  Comes(q, "WATCH", "UNWATCH", now)
    BY <1>0, <1>6, <1>8, <1>13, <1>16 DEF PublishFits
  <2> HIDE DEF now, then
  <2>1. CASE msg.type = "WATCH"
    <3>1. q \in Seq(Messages) /\ q # <<>> /\ now \in BOOLEAN /\ then \in BOOLEAN
      BY <1>2, <1>15, <1>17
    <3>2. Head(q).type = "WATCH"
      BY <1>17, <2>1
    <3>3. "WATCH" # "UNWATCH"
      OBVIOUS
    <3>4. Comes(Tail(q), "WATCH", "UNWATCH", then)
      OBVIOUS
    <3> QED
      BY ONLY <3>1, <3>2, <3>3, <3>4, ComesAfterYes
  <2>2. CASE msg.type # "WATCH"
    BY <1>2, <1>15, <1>17, <2>2, ComesTail
  <2> QED
    BY <2>1, <2>2
<1>19. ASSUME ~lost' PROVE VideoFits'
  <2>1. ~lost /\ VideoFits /\ media
    BY <1>0, <1>19 DEF VideoInv, VideoFits
  <2>2. \A t \in Sockets : t[1] = "candidate" => ~Has(sock'[t].up, "NOT_PUBLISHING")
    BY <1>6, <2>1 DEF VideoFits
  <2>3. sock[s].handler = "serving" /\ hub.watchers # {} => Comes(Tail(q), "WATCH", "UNWATCH", then)
    <3> SUFFICES ASSUME Comes(q, "WATCH", "UNWATCH", now)
                 PROVE  Comes(Tail(q), "WATCH", "UNWATCH", then)
      BY <1>16, <2>1
    <3> HIDE DEF now, then
    <3> QED
      BY <1>2, <1>15, <1>17, <2>1, ComesTail
  <2>4. ASSUME NEW a \in Open("admin"), sock[s].handler = "serving", viewer.open
        PROVE  \/ Has(sock[a].up, "WATCH") \/ Has(Tail(q), "WATCH")
               \/ cand'.publishing # None \/ Has(sock[s].up, "OFFER")
               \/ Comes(sock[a].down, "OFFER", "NOT_PUBLISHING", Provided)
    <3>1. \/ Has(sock[a].up, "WATCH") \/ Has(q, "WATCH")
          \/ cand.publishing # None \/ Has(sock[s].up, "OFFER")
          \/ Comes(sock[a].down, "OFFER", "NOT_PUBLISHING", Provided)
      BY <1>0, <2>1, <2>4 DEF VideoFits, q
    <3>2. Has(q, "WATCH") => Has(Tail(q), "WATCH") \/ cand'.publishing # None
      <4>1. Has(q, "WATCH") <=> msg.type = "WATCH" \/ Has(Tail(q), "WATCH")
        BY <1>2, <1>17, HasTail
      <4> QED
        BY <1>7, <2>1, <4>1, Constant
    <3>3. ASSUME msg.type = "UNWATCH"
          PROVE  Has(sock[a].up, "WATCH") \/ Has(Tail(q), "WATCH")
      <4>1. CASE hub.watchers = {}
        <5> DEFINE watches == a \in hub.watchers
        <5>1. Comes(sock[a].up, "WATCH", "UNWATCH", watches) /\ ~watches
          BY <2>4, <4>1 DEF VideoInv, WatchFits
        <5> HIDE DEF watches
        <5> QED
          BY <5>1, ComesUnsaid
      <4>2. CASE hub.watchers # {}
        <5>1. ~then
          BY <1>15, <3>3
        <5>2. Comes(Tail(q), "WATCH", "UNWATCH", then)
          BY <2>3, <2>4, <4>2
        <5> HIDE DEF then
        <5> QED
          BY <5>1, <5>2, ComesUnsaid
      <4> QED
        BY <4>1, <4>2
    <3>4. cand.publishing # None => msg.type = "UNWATCH" \/ cand'.publishing # None
      BY <1>7, Constant
    <3> QED
      BY <3>1, <3>2, <3>3, <3>4
  <2>5. Provided' = Provided
    BY <1>0 DEF Provided
  <2>6. \A t \in Open("candidate") :
          sock'[t].handler = "serving" /\ hub'.watchers # {}
              => Comes(sock'[t].down, "WATCH", "UNWATCH", then)
    BY <1>0, <1>6, <1>13, <2>3
  <2>7. ASSUME NEW t \in Open("candidate"), NEW a \in Open("admin"),
               sock'[t].handler = "serving", viewer'.open
        PROVE  \/ Has(sock'[a].up, "WATCH") \/ Has(sock'[t].down, "WATCH")
               \/ cand'.publishing # None \/ Has(sock'[t].up, "OFFER")
               \/ Comes(sock'[a].down, "OFFER", "NOT_PUBLISHING", Provided')
    <3>1. /\ t = s /\ sock'[a] = sock[a] /\ sock'[s].down = Tail(q)
          /\ sock'[s].up = sock[s].up /\ sock[s].handler = "serving" /\ viewer.open
      BY <1>0, <1>6, <1>12, <1>13, <2>1, <2>7
    <3> QED
      BY <2>4, <2>5, <3>1
  <2> QED
    BY <1>0, <1>8, <2>1, <2>2, <2>6, <2>7 DEF VideoFits
<1> QED
  BY <1>8, <1>9, <1>10, <1>11, <1>14, <1>18, <1>19 DEF VideoInv, VideoFits

-----------------------------------------------------------------------------
(* What the server does with a message. *)

\* A message that does not take back what is to come lets it come.
LEMMA ComesOn ==
    ASSUME NEW q \in Seq(Messages), NEW m \in Messages, NEW yes, NEW no, yes # no, m.type # no,
           NEW now \in BOOLEAN, Comes(q, yes, no, now)
    PROVE  Comes(Append(q, m), yes, no, now)
BY ComesAppend

LEMMA Taken ==
    ASSUME NEW f \in [Sockets -> SocketState], NEW s \in Sockets, f[s].up # <<>>,
           NEW g, g = [f EXCEPT ![s].up = Tail(@)]
    PROVE  /\ g \in [Sockets -> SocketState]
           /\ g[s].up = Tail(f[s].up) /\ g[s].down = f[s].down
           /\ g[s].client = f[s].client /\ g[s].handler = f[s].handler
           /\ \A t \in Sockets \ {s} : g[t] = f[t]
           /\ Head(f[s].up) \in Messages /\ f[s].up \in Seq(Messages)
<1>1. f[s] \in SocketState /\ f[s].up \in Seq(Messages)
  <2>1. f[s] \in SocketState
    OBVIOUS
  <2> QED
    BY <2>1, SocketType
<1>2. Tail(f[s].up) \in Seq(Messages) /\ Head(f[s].up) \in Messages
  BY <1>1
<1>3. [f[s] EXCEPT !.up = Tail(@)] \in SocketState
  BY <1>1, <1>2, SocketType
<1>4. g = [f EXCEPT ![s] = [f[s] EXCEPT !.up = Tail(@)]]
  OBVIOUS
<1>5. g \in [Sockets -> SocketState] /\ g[s] = [f[s] EXCEPT !.up = Tail(@)]
      /\ \A t \in Sockets \ {s} : g[t] = f[t]
  BY <1>3, <1>4
<1> QED
  BY <1>1, <1>2, <1>5 DEF SocketState

LEMMA HubType ==
    ASSUME TypeOK
    PROVE  /\ hub.candidate \in {None} \cup Sockets /\ hub.watchers \in SUBSET Sockets
           /\ \A w \in SUBSET Sockets : [hub EXCEPT !.watchers = w] \in
                 [candidate : {None} \cup Sockets, watchers : SUBSET Sockets]
           /\ \A c \in {None} \cup Sockets : [hub EXCEPT !.candidate = c] \in
                 [candidate : {None} \cup Sockets, watchers : SUBSET Sockets]
BY DEF TypeOK

\* As long as the view is open, a candidate that nobody watches will be watched.
LEMMA WatchComes ==
    ASSUME VideoInv, NEW a \in Open("admin"), viewer.open, a \notin hub.watchers
    PROVE  Has(sock[a].up, "WATCH")
<1> DEFINE watches == a \in hub.watchers
<1>1. Comes(sock[a].up, "WATCH", "UNWATCH", watches) /\ ~watches
  BY DEF VideoInv, WatchFits
<1> HIDE DEF watches
<1> QED
  BY <1>1, ComesUnsaid

LEMMA HandleCandidateStep ==
    ASSUME VideoInv, NEW s \in Sockets, HandleCandidate(s)
    PROVE  VideoInv'
<1> DEFINE m == Head(sock[s].up)
           rest == [sock EXCEPT ![s].up = Tail(@)]
           out == To(hub.watchers, m)
<1>0. /\ sock \in [Sockets -> SocketState] /\ s[1] = "candidate" /\ sock[s].handler = "serving"
      /\ sock[s].up # <<>> /\ sock' = Delivered(rest, out)
      /\ UNCHANGED <<media, lost, hub, cand, viewer, views, offers, faults>>
  BY DEF HandleCandidate, VideoInv, TypeOK
<1>1. /\ rest \in [Sockets -> SocketState]
      /\ rest[s].up = Tail(sock[s].up) /\ rest[s].down = sock[s].down
      /\ rest[s].client = sock[s].client /\ rest[s].handler = sock[s].handler
      /\ \A t \in Sockets \ {s} : rest[t] = sock[t]
      /\ m \in Messages /\ sock[s].up \in Seq(Messages)
  BY <1>0, Taken
<1>2. \A t \in DOMAIN out : out[t] = m
  BY DEF To
<1>3. DOMAIN out = hub.watchers
  BY DEF To
<1> HIDE DEF rest, out, m
<1>4. /\ sock' \in [Sockets -> SocketState]
      /\ \A t \in Sockets :
            /\ sock'[t].client = rest[t].client /\ sock'[t].handler = rest[t].handler
            /\ sock'[t].up = rest[t].up
            /\ t \in hub.watchers /\ rest[t].client = "open" => sock'[t].down = Append(rest[t].down, m)
            /\ ~(t \in hub.watchers /\ rest[t].client = "open") => sock'[t] = rest[t]
  BY <1>0, <1>1, <1>2, <1>3, DeliveredIs
<1>5. sock[s].client # "unused"
  BY <1>0 DEF VideoInv, SocketsFit
<1>6. \A t \in hub.watchers : t \in Sockets /\ t[1] = "admin" /\ sock[t].handler = "serving"
  BY HubType DEF VideoInv, HubFits
<1>7. \A t \in Sockets :
         /\ sock'[t].client = sock[t].client /\ sock'[t].handler = sock[t].handler
         /\ sock[t].client = "unused" => sock'[t] = sock[t]
         /\ t # s => sock'[t].up = sock[t].up
         /\ t[1] = "candidate" => sock'[t].down = sock[t].down
  <2> SUFFICES ASSUME NEW t \in Sockets
               PROVE  /\ sock'[t].client = sock[t].client /\ sock'[t].handler = sock[t].handler
                      /\ sock[t].client = "unused" => sock'[t] = sock[t]
                      /\ t # s => sock'[t].up = sock[t].up
                      /\ t[1] = "candidate" => sock'[t].down = sock[t].down
    OBVIOUS
  <2>1. CASE t = s
    BY <1>0, <1>1, <1>4, <1>5, <1>6, <2>1
  <2>2. CASE t # s
    BY <1>1, <1>4, <1>6, <2>2
  <2> QED
    BY <2>1, <2>2
<1>8. SocketsFit' /\ \A side : Open(side)' = Open(side)
  BY <1>7, SameEnds DEF VideoInv
<1>9. TypeOK'
  BY <1>0, <1>4 DEF VideoInv, TypeOK
<1>10. HubFits'
  <2>1. hub.candidate # None => hub.candidate \in Sockets
    BY DEF VideoInv, TypeOK
  <2> QED
    BY <1>0, <1>6, <1>7, <1>8, <2>1 DEF VideoInv, HubFits
<1>11. EndsFit' /\ Publishes' = Publishes /\ Provided' = Provided
  BY <1>0, <1>8 DEF VideoInv, EndsFit, Publishes, Provided
<1>12. \A a \in Open("admin") :
         /\ a \in Sockets /\ sock'[a].up = sock[a].up
         /\ a \in hub.watchers => sock'[a].down = Append(sock[a].down, m)
         /\ a \notin hub.watchers => sock'[a].down = sock[a].down
  <2> SUFFICES ASSUME NEW a \in Open("admin")
               PROVE  /\ a \in Sockets /\ sock'[a].up = sock[a].up
                      /\ a \in hub.watchers => sock'[a].down = Append(sock[a].down, m)
                      /\ a \notin hub.watchers => sock'[a].down = sock[a].down
    OBVIOUS
  <2>1. a \in Sockets /\ a[1] = "admin" /\ sock[a].client = "open" /\ a # s
    BY <1>0 DEF Open
  <2>2. rest[a] = sock[a]
    BY <1>1, <2>1
  <2> QED
    BY <1>4, <2>1, <2>2
<1>13. \A c \in Open("candidate") : c \in Sockets /\ c[1] = "candidate"
  BY DEF Open
<1>14. WatchFits'
  BY <1>0, <1>8, <1>12 DEF VideoInv, WatchFits
<1>15. PublishFits'
  BY <1>0, <1>7, <1>8, <1>11, <1>13 DEF VideoInv, PublishFits
<1>16. ASSUME ~lost' PROVE VideoFits'
  <2>1. ~lost /\ VideoFits
    BY <1>0, <1>16 DEF VideoInv
  <2>2. \A type : Has(sock[s].up, type) <=> m.type = type \/ Has(sock'[s].up, type)
    BY <1>0, <1>1, <1>4, HasTail DEF m
  <2>3. \A t \in Sockets : t[1] = "candidate" => ~Has(sock'[t].up, "NOT_PUBLISHING")
    BY <1>7, <2>1, <2>2 DEF VideoFits
  <2>4. m.type # "NOT_PUBLISHING"
    BY <1>0, <2>1, <2>2 DEF VideoFits
  <2>5. \A c \in Open("candidate") :
          sock'[c].handler = "serving" /\ hub'.watchers # {}
              => Comes(sock'[c].down, "WATCH", "UNWATCH", Publishes')
    BY <1>0, <1>7, <1>11, <1>13, <2>1 DEF VideoFits
  <2>6. ASSUME NEW c \in Open("candidate"), NEW a \in Open("admin"),
               sock'[c].handler = "serving", viewer'.open
        PROVE  \/ Has(sock'[a].up, "WATCH") \/ Has(sock'[c].down, "WATCH")
               \/ cand'.publishing # None \/ Has(sock'[c].up, "OFFER")
               \/ Comes(sock'[a].down, "OFFER", "NOT_PUBLISHING", Provided')
    <3>1. \/ Has(sock[a].up, "WATCH") \/ Has(sock[c].down, "WATCH")
          \/ cand.publishing # None \/ Has(sock[c].up, "OFFER")
          \/ Comes(sock[a].down, "OFFER", "NOT_PUBLISHING", Provided)
      BY <1>0, <1>7, <1>13, <2>1, <2>6 DEF VideoFits
    <3>2. sock[a].down \in Seq(Messages)
      BY <1>12, SockType DEF VideoInv
    <3> DEFINE now == Provided
               q == sock[a].down
    <3>3. now \in BOOLEAN /\ q \in Seq(Messages)
      BY <3>2 DEF Provided
    <3>4. ASSUME Comes(q, "OFFER", "NOT_PUBLISHING", now)
          PROVE  Comes(sock'[a].down, "OFFER", "NOT_PUBLISHING", now)
      <4>1. CASE a \in hub.watchers
        <5>1. "OFFER" # "NOT_PUBLISHING"
          OBVIOUS
        <5>2. sock'[a].down = Append(q, m)
          BY <1>12, <2>6, <4>1
        <5> HIDE DEF now, q
        <5>3. Comes(Append(q, m), "OFFER", "NOT_PUBLISHING", now)
          BY ONLY <1>1, <2>4, <3>3, <3>4, <5>1, ComesOn
        <5> QED
          BY <5>2, <5>3
      <4>2. CASE a \notin hub.watchers
        BY <1>12, <2>6, <3>4, <4>2
      <4> QED
        BY <4>1, <4>2
    <3>5. ASSUME Has(sock[c].up, "OFFER"), ~Has(sock'[c].up, "OFFER")
          PROVE  \/ Has(sock[a].up, "WATCH")
                 \/ Comes(sock'[a].down, "OFFER", "NOT_PUBLISHING", now)
      <4>1. m.type = "OFFER"
        BY <1>7, <1>13, <2>2, <3>5
      <4>2. CASE a \in hub.watchers
        <5>1. sock'[a].down = Append(q, m)
          BY <1>12, <2>6, <4>2
        <5>2. "OFFER" # "NOT_PUBLISHING"
          OBVIOUS
        <5> HIDE DEF now, q
        <5>3. Comes(Append(q, m), "OFFER", "NOT_PUBLISHING", now)
          BY ONLY <1>1, <3>3, <4>1, <5>2, ComesAppend
        <5> QED
          BY <5>1, <5>3
      <4>3. CASE a \notin hub.watchers
        BY <1>0, <2>6, <4>3, WatchComes
      <4> QED
        BY <4>2, <4>3
    <3>6. /\ sock'[a].up = sock[a].up /\ sock'[c].down = sock[c].down
          /\ cand' = cand /\ Provided' = now
      BY <1>0, <1>7, <1>11, <1>12, <1>13, <2>6
    <3> QED
      BY <3>1, <3>4, <3>5, <3>6
  <2> QED
    BY <1>0, <1>8, <2>1, <2>3, <2>5, <2>6 DEF VideoFits
<1> QED
  BY <1>8, <1>9, <1>10, <1>11, <1>14, <1>15, <1>16 DEF VideoInv, VideoFits

-----------------------------------------------------------------------------
(* What the server does for an administrator's socket. *)

\* Its handler goes on to f and sends out to it and to the candidate.
LEMMA AdminServed ==
    ASSUME VideoInv, NEW s \in Sockets, s[1] = "admin", sock[s].client # "unused",
           NEW f \in [Sockets -> SocketState],
           \A t \in Sockets \ {s} : f[t] = sock[t],
           f[s].client = sock[s].client, f[s].down = sock[s].down,
           \/ f[s].handler = sock[s].handler
           \/ sock[s].client # "open" /\ f[s].handler \in {"over", "leaked"},
           NEW out, DOMAIN out \subseteq CandidateSocket \cup {s},
           \A t \in DOMAIN out : out[t] \in Messages,
           sock' = Delivered(f, out)
    PROVE  /\ sock' \in [Sockets -> SocketState]
           /\ SocketsFit' /\ \A side : Open(side)' = Open(side)
           /\ \A t \in Sockets :
                 /\ t # s => sock'[t].up = sock[t].up /\ sock'[t].handler = sock[t].handler
                 /\ t \in DOMAIN out /\ sock[t].client = "open" =>
                       sock'[t].down = Append(sock[t].down, out[t])
                 /\ ~(t \in DOMAIN out /\ sock[t].client = "open") => sock'[t].down = sock[t].down
           /\ sock'[s].up = f[s].up /\ sock'[s].handler = f[s].handler
<1>1. /\ sock' \in [Sockets -> SocketState]
      /\ \A t \in Sockets :
            /\ sock'[t].client = f[t].client /\ sock'[t].handler = f[t].handler
            /\ sock'[t].up = f[t].up
            /\ t \in DOMAIN out /\ f[t].client = "open" => sock'[t].down = Append(f[t].down, out[t])
            /\ ~(t \in DOMAIN out /\ f[t].client = "open") => sock'[t] = f[t]
  BY DeliveredIs
<1>2. \A t \in Sockets : f[t].client = sock[t].client /\ f[t].down = sock[t].down
  OBVIOUS
<1>3. \A t \in Sockets :
         /\ t # s => sock'[t].up = sock[t].up /\ sock'[t].handler = sock[t].handler
         /\ t \in DOMAIN out /\ sock[t].client = "open" =>
               sock'[t].down = Append(sock[t].down, out[t])
         /\ ~(t \in DOMAIN out /\ sock[t].client = "open") => sock'[t].down = sock[t].down
  BY <1>1, <1>2, ZenonT(60)
<1>4. \A t \in Sockets :
         /\ sock'[t].client = sock[t].client
         /\ sock[t].client = "unused" => sock'[t] = sock[t]
         /\ \/ sock'[t].handler = sock[t].handler
            \/ sock[t].client = "open" /\ sock'[t].handler = "serving"
            \/ sock[t].client # "open" /\ sock'[t].handler \in {"over", "leaked"}
  BY <1>1, <1>2
<1>5. SocketsFit' /\ \A side : Open(side)' = Open(side)
  BY <1>4, EndsKept DEF VideoInv
<1> QED
  BY <1>1, <1>3, <1>5

LEMMA StopWatchStep ==
    ASSUME VideoInv, NEW s \in Sockets, s[1] = "admin", sock[s].client # "unused",
           NEW f \in [Sockets -> SocketState],
           \A t \in Sockets \ {s} : f[t] = sock[t],
           f[s].client = sock[s].client, f[s].down = sock[s].down,
           \/ f[s].handler = sock[s].handler
           \/ sock[s].client # "open" /\ f[s].handler \in {"over", "leaked"},
           sock[s].client = "open" =>
              sock[s].up # <<>> /\ Head(sock[s].up).type = "UNWATCH" /\ f[s].up = Tail(sock[s].up),
           StopWatch(f, s), UNCHANGED <<media, lost, cand, viewer, views, offers, faults>>
    PROVE  VideoInv'
<1> DEFINE out == To(Told(hub.watchers \ {s}), Msg("UNWATCH", 0))
           m == Msg("UNWATCH", 0)
<1>0. /\ hub' = [hub EXCEPT !.watchers = hub.watchers \ {s}] /\ sock' = Delivered(f, out)
      /\ hub.watchers \in SUBSET Sockets
      /\ m \in Messages /\ m.type = "UNWATCH"
  BY HubType, MsgIs DEF StopWatch, VideoInv
<1>1. /\ DOMAIN out = Told(hub.watchers \ {s})
      /\ \A t \in DOMAIN out : out[t] = m
  BY DEF To
<1>2. DOMAIN out \subseteq CandidateSocket \cup {s}
  BY <1>1 DEF Told
<1>3. \A t \in Sockets : t \in DOMAIN out <=> hub.watchers \ {s} = {} /\ t = hub.candidate
  BY <1>1, Constant DEF Told, CandidateSocket
<1> HIDE DEF out, m
<1>4. /\ sock' \in [Sockets -> SocketState]
      /\ SocketsFit' /\ \A side : Open(side)' = Open(side)
      /\ \A t \in Sockets :
            /\ t # s => sock'[t].up = sock[t].up /\ sock'[t].handler = sock[t].handler
            /\ t \in DOMAIN out /\ sock[t].client = "open" =>
                  sock'[t].down = Append(sock[t].down, out[t])
            /\ ~(t \in DOMAIN out /\ sock[t].client = "open") => sock'[t].down = sock[t].down
      /\ sock'[s].up = f[s].up /\ sock'[s].handler = f[s].handler
  <2>1. \A t \in DOMAIN out : out[t] \in Messages
    BY <1>0, <1>1
  <2>2. sock' = Delivered(f, out)
    BY <1>0
  <2> QED
    BY <1>2, <2>1, <2>2, AdminServed
<1>5. /\ hub'.watchers = hub.watchers \ {s} /\ hub'.candidate = hub.candidate
      /\ hub' \in [candidate : {None} \cup Sockets, watchers : SUBSET Sockets]
  BY <1>0, HubType DEF VideoInv, TypeOK
<1>6. TypeOK'
  BY <1>4, <1>5 DEF VideoInv, TypeOK
<1>7. hub.candidate # None => hub.candidate \in Sockets /\ hub.candidate[1] = "candidate"
  BY HubType DEF VideoInv, HubFits
<1>8. HubFits'
  BY <1>0, <1>4, <1>5, <1>7 DEF VideoInv, HubFits
<1>9. EndsFit' /\ Publishes' = Publishes /\ Provided' = Provided
  BY <1>4 DEF VideoInv, EndsFit, Publishes, Provided
<1>10. \A c \in Open("candidate") :
         /\ c \in Sockets /\ c # s /\ c[1] = "candidate" /\ sock[c].client = "open"
         /\ sock'[c].up = sock[c].up /\ sock'[c].handler = sock[c].handler
         /\ hub.watchers \ {s} = {} => sock'[c].down = Append(sock[c].down, m)
         /\ hub.watchers \ {s} # {} => sock'[c].down = sock[c].down
  <2> SUFFICES ASSUME NEW c \in Open("candidate")
               PROVE  /\ c \in Sockets /\ c # s /\ c[1] = "candidate" /\ sock[c].client = "open"
                      /\ sock'[c].up = sock[c].up /\ sock'[c].handler = sock[c].handler
                      /\ hub.watchers \ {s} = {} => sock'[c].down = Append(sock[c].down, m)
                      /\ hub.watchers \ {s} # {} => sock'[c].down = sock[c].down
    OBVIOUS
  <2>1. c \in Sockets /\ c # s /\ c[1] = "candidate" /\ sock[c].client = "open" /\ c = hub.candidate
    BY DEF Open, VideoInv, HubFits
  <2> QED
    BY <1>1, <1>3, <1>4, <2>1
<1>11. \A a \in Open("admin") :
         /\ a \in Sockets /\ a[1] = "admin" /\ sock[a].client = "open"
         /\ sock'[a].down = sock[a].down
         /\ a # s => sock'[a].up = sock[a].up /\ (a \in hub'.watchers <=> a \in hub.watchers)
         /\ a = s => /\ sock[a].up # <<>> /\ Head(sock[a].up).type = "UNWATCH"
                     /\ sock'[a].up = Tail(sock[a].up) /\ a \notin hub'.watchers
  <2> SUFFICES ASSUME NEW a \in Open("admin")
               PROVE  /\ a \in Sockets /\ a[1] = "admin" /\ sock[a].client = "open"
                      /\ sock'[a].down = sock[a].down
                      /\ a # s => sock'[a].up = sock[a].up /\ (a \in hub'.watchers <=> a \in hub.watchers)
                      /\ a = s => /\ sock[a].up # <<>> /\ Head(sock[a].up).type = "UNWATCH"
                                  /\ sock'[a].up = Tail(sock[a].up) /\ a \notin hub'.watchers
    OBVIOUS
  <2>1. a \in Sockets /\ a[1] = "admin" /\ sock[a].client = "open"
    BY DEF Open
  <2>2. a # hub.candidate
    BY <1>7, <2>1, Constant
  <2>3. sock'[a].down = sock[a].down
    BY <1>3, <1>4, <2>1, <2>2
  <2> QED
    BY <1>4, <1>5, <2>1, <2>3
<1>12. WatchFits'
  <2> SUFFICES ASSUME NEW a \in Open("admin")
               PROVE  Comes(sock'[a].up, "WATCH", "UNWATCH", a \in hub'.watchers) <=> viewer.open
    BY <1>4 DEF WatchFits
  <2>1. Comes(sock[a].up, "WATCH", "UNWATCH", a \in hub.watchers) <=> viewer.open
    BY DEF VideoInv, WatchFits
  <2>2. CASE a # s
    BY <1>11, <2>1, <2>2
  <2>3. CASE a = s
    <3> DEFINE now == a \in hub.watchers
               then == a \in hub'.watchers
               q == sock[a].up
    <3>1. /\ now \in BOOLEAN /\ then \in BOOLEAN /\ ~then /\ q \in Seq(Messages) /\ q # <<>>
          /\ Head(q).type = "UNWATCH" /\ sock'[a].up = Tail(q)
      BY <1>11, <2>3, SockType DEF VideoInv
    <3>2. "WATCH" # "UNWATCH"
      OBVIOUS
    <3>3. Comes(q, "WATCH", "UNWATCH", now) <=> viewer.open
      BY <2>1
    <3> SUFFICES Comes(sock'[a].up, "WATCH", "UNWATCH", then) <=> viewer.open
      OBVIOUS
    <3> HIDE DEF now, then, q
    <3>4. Comes(Tail(q), "WATCH", "UNWATCH", then) <=> Comes(q, "WATCH", "UNWATCH", now)
      BY ONLY <3>1, <3>2, ComesTail
    <3> QED
      BY <3>1, <3>3, <3>4
  <2> QED
    BY <2>2, <2>3
<1>13. PublishFits'
  <2> SUFFICES ASSUME NEW c \in Open("candidate"), hub.watchers \ {s} = {}
               PROVE  ~Comes(sock'[c].down, "WATCH", "UNWATCH", Publishes')
    BY <1>4, <1>5 DEF PublishFits
  <2> DEFINE now == Publishes'
             q == sock[c].down
  <2>1. now \in BOOLEAN /\ q \in Seq(Messages) /\ sock'[c].down = Append(q, m)
    BY <1>9, <1>10, SockType DEF VideoInv, Publishes
  <2>2. "WATCH" # "UNWATCH"
    OBVIOUS
  <2> SUFFICES ~Comes(Append(q, m), "WATCH", "UNWATCH", now)
    BY <2>1
  <2> HIDE DEF now, q
  <2> QED
    BY ONLY <1>0, <2>1, <2>2, ComesAppend
<1>14. ASSUME ~lost' PROVE VideoFits'
  <2>1. ~lost /\ VideoFits
    BY <1>14 DEF VideoInv
  <2>2. \A t \in Sockets : t[1] = "candidate" => ~Has(sock'[t].up, "NOT_PUBLISHING")
    BY <1>4, <2>1 DEF VideoFits
  <2>3. \A c \in Open("candidate") :
          sock'[c].handler = "serving" /\ hub'.watchers # {}
              => Comes(sock'[c].down, "WATCH", "UNWATCH", Publishes')
    <3> SUFFICES ASSUME NEW c \in Open("candidate"),
                        sock'[c].handler = "serving", hub'.watchers # {}
                 PROVE  Comes(sock'[c].down, "WATCH", "UNWATCH", Publishes')
      OBVIOUS
    <3>1. hub.watchers # {} /\ sock'[c].down = sock[c].down /\ sock[c].handler = "serving"
      BY <1>5, <1>10
    <3> QED
      BY <1>9, <2>1, <3>1 DEF VideoFits
  <2>4. ASSUME NEW c \in Open("candidate"), NEW a \in Open("admin"),
               sock'[c].handler = "serving", viewer'.open
        PROVE  \/ Has(sock'[a].up, "WATCH") \/ Has(sock'[c].down, "WATCH")
               \/ cand'.publishing # None \/ Has(sock'[c].up, "OFFER")
               \/ Comes(sock'[a].down, "OFFER", "NOT_PUBLISHING", Provided')
    <3>1. \/ Has(sock[a].up, "WATCH") \/ Has(sock[c].down, "WATCH")
          \/ cand.publishing # None \/ Has(sock[c].up, "OFFER")
          \/ Comes(sock[a].down, "OFFER", "NOT_PUBLISHING", Provided)
      BY <1>10, <2>1, <2>4 DEF VideoFits
    <3>2. Has(sock[a].up, "WATCH") => Has(sock'[a].up, "WATCH")
      <4>1. CASE a # s
        BY <1>11, <4>1
      <4>2. CASE a = s
        <5>1. sock[a].up \in Seq(Messages) /\ sock[a].up # <<>>
          BY <1>11, <4>2, SockType DEF VideoInv
        <5>2. Has(sock[a].up, "WATCH")
                <=> Head(sock[a].up).type = "WATCH" \/ Has(Tail(sock[a].up), "WATCH")
          BY <5>1, HasTail
        <5> QED
          BY <1>11, <4>2, <5>2
      <4> QED
        BY <4>1, <4>2
    <3>3. Has(sock[c].down, "WATCH") => Has(sock'[c].down, "WATCH")
      <4>1. sock[c].down \in Seq(Messages)
        BY <1>10, SockType DEF VideoInv
      <4>2. Has(sock[c].down, "WATCH") => Has(Append(sock[c].down, m), "WATCH")
        BY <1>0, <4>1, HasAppend
      <4> QED
        BY <1>10, <4>2
    <3>4. /\ sock'[a].down = sock[a].down /\ sock'[c].up = sock[c].up
          /\ cand' = cand /\ Provided' = Provided
      BY <1>9, <1>10, <1>11
    <3> QED
      BY <3>1, <3>2, <3>3, <3>4
  <2> QED
    BY <1>4, <2>1, <2>2, <2>3, <2>4 DEF VideoFits
<1> QED
  BY <1>4, <1>6, <1>8, <1>9, <1>12, <1>13, <1>14 DEF VideoInv, VideoFits

LEMMA YesTaken ==
    ASSUME NEW q \in Seq(Messages), q # <<>>, NEW yes, NEW no, yes # no, Head(q).type = yes,
           NEW now \in BOOLEAN, NEW then, then
    PROVE  Comes(Tail(q), yes, no, then) <=> Comes(q, yes, no, now)
<1>1. /\ Len(q) \in Nat \ {0} /\ DOMAIN q = 1..Len(q) /\ DOMAIN Tail(q) = 1..(Len(q) - 1)
      /\ \A i \in DOMAIN Tail(q) : Tail(q)[i] = q[i + 1]
      /\ q[1].type = yes
  OBVIOUS
<1>7. \A j \in DOMAIN q : j \in Nat /\ (j > 1 => j - 1 \in DOMAIN Tail(q) /\ Tail(q)[j - 1] = q[j])
  BY <1>1
<1> DEFINE last(p, k) == p[k].type = yes /\ \A j \in DOMAIN p : j > k => p[j].type # no
<1>2. Comes(q, yes, no, now) <=> \E i \in DOMAIN q : last(q, i)
  BY <1>1 DEF Comes
<1>3. Comes(Tail(q), yes, no, then) <=>
        (\E i \in DOMAIN Tail(q) : last(Tail(q), i)) \/ \A j \in DOMAIN Tail(q) : Tail(q)[j].type # no
  BY DEF Comes
<1>4. \A i \in DOMAIN Tail(q) : last(Tail(q), i) => last(q, i + 1) /\ i + 1 \in DOMAIN q
  <2> SUFFICES ASSUME NEW i \in DOMAIN Tail(q), last(Tail(q), i)
               PROVE  last(q, i + 1) /\ i + 1 \in DOMAIN q
    OBVIOUS
  <2>1. i \in Nat /\ i > 0 /\ i + 1 \in DOMAIN q /\ q[i + 1].type = yes
    BY <1>1
  <2>2. ASSUME NEW j \in DOMAIN q, j > i + 1 PROVE q[j].type # no
    <3>1. j - 1 \in DOMAIN Tail(q) /\ Tail(q)[j - 1] = q[j] /\ j - 1 > i
      BY <1>7, <2>1, <2>2
    <3> QED
      BY <3>1
  <2> QED
    BY <2>1, <2>2
<1>5. \A i \in DOMAIN q : last(q, i) =>
        IF i = 1 THEN \A j \in DOMAIN Tail(q) : Tail(q)[j].type # no
        ELSE last(Tail(q), i - 1) /\ i - 1 \in DOMAIN Tail(q)
  BY <1>1, SMTT(40)
<1>6. (\A j \in DOMAIN Tail(q) : Tail(q)[j].type # no) => last(q, 1) /\ 1 \in DOMAIN q
  BY <1>1, <1>7
<1> QED
  BY <1>2, <1>3, <1>4, <1>5, <1>6

\* A request to watch: the candidate is asked for its video.
LEMMA WatchedStep ==
    ASSUME VideoInv, NEW s \in Sockets, s[1] = "admin", sock[s].handler = "serving",
           sock[s].up # <<>>, Head(sock[s].up).type = "WATCH",
           NEW rest, rest = [sock EXCEPT ![s].up = Tail(@)],
           hub' = [hub EXCEPT !.watchers = @ \cup {s}],
           NEW type \in {"PUBLISHING", "NOT_PUBLISHING"},
           sock' = Delivered(rest, [t \in CandidateSocket \cup {s} |->
                                    IF t = s THEN Msg(type, 0) ELSE Msg("WATCH", 0)]),
           UNCHANGED <<media, lost, cand, viewer, views, offers, faults>>
    PROVE  VideoInv'
<1> DEFINE out == [t \in CandidateSocket \cup {s} |-> IF t = s THEN Msg(type, 0) ELSE Msg("WATCH", 0)]
           m == Msg("WATCH", 0)
<1>0. /\ sock \in [Sockets -> SocketState] /\ sock[s].client # "unused"
      /\ hub.watchers \in SUBSET Sockets /\ m \in Messages /\ m.type = "WATCH"
      /\ Msg(type, 0) \in Messages
  BY HubType, MsgIs DEF VideoInv, TypeOK, SocketsFit
<1>1. /\ DOMAIN out = CandidateSocket \cup {s} /\ out[s] = Msg(type, 0)
      /\ \A t \in CandidateSocket : t # s => out[t] = m
  OBVIOUS
<1>2. \A t \in DOMAIN out : out[t] \in Messages
  BY <1>0, <1>1
<1>3. sock' = Delivered(rest, out)
  OBVIOUS
<1>4. /\ rest \in [Sockets -> SocketState]
      /\ rest[s].up = Tail(sock[s].up) /\ rest[s].down = sock[s].down
      /\ rest[s].client = sock[s].client /\ rest[s].handler = sock[s].handler
      /\ \A t \in Sockets \ {s} : rest[t] = sock[t]
      /\ sock[s].up \in Seq(Messages)
  <2>1. sock \in [Sockets -> SocketState] /\ sock[s].up # <<>>
    BY <1>0
  <2>2. rest = [sock EXCEPT ![s].up = Tail(@)]
    OBVIOUS
  <2> QED
    BY ONLY s \in Sockets, <2>1, <2>2, Taken, SMTT(40)
<1> HIDE DEF out, m
<1>5. /\ sock' \in [Sockets -> SocketState]
      /\ SocketsFit' /\ \A side : Open(side)' = Open(side)
      /\ \A t \in Sockets :
            /\ t # s => sock'[t].up = sock[t].up /\ sock'[t].handler = sock[t].handler
            /\ t \in DOMAIN out /\ sock[t].client = "open" =>
                  sock'[t].down = Append(sock[t].down, out[t])
            /\ ~(t \in DOMAIN out /\ sock[t].client = "open") => sock'[t].down = sock[t].down
      /\ sock'[s].up = rest[s].up /\ sock'[s].handler = rest[s].handler
  <2>1. DOMAIN out \subseteq CandidateSocket \cup {s}
    BY <1>1
  <2>2. sock[s].client # "unused"
    BY <1>0
  <2> QED
    BY <1>2, <1>3, <1>4, <2>1, <2>2, AdminServed
<1>6. /\ hub'.watchers = hub.watchers \cup {s} /\ hub'.candidate = hub.candidate
      /\ hub' \in [candidate : {None} \cup Sockets, watchers : SUBSET Sockets]
  BY <1>0, HubType DEF VideoInv, TypeOK
<1>7. TypeOK'
  BY <1>5, <1>6 DEF VideoInv, TypeOK
<1>8. HubFits'
  <2>1. hub.candidate # None => hub.candidate \in Sockets /\ hub.candidate[1] = "candidate"
    BY HubType DEF VideoInv, HubFits
  <2>2. \A a \in hub'.watchers : a[1] = "admin" /\ sock'[a].handler = "serving"
    <3>1. \A a \in hub.watchers : a \in Sockets /\ a[1] = "admin" /\ sock[a].handler = "serving"
      BY <1>0 DEF VideoInv, HubFits
    <3>2. sock'[s].handler = "serving"
      BY <1>4, <1>5
    <3>3. \A t \in Sockets : t # s => sock'[t].handler = sock[t].handler
      BY <1>5
    <3>4. hub'.watchers = hub.watchers \cup {s}
      BY <1>6
    <3> QED
      BY <3>1, <3>2, <3>3, <3>4
  <2>3. \A c \in Open("candidate") : hub'.candidate = c
    BY <1>6 DEF VideoInv, HubFits
  <2>4. hub.candidate # None => sock'[hub.candidate].handler = sock[hub.candidate].handler
    BY <1>4, <1>5, <2>1
  <2> QED
    BY <1>5, <1>6, <2>1, <2>2, <2>3, <2>4 DEF VideoInv, HubFits
<1>9. EndsFit' /\ Publishes' = Publishes
  BY <1>5 DEF VideoInv, EndsFit, Publishes
<1>10. \A c \in Open("candidate") :
         /\ c \in Sockets /\ c # s /\ c[1] = "candidate"
         /\ sock'[c].down = Append(sock[c].down, m)
  <2> SUFFICES ASSUME NEW c \in Open("candidate")
               PROVE  /\ c \in Sockets /\ c # s /\ c[1] = "candidate"
                      /\ sock'[c].down = Append(sock[c].down, m)
    OBVIOUS
  <2>1. c \in Sockets /\ c # s /\ c[1] = "candidate" /\ sock[c].client = "open" /\ c = hub.candidate
    BY DEF Open, VideoInv, HubFits
  <2>2. c \in CandidateSocket
    BY <2>1, Constant DEF CandidateSocket
  <2> QED
    BY <1>1, <1>5, <2>1, <2>2
<1>11. WatchFits'
  <2> SUFFICES ASSUME NEW a \in Open("admin")
               PROVE  Comes(sock'[a].up, "WATCH", "UNWATCH", a \in hub'.watchers) <=> viewer.open
    BY <1>5 DEF WatchFits
  <2>0. a \in Sockets
    BY DEF Open
  <2>1. Comes(sock[a].up, "WATCH", "UNWATCH", a \in hub.watchers) <=> viewer.open
    BY DEF VideoInv, WatchFits
  <2>2. CASE a # s
    <3>1. sock'[a].up = sock[a].up /\ (a \in hub'.watchers <=> a \in hub.watchers)
      BY <1>5, <1>6, <2>0, <2>2
    <3> QED
      BY <2>1, <3>1
  <2>3. CASE a = s
    <3> DEFINE now == a \in hub.watchers
               then == a \in hub'.watchers
               q == sock[a].up
    <3>1. /\ now \in BOOLEAN /\ then \in BOOLEAN /\ then /\ q \in Seq(Messages) /\ q # <<>>
          /\ Head(q).type = "WATCH" /\ sock'[a].up = Tail(q)
      BY <1>4, <1>5, <1>6, <2>3
    <3>2. "WATCH" # "UNWATCH"
      OBVIOUS
    <3>3. Comes(q, "WATCH", "UNWATCH", now) <=> viewer.open
      BY <2>1
    <3>5. Head(q).type = "WATCH" /\ then
      BY <3>1
    <3> SUFFICES Comes(sock'[a].up, "WATCH", "UNWATCH", then) <=> viewer.open
      OBVIOUS
    <3> HIDE DEF now, then, q
    <3>4. Comes(Tail(q), "WATCH", "UNWATCH", then) <=> Comes(q, "WATCH", "UNWATCH", now)
      BY <3>1, <3>2, <3>5, YesTaken, ZenonT(60)
    <3> QED
      BY <3>1, <3>3, <3>4
  <2> QED
    BY <2>2, <2>3
<1>12. PublishFits'
  BY <1>5, <1>6 DEF PublishFits
<1>13. ASSUME ~lost' PROVE VideoFits'
  <2>1. ~lost /\ VideoFits
    BY <1>13 DEF VideoInv
  <2>2. \A t \in Sockets : t[1] = "candidate" => ~Has(sock'[t].up, "NOT_PUBLISHING")
    BY <1>5, <2>1 DEF VideoFits
  <2>3. ASSUME NEW c \in Open("candidate")
        PROVE  /\ Comes(sock'[c].down, "WATCH", "UNWATCH", Publishes')
               /\ Has(sock'[c].down, "WATCH")
    <3> DEFINE now == Publishes'
               q == sock[c].down
    <3>1. now \in BOOLEAN /\ q \in Seq(Messages) /\ sock'[c].down = Append(q, m)
      BY <1>9, <1>10, SockType DEF VideoInv, Publishes
    <3>2. "WATCH" # "UNWATCH"
      OBVIOUS
    <3>3. Has(Append(q, m), "WATCH")
      BY <1>0, <3>1, HasAppend
    <3> SUFFICES Comes(Append(q, m), "WATCH", "UNWATCH", now)
      BY <3>1, <3>3
    <3> HIDE DEF now, q
    <3> QED
      BY ONLY <1>0, <3>1, <3>2, ComesAppend
  <2> QED
    BY <1>5, <2>1, <2>2, <2>3 DEF VideoFits
<1> QED
  BY <1>5, <1>7, <1>8, <1>9, <1>11, <1>12, <1>13 DEF VideoInv, VideoFits

\* An answer is passed on; nothing that is under way comes to anything else.
LEMMA AnsweredStep ==
    ASSUME VideoInv, NEW s \in Sockets, s[1] = "admin", sock[s].handler = "serving",
           sock[s].up # <<>>, Head(sock[s].up).type = "ANSWER",
           NEW rest, rest = [sock EXCEPT ![s].up = Tail(@)],
           NEW told, told \subseteq CandidateSocket,
           sock' = Delivered(rest, To(told, Head(sock[s].up))),
           UNCHANGED <<media, lost, hub, cand, viewer, views, offers, faults>>
    PROVE  VideoInv'
<1> DEFINE m == Head(sock[s].up)
           out == To(told, m)
<1>0. /\ sock \in [Sockets -> SocketState] /\ sock[s].up # <<>>
  BY DEF VideoInv, TypeOK
<1>1. /\ rest \in [Sockets -> SocketState]
      /\ rest[s].up = Tail(sock[s].up) /\ rest[s].down = sock[s].down
      /\ rest[s].client = sock[s].client /\ rest[s].handler = sock[s].handler
      /\ \A t \in Sockets \ {s} : rest[t] = sock[t]
      /\ m \in Messages /\ sock[s].up \in Seq(Messages)
  <2>1. rest = [sock EXCEPT ![s].up = Tail(@)]
    OBVIOUS
  <2> QED
    BY ONLY s \in Sockets, <1>0, <2>1, Taken
<1>2. DOMAIN out = told /\ \A t \in DOMAIN out : out[t] = m
  BY DEF To
<1>3. sock' = Delivered(rest, out) /\ m.type = "ANSWER" /\ Head(sock[s].up) = m
  BY SMTT(30)
<1> HIDE DEF m, out
<1>4. /\ sock' \in [Sockets -> SocketState]
      /\ SocketsFit' /\ \A side : Open(side)' = Open(side)
      /\ \A t \in Sockets :
            /\ t # s => sock'[t].up = sock[t].up /\ sock'[t].handler = sock[t].handler
            /\ t \in DOMAIN out /\ sock[t].client = "open" =>
                  sock'[t].down = Append(sock[t].down, out[t])
            /\ ~(t \in DOMAIN out /\ sock[t].client = "open") => sock'[t].down = sock[t].down
      /\ sock'[s].up = rest[s].up /\ sock'[s].handler = rest[s].handler
  <2>1. DOMAIN out \subseteq CandidateSocket \cup {s}
    BY <1>2
  <2>2. \A t \in DOMAIN out : out[t] \in Messages
    BY <1>1, <1>2
  <2>3. sock[s].client # "unused"
    BY DEF VideoInv, SocketsFit
  <2> QED
    BY <1>1, <1>3, <2>1, <2>2, <2>3, AdminServed, ZenonT(60)
<1>5. TypeOK'
  BY <1>4 DEF VideoInv, TypeOK
<1>6. \A t \in Sockets : sock'[t].handler = sock[t].handler
  BY <1>1, <1>4, ZenonT(60)
<1>7. HubFits'
  <2>1. hub.candidate # None => hub.candidate \in Sockets
    BY HubType DEF VideoInv
  <2>2. \A a \in hub.watchers : a \in Sockets
    BY HubType DEF VideoInv
  <2>3. HubFits /\ hub' = hub
    BY DEF VideoInv
  <2>4. \A a \in hub.watchers : a[1] = "admin" /\ sock'[a].handler = "serving"
    BY <1>6, <2>2, <2>3 DEF HubFits
  <2>5. \A c \in Open("candidate") : hub.candidate = c
    BY <2>3 DEF HubFits
  <2>6. hub.candidate # None =>
          /\ hub.candidate[1] = "candidate"
          /\ sock'[hub.candidate].handler \in {"added", "serving", "leaked"}
    BY <1>6, <2>1, <2>3 DEF HubFits
  <2>7. Open("candidate")' = Open("candidate")
    BY <1>4, ZenonT(60)
  <2> QED
    BY <2>3, <2>4, <2>5, <2>6, <2>7 DEF HubFits
<1>8. EndsFit' /\ Publishes' = Publishes /\ Provided' = Provided
  BY <1>4 DEF VideoInv, EndsFit, Publishes, Provided
<1>9. \A t \in told : t \in Sockets /\ t[1] = "candidate"
  BY HubType, Constant DEF CandidateSocket, VideoInv, HubFits
<1>10. \A a \in Open("admin") : /\ a \in Sockets /\ sock'[a].down = sock[a].down
                                /\ a # s => sock'[a].up = sock[a].up
                                /\ a = s => sock'[a].up = Tail(sock[a].up)
  <2> SUFFICES ASSUME NEW a \in Open("admin")
               PROVE  /\ a \in Sockets /\ sock'[a].down = sock[a].down
                      /\ a # s => sock'[a].up = sock[a].up
                      /\ a = s => sock'[a].up = Tail(sock[a].up)
    OBVIOUS
  <2>1. a \in Sockets /\ a \notin told
    BY <1>9 DEF Open
  <2>2. sock'[a].down = sock[a].down /\ (a # s => sock'[a].up = sock[a].up)
    BY <1>2, <1>4, <2>1, ZenonT(60)
  <2>3. sock'[s].up = Tail(sock[s].up)
    BY <1>1, <1>4, SMTT(30)
  <2> QED
    BY <2>1, <2>2, <2>3
<1>11. \A c \in Open("candidate") :
          /\ c \in Sockets /\ c # s /\ sock'[c].up = sock[c].up
          /\ sock'[c].down \in {sock[c].down, Append(sock[c].down, m)}
  BY <1>2, <1>4, ZenonT(60) DEF Open
<1>12. ASSUME NEW a \in Open("admin")
       PROVE  /\ Has(sock'[a].up, "WATCH") <=> Has(sock[a].up, "WATCH")
              /\ Comes(sock'[a].up, "WATCH", "UNWATCH", a \in hub.watchers)
                   <=> Comes(sock[a].up, "WATCH", "UNWATCH", a \in hub.watchers)
  <2>1. CASE a # s
    BY <1>10, <2>1
  <2>2. CASE a = s
    <3> DEFINE now == a \in hub.watchers
               q == sock[a].up
    <3>1. /\ now \in BOOLEAN /\ q \in Seq(Messages) /\ q # <<>>
          /\ Head(q).type = "ANSWER" /\ sock'[a].up = Tail(q)
      <4>1. q = sock[s].up
        BY <2>2
      <4>2. sock'[a].up = Tail(q)
        BY <1>10, <2>2
      <4>3. q \in Seq(Messages) /\ q # <<>> /\ Head(q).type = "ANSWER"
        BY <1>0, <1>1, <1>3, <4>1
      <4> QED
        BY <4>2, <4>3
    <3>2. "WATCH" # "UNWATCH" /\ "ANSWER" # "WATCH" /\ "ANSWER" # "UNWATCH"
      OBVIOUS
    <3> SUFFICES /\ Has(Tail(q), "WATCH") <=> Has(q, "WATCH")
                 /\ Comes(Tail(q), "WATCH", "UNWATCH", now) <=> Comes(q, "WATCH", "UNWATCH", now)
      BY <3>1
    <3> HIDE DEF now, q
    <3>3. Has(Tail(q), "WATCH") <=> Has(q, "WATCH")
      BY ONLY <3>1, <3>2, HasTail
    <3>4. Comes(Tail(q), "WATCH", "UNWATCH", now) <=> Comes(q, "WATCH", "UNWATCH", now)
      BY ONLY <3>1, <3>2, ComesTail, SMTT(30)
    <3> QED
      BY <3>3, <3>4
  <2> QED
    BY <2>1, <2>2
<1>13. ASSUME NEW c \in Open("candidate")
       PROVE  /\ Has(sock[c].down, "WATCH") => Has(sock'[c].down, "WATCH")
              /\ Comes(sock'[c].down, "WATCH", "UNWATCH", Publishes)
                   <=> Comes(sock[c].down, "WATCH", "UNWATCH", Publishes)
  <2>1. CASE sock'[c].down = sock[c].down
    BY <2>1
  <2>2. CASE sock'[c].down = Append(sock[c].down, m)
    <3> DEFINE now == Publishes
               q == sock[c].down
    <3>1. /\ now \in BOOLEAN /\ q \in Seq(Messages) /\ sock'[c].down = Append(q, m)
          /\ m.type = "ANSWER" /\ m \in Messages
      BY <1>1, <1>3, <1>11, <2>2, SockType DEF VideoInv, Publishes
    <3>2. "WATCH" # "UNWATCH" /\ "ANSWER" # "WATCH" /\ "ANSWER" # "UNWATCH"
      OBVIOUS
    <3> SUFFICES /\ Has(q, "WATCH") => Has(Append(q, m), "WATCH")
                 /\ Comes(Append(q, m), "WATCH", "UNWATCH", now) <=> Comes(q, "WATCH", "UNWATCH", now)
      BY <3>1
    <3> HIDE DEF now, q
    <3>3. Has(q, "WATCH") => Has(Append(q, m), "WATCH")
      BY ONLY <3>1, <3>2, HasAppend
    <3>4. Comes(Append(q, m), "WATCH", "UNWATCH", now) <=> Comes(q, "WATCH", "UNWATCH", now)
      BY ONLY <3>1, <3>2, ComesAppend
    <3> QED
      BY <3>3, <3>4, SMTT(30)
  <2> QED
    BY <1>11, <2>1, <2>2
<1>14. WatchFits'
  BY <1>4, <1>12, ZenonT(60) DEF VideoInv, WatchFits
<1>15. PublishFits'
  BY <1>4, <1>8, <1>13, ZenonT(60) DEF VideoInv, PublishFits
<1>16. ASSUME ~lost' PROVE VideoFits'
  <2>1. ~lost /\ VideoFits
    BY <1>16 DEF VideoInv
  <2>2. \A t \in Sockets : t[1] = "candidate" => ~Has(sock'[t].up, "NOT_PUBLISHING")
    BY <1>4, <2>1 DEF VideoFits
  <2>3. \A c \in Open("candidate") :
          sock'[c].handler = "serving" /\ hub'.watchers # {}
              => Comes(sock'[c].down, "WATCH", "UNWATCH", Publishes')
    BY <1>6, <1>8, <1>11, <1>13, <2>1 DEF VideoFits
  <2>4. ASSUME NEW c \in Open("candidate"), NEW a \in Open("admin"),
               sock'[c].handler = "serving", viewer'.open
        PROVE  \/ Has(sock'[a].up, "WATCH") \/ Has(sock'[c].down, "WATCH")
               \/ cand'.publishing # None \/ Has(sock'[c].up, "OFFER")
               \/ Comes(sock'[a].down, "OFFER", "NOT_PUBLISHING", Provided')
    <3>1. \/ Has(sock[a].up, "WATCH") \/ Has(sock[c].down, "WATCH")
          \/ cand.publishing # None \/ Has(sock[c].up, "OFFER")
          \/ Comes(sock[a].down, "OFFER", "NOT_PUBLISHING", Provided)
      BY <1>6, <1>11, <2>1, <2>4 DEF VideoFits
    <3>2. /\ sock'[a].down = sock[a].down /\ sock'[c].up = sock[c].up
          /\ cand' = cand /\ Provided' = Provided
      BY <1>8, <1>10, <1>11
    <3> QED
      BY <1>12, <1>13, <3>1, <3>2
  <2> QED
    BY <1>4, <2>1, <2>2, <2>3, <2>4, ZenonT(60) DEF VideoFits
<1> QED
  BY <1>4, <1>5, <1>7, <1>8, <1>14, <1>15, <1>16 DEF VideoInv, VideoFits

LEMMA HandleAdminStep ==
    ASSUME VideoInv, NEW s \in Sockets, HandleAdmin(s)
    PROVE  VideoInv'
<1> DEFINE rest == [sock EXCEPT ![s].up = Tail(@)]
           m == Head(sock[s].up)
           type == IF hub.candidate = None THEN "NOT_PUBLISHING" ELSE "PUBLISHING"
<1>0. /\ s[1] = "admin" /\ sock[s].handler = "serving" /\ sock[s].up # <<>>
      /\ UNCHANGED <<media, lost, cand, viewer, views, offers, faults>>
  BY DEF HandleAdmin
<1>1. CASE /\ m.type = "WATCH"
           /\ hub' = [hub EXCEPT !.watchers = @ \cup {s}]
           /\ sock' = Delivered(rest, [t \in CandidateSocket \cup {s} |->
                                         IF t = s THEN Msg(type, 0) ELSE Msg("WATCH", 0)])
  <2>1. PICK told \in {"PUBLISHING", "NOT_PUBLISHING"} : told = type
    OBVIOUS
  <2>2. PICK f : f = rest
    OBVIOUS
  <2>3. f = [sock EXCEPT ![s].up = Tail(@)]
    BY <2>2
  <2>4. sock' = Delivered(f, [t \in CandidateSocket \cup {s} |->
                                IF t = s THEN Msg(told, 0) ELSE Msg("WATCH", 0)])
    BY <1>1, <2>1, <2>2
  <2>5. m.type = "WATCH" /\ hub' = [hub EXCEPT !.watchers = @ \cup {s}]
    BY <1>1
  <2> QED
    BY <1>0, <2>3, <2>4, <2>5, WatchedStep
<1>2. CASE m.type = "UNWATCH" /\ StopWatch(rest, s)
  <2>1. sock \in [Sockets -> SocketState] /\ sock[s].client # "unused"
    BY <1>0 DEF VideoInv, TypeOK, SocketsFit
  <2>2. PICK f : f = rest
    OBVIOUS
  <2>3. /\ f \in [Sockets -> SocketState]
        /\ f[s].up = Tail(sock[s].up) /\ f[s].down = sock[s].down
        /\ f[s].client = sock[s].client /\ f[s].handler = sock[s].handler
        /\ \A t \in Sockets \ {s} : f[t] = sock[t]
    BY <1>0, <2>1, <2>2, Taken, SMTT(40)
  <2>4. StopWatch(f, s) /\ Head(sock[s].up).type = "UNWATCH"
    BY <1>2, <2>2
  <2> QED
    BY <1>0, <2>1, <2>3, <2>4, StopWatchStep
<1>3. CASE /\ m.type = "ANSWER" /\ UNCHANGED hub
           /\ sock' = Delivered(rest, To(IF s \in hub.watchers THEN CandidateSocket ELSE {}, m))
  <2>1. PICK told : told = IF s \in hub.watchers THEN CandidateSocket ELSE {}
    OBVIOUS
  <2>2. PICK f : f = rest
    OBVIOUS
  <2>3. f = [sock EXCEPT ![s].up = Tail(@)] /\ told \subseteq CandidateSocket
    BY <2>1, <2>2
  <2>4. sock' = Delivered(f, To(told, Head(sock[s].up)))
    BY <1>3, <2>1, <2>2
  <2>5. Head(sock[s].up).type = "ANSWER" /\ UNCHANGED hub
    BY <1>3
  <2> QED
    BY <1>0, <2>3, <2>4, <2>5, AnsweredStep
<1>4. \/ /\ m.type = "WATCH"
         /\ hub' = [hub EXCEPT !.watchers = @ \cup {s}]
         /\ sock' = Delivered(rest, [t \in CandidateSocket \cup {s} |->
                                       IF t = s THEN Msg(type, 0) ELSE Msg("WATCH", 0)])
      \/ m.type = "UNWATCH" /\ StopWatch(rest, s)
      \/ /\ m.type = "ANSWER" /\ UNCHANGED hub
         /\ sock' = Delivered(rest, To(IF s \in hub.watchers THEN CandidateSocket ELSE {}, m))
  BY DEF HandleAdmin
<1> QED
  BY <1>1, <1>2, <1>3, <1>4

-----------------------------------------------------------------------------
(* Handlers that begin and end. *)

LEMMA HandlerIs ==
    ASSUME NEW f \in [Sockets -> SocketState], NEW s \in Sockets,
           NEW h \in {"none", "added", "serving", "over", "leaked"},
           NEW g, g = [f EXCEPT ![s].handler = h]
    PROVE  /\ g \in [Sockets -> SocketState]
           /\ \A t \in Sockets : g[t].client = f[t].client /\ g[t].up = f[t].up /\ g[t].down = f[t].down
           /\ g[s].handler = h
           /\ \A t \in Sockets \ {s} : g[t] = f[t]
<1>1. f[s] \in SocketState
  OBVIOUS
<1>2. [f[s] EXCEPT !.handler = h] \in SocketState
  BY <1>1, SocketType
<1>3. g = [f EXCEPT ![s] = [f[s] EXCEPT !.handler = h]]
  OBVIOUS
<1>4. g \in [Sockets -> SocketState] /\ g[s] = [f[s] EXCEPT !.handler = h]
      /\ \A t \in Sockets \ {s} : g[t] = f[t]
  BY <1>2, <1>3
<1> QED
  BY <1>1, <1>4 DEF SocketState

\* A handler ends, and nothing is sent.
LEMMA HandlerStep ==
    ASSUME VideoInv, TypeOK', SocketsFit', HubFits', \A side : Open(side)' = Open(side),
           \A t \in Sockets : sock'[t].up = sock[t].up /\ sock'[t].down = sock[t].down,
           \A t \in Sockets : sock[t].client = "open" => sock'[t].handler = sock[t].handler,
           hub'.watchers = hub.watchers,
           UNCHANGED <<media, lost, cand, viewer>>
    PROVE  VideoInv'
<1>1. EndsFit' /\ Publishes' = Publishes /\ Provided' = Provided
  BY DEF VideoInv, EndsFit, Publishes, Provided
<1>2. \A side : \A t \in Open(side) :
         t \in Sockets /\ sock'[t].up = sock[t].up /\ sock'[t].down = sock[t].down
         /\ sock'[t].handler = sock[t].handler
  BY DEF Open
<1>3. WatchFits'
  BY <1>2 DEF VideoInv, WatchFits
<1>4. PublishFits'
  BY <1>1, <1>2 DEF VideoInv, PublishFits
<1>5. ASSUME ~lost' PROVE VideoFits'
  <2>1. ~lost /\ VideoFits
    BY <1>5 DEF VideoInv
  <2>2. \A t \in Sockets : t[1] = "candidate" => ~Has(sock'[t].up, "NOT_PUBLISHING")
    BY <2>1 DEF VideoFits
  <2>3. \A c \in Open("candidate") :
          sock'[c].handler = "serving" /\ hub'.watchers # {}
              => Comes(sock'[c].down, "WATCH", "UNWATCH", Publishes')
    BY <1>1, <1>2, <2>1 DEF VideoFits
  <2>4. ASSUME NEW c \in Open("candidate"), NEW a \in Open("admin"),
               sock'[c].handler = "serving", viewer'.open
        PROVE  \/ Has(sock'[a].up, "WATCH") \/ Has(sock'[c].down, "WATCH")
               \/ cand'.publishing # None \/ Has(sock'[c].up, "OFFER")
               \/ Comes(sock'[a].down, "OFFER", "NOT_PUBLISHING", Provided')
    <3>1. \/ Has(sock[a].up, "WATCH") \/ Has(sock[c].down, "WATCH")
          \/ cand.publishing # None \/ Has(sock[c].up, "OFFER")
          \/ Comes(sock[a].down, "OFFER", "NOT_PUBLISHING", Provided)
      BY <1>2, <2>1, <2>4 DEF VideoFits
    <3>2. /\ sock'[a].up = sock[a].up /\ sock'[a].down = sock[a].down
          /\ sock'[c].up = sock[c].up /\ sock'[c].down = sock[c].down
          /\ cand' = cand /\ Provided' = Provided
      BY <1>1, <1>2
    <3> QED
      BY <3>1, <3>2
  <2> QED
    BY <2>1, <2>2, <2>3, <2>4 DEF VideoFits
<1> QED
  BY <1>1, <1>3, <1>4, <1>5 DEF VideoInv, VideoFits

LEMMA FinishStep == ASSUME VideoInv, NEW s \in Sockets, Finish(s) PROVE VideoInv'
<1>1. PICK f : f = [sock EXCEPT ![s].handler = "over"]
  OBVIOUS
<1>2. /\ sock \in [Sockets -> SocketState] /\ sock[s].handler = "serving"
      /\ sock[s].client = "closed" /\ sock[s].up = <<>>
      /\ UNCHANGED <<media, lost, cand, viewer, views, offers, faults>>
      /\ \/ s \in hub.watchers /\ StopWatch(f, s)
         \/ /\ s \notin hub.watchers /\ sock' = f
            /\ hub' = [hub EXCEPT !.candidate = IF Present(s) THEN None ELSE @]
  BY <1>1 DEF Finish, VideoInv, TypeOK
<1>3. "over" \in {"none", "added", "serving", "over", "leaked"}
  OBVIOUS
<1>4. /\ f \in [Sockets -> SocketState]
      /\ \A t \in Sockets : f[t].client = sock[t].client /\ f[t].up = sock[t].up
                            /\ f[t].down = sock[t].down
      /\ f[s].handler = "over"
      /\ \A t \in Sockets \ {s} : f[t] = sock[t]
  <2>1. sock \in [Sockets -> SocketState]
    BY <1>2
  <2> QED
    <3>1. PICK h \in {"none", "added", "serving", "over", "leaked"} : h = "over"
      BY <1>3
    <3>2. f = [sock EXCEPT ![s].handler = h]
      BY <1>1, <3>1
    <3>3. /\ f \in [Sockets -> SocketState]
          /\ \A t \in Sockets : f[t].client = sock[t].client /\ f[t].up = sock[t].up
                                /\ f[t].down = sock[t].down
          /\ f[s].handler = h
          /\ \A t \in Sockets \ {s} : f[t] = sock[t]
      BY <2>1, <3>2, HandlerIs
    <3> QED
      BY <3>1, <3>3
<1>5. CASE s \in hub.watchers
  <2>1. s[1] = "admin" /\ StopWatch(f, s)
    BY <1>2, <1>5 DEF VideoInv, HubFits
  <2>2. sock[s].client # "unused" /\ sock[s].client # "open"
    BY <1>2
  <2>3. f[s].client = sock[s].client /\ f[s].down = sock[s].down
        /\ f[s].handler \in {"over", "leaked"}
    BY <1>4
  <2> QED
    BY <1>2, <1>4, <2>1, <2>2, <2>3, StopWatchStep
<1>6. CASE s \notin hub.watchers
  <2>1. sock' = f /\ hub' = [hub EXCEPT !.candidate = IF Present(s) THEN None ELSE @]
    BY <1>2, <1>6
  <2>2. /\ hub' \in [candidate : {None} \cup Sockets, watchers : SUBSET Sockets]
        /\ hub'.watchers = hub.watchers
        /\ hub'.candidate = IF hub.candidate = s THEN None ELSE hub.candidate
    BY <2>1, HubType DEF Present, VideoInv, TypeOK
  <2>3. SocketsFit' /\ \A side : Open(side)' = Open(side)
    BY <1>2, <1>4, <2>1, EndsKept DEF VideoInv
  <2>4. TypeOK'
    BY <1>2, <1>4, <2>1, <2>2 DEF VideoInv, TypeOK
  <2>5. HubFits'
    <3>1. \A t \in hub.watchers : t \in Sockets /\ t # s /\ t[1] = "admin"
                                  /\ sock'[t].handler = "serving"
      BY <1>4, <1>6, <2>1, HubType DEF VideoInv, HubFits
    <3>2. \A c \in Open("candidate") : hub.candidate = c /\ c # s
      BY <1>2 DEF VideoInv, HubFits, Open
    <3>3. hub'.candidate # None =>
             hub'.candidate \in Sockets /\ hub'.candidate = hub.candidate /\ hub'.candidate # s
      BY <2>2, HubType DEF VideoInv
    <3>4. hub'.candidate # None =>
             /\ hub'.candidate[1] = "candidate"
             /\ sock'[hub'.candidate].handler \in {"added", "serving", "leaked"}
      BY <1>4, <2>1, <3>3 DEF VideoInv, HubFits
    <3>5. Open("candidate")' = Open("candidate")
      BY <2>3
    <3> QED
      BY <2>2, <3>1, <3>2, <3>4, <3>5 DEF HubFits
  <2>6. \A t \in Sockets : /\ sock'[t].up = sock[t].up /\ sock'[t].down = sock[t].down
                           /\ sock[t].client = "open" => sock'[t].handler = sock[t].handler
    BY <1>2, <1>4, <2>1
  <2> QED
    BY <1>2, <2>2, <2>3, <2>4, <2>5, <2>6, HandlerStep
<1> QED
  BY <1>5, <1>6

LEMMA GreetStep == ASSUME VideoInv, NEW s \in Sockets, Greet(s) PROVE VideoInv'
<1>1. /\ sock \in [Sockets -> SocketState] /\ sock[s].handler = "added" /\ s[1] = "candidate"
      /\ UNCHANGED <<media, lost, hub, cand, viewer, views, offers, faults>>
  BY DEF Greet, VideoInv, TypeOK, SocketsFit
<1>2. /\ hub.watchers \in SUBSET Sockets
      /\ \A t \in hub.watchers : t \in Sockets /\ t # s /\ t[1] = "admin" /\ sock[t].handler = "serving"
      /\ hub.candidate # None => hub.candidate \in Sockets
  BY <1>1, HubType DEF VideoInv, HubFits
<1>3. CASE sock[s].client # "open"
  <2>1. sock' = [sock EXCEPT ![s].handler = "leaked"]
    BY <1>3 DEF Greet
  <2>2. "leaked" \in {"none", "added", "serving", "over", "leaked"}
    OBVIOUS
  <2>3. /\ sock' \in [Sockets -> SocketState]
        /\ \A t \in Sockets : sock'[t].client = sock[t].client /\ sock'[t].up = sock[t].up
                              /\ sock'[t].down = sock[t].down
        /\ sock'[s].handler = "leaked"
        /\ \A t \in Sockets \ {s} : sock'[t] = sock[t]
    BY <1>1, <2>1, <2>2, HandlerIs
  <2>4. sock[s].client # "unused"
    BY <1>1 DEF VideoInv, SocketsFit
  <2>5. SocketsFit' /\ \A side : Open(side)' = Open(side)
    BY <1>3, <2>3, <2>4, EndsKept DEF VideoInv
  <2>6. TypeOK'
    BY <1>1, <2>3 DEF VideoInv, TypeOK
  <2>7. HubFits'
    <3>1. \A t \in hub.watchers : t[1] = "admin" /\ sock'[t].handler = "serving"
      BY <1>2, <2>3
    <3>2. \A c \in Open("candidate") : hub.candidate = c
      BY DEF VideoInv, HubFits
    <3>3. hub.candidate # None =>
             /\ hub.candidate[1] = "candidate"
             /\ sock'[hub.candidate].handler \in {"added", "serving", "leaked"}
      BY <1>2, <2>3 DEF VideoInv, HubFits
    <3>4. Open("candidate")' = Open("candidate") /\ hub' = hub
      BY <1>1, <2>5
    <3> QED
      BY <3>1, <3>2, <3>3, <3>4 DEF HubFits
  <2>8. \A t \in Sockets : /\ sock'[t].up = sock[t].up /\ sock'[t].down = sock[t].down
                           /\ sock[t].client = "open" => sock'[t].handler = sock[t].handler
    BY <1>3, <2>3
  <2> QED
    BY <1>1, <2>5, <2>6, <2>7, <2>8, HandlerStep
<1>4. CASE sock[s].client = "open"
  <2> DEFINE m == Msg("WATCH", 0)
             out == To(Asked(s), m)
  <2>1. PICK f : f = [sock EXCEPT ![s].handler = "serving"]
    OBVIOUS
  <2>2. sock' = Delivered(f, out)
    BY <1>4, <2>1 DEF Greet
  <2>3. s \in Open("candidate") /\ \A t \in Open("candidate") : t = s
    BY <1>1, <1>4 DEF VideoInv, SocketsFit, Open
  <2>4. hub.candidate = s
    BY <2>3 DEF VideoInv, HubFits
  <2>5. /\ DOMAIN out = IF hub.watchers # {} THEN {s} ELSE {}
        /\ \A t \in DOMAIN out : out[t] = m
    BY <1>1, <2>4, Constant DEF To, Asked, CandidateSocket
  <2>6. m \in Messages /\ m.type = "WATCH"
    BY MsgIs
  <2> HIDE DEF m, out
  <2>7. "serving" \in {"none", "added", "serving", "over", "leaked"}
    OBVIOUS
  <2>8. /\ f \in [Sockets -> SocketState]
        /\ \A t \in Sockets : f[t].client = sock[t].client /\ f[t].up = sock[t].up
                              /\ f[t].down = sock[t].down
        /\ f[s].handler = "serving"
        /\ \A t \in Sockets \ {s} : f[t] = sock[t]
    BY <1>1, <2>1, <2>7, HandlerIs
  <2>9. /\ sock' \in [Sockets -> SocketState]
        /\ \A t \in Sockets :
              /\ sock'[t].client = f[t].client /\ sock'[t].handler = f[t].handler
              /\ sock'[t].up = f[t].up
              /\ t \in DOMAIN out /\ f[t].client = "open" => sock'[t].down = Append(f[t].down, out[t])
              /\ ~(t \in DOMAIN out /\ f[t].client = "open") => sock'[t] = f[t]
    BY <2>2, <2>5, <2>6, <2>8, DeliveredIs
  <2>10. /\ \A t \in Sockets : sock'[t].client = sock[t].client /\ sock'[t].up = sock[t].up
         /\ \A t \in Sockets \ {s} : sock'[t] = sock[t]
         /\ sock'[s].handler = "serving"
         /\ hub.watchers # {} => sock'[s].down = Append(sock[s].down, m)
         /\ hub.watchers = {} => sock'[s].down = sock[s].down
    BY <1>4, <2>5, <2>8, <2>9
  <2>11. SocketsFit' /\ \A side : Open(side)' = Open(side)
    BY <1>4, <2>10, EndsKept DEF VideoInv
  <2>12. TypeOK'
    BY <1>1, <2>9 DEF VideoInv, TypeOK
  <2>13. HubFits'
    <3>1. \A t \in hub.watchers : t[1] = "admin" /\ sock'[t].handler = "serving"
      BY <1>2, <2>10
    <3>2. Open("candidate")' = Open("candidate") /\ hub' = hub
      BY <1>1, <2>11
    <3> QED
      BY <1>1, <2>3, <2>4, <2>10, <3>1, <3>2 DEF HubFits
  <2>14. EndsFit' /\ Publishes' = Publishes /\ Provided' = Provided
    BY <1>1, <2>11 DEF VideoInv, EndsFit, Publishes, Provided
  <2>15. \A a \in Open("admin") : a \in Sockets /\ sock'[a] = sock[a]
    BY <1>1, <2>10 DEF Open
  <2>16. WatchFits'
    BY <1>1, <2>11, <2>15 DEF VideoInv, WatchFits
  <2>17. PublishFits'
    BY <1>1, <2>3, <2>10, <2>11, <2>14 DEF VideoInv, PublishFits
  <2>18. ASSUME ~lost' PROVE VideoFits'
    <3>1. ~lost /\ VideoFits
      BY <1>1, <2>18 DEF VideoInv
    <3>2. \A t \in Sockets : t[1] = "candidate" => ~Has(sock'[t].up, "NOT_PUBLISHING")
      BY <2>10, <3>1 DEF VideoFits
    <3>3. ASSUME hub.watchers # {}
          PROVE  /\ Comes(sock'[s].down, "WATCH", "UNWATCH", Publishes')
                 /\ Has(sock'[s].down, "WATCH")
      <4> DEFINE now == Publishes'
                 q == sock[s].down
      <4>1. now \in BOOLEAN /\ q \in Seq(Messages) /\ sock'[s].down = Append(q, m)
        BY <2>10, <2>14, <3>3, SockType DEF VideoInv, Publishes
      <4>2. "WATCH" # "UNWATCH"
        OBVIOUS
      <4>3. Has(Append(q, m), "WATCH")
        BY <2>6, <4>1, HasAppend
      <4> SUFFICES Comes(Append(q, m), "WATCH", "UNWATCH", now)
        BY <4>1, <4>3
      <4> HIDE DEF now, q
      <4> QED
        BY ONLY <2>6, <4>1, <4>2, ComesAppend
    <3>4. ASSUME hub.watchers = {}, NEW a \in Open("admin"), viewer.open
          PROVE  Has(sock'[a].up, "WATCH")
      BY <2>15, <3>4, WatchComes
    <3>5. viewer' = viewer /\ hub' = hub
      BY <1>1
    <3> QED
      BY <1>1, <2>3, <2>11, <3>1, <3>2, <3>3, <3>4, <3>5 DEF VideoFits
  <2> QED
    BY <2>11, <2>12, <2>13, <2>14, <2>16, <2>17, <2>18 DEF VideoInv, VideoFits
<1> QED
  BY <1>3, <1>4

-----------------------------------------------------------------------------
(* Sockets that open and break. *)

\* The socket a client opens next is the first of its side that is unused.
LEMMA NextIs ==
    ASSUME VideoInv, NEW s \in Sockets, IsNext(s)
    PROVE  /\ sock[s].client = "unused"
           /\ \A k \in 1..MaxConnects : sock[<<s[1], k>>].client # "unused" <=> k < s[2]
<1> DEFINE side == s[1]
           used == {t \in Sockets : t[1] = s[1] /\ sock[t].client # "unused"}
<1>0. side \in {"admin", "candidate"} /\ s[2] \in 1..MaxConnects /\ s = <<side, s[2]>>
      /\ MaxConnects \in Nat
  BY SocketIs, Constant
<1>1. PICK n \in 0..MaxConnects :
        \A k \in 1..MaxConnects : sock[<<side, k>>].client # "unused" <=> k <= n
  BY <1>0 DEF VideoInv, SocketsFit
<1>2. n \in Nat /\ 1..n \subseteq 1..MaxConnects
  BY <1>0, <1>1
<1> DEFINE F == [k \in 1..n |-> <<side, k>>]
<1>3. F \in [1..n -> used]
  <2> SUFFICES ASSUME NEW k \in 1..n PROVE <<side, k>> \in used
    OBVIOUS
  <2>1. k \in 1..MaxConnects /\ k <= n
    BY <1>1, <1>2
  <2>2. <<side, k>> \in Sockets
    BY <1>0, <2>1 DEF Sockets
  <2> QED
    BY <1>1, <2>1, <2>2
<1>4. \A a, b \in 1..n : F[a] = F[b] => a = b
  OBVIOUS
<1>5. \A t \in used : \E k \in 1..n : F[k] = t
  <2> SUFFICES ASSUME NEW t \in used PROVE \E k \in 1..n : F[k] = t
    OBVIOUS
  <2>1. t \in Sockets /\ t[1] = side /\ sock[t].client # "unused"
    OBVIOUS
  <2>2. t[2] \in 1..MaxConnects /\ t = <<side, t[2]>>
    BY <2>1, SocketIs
  <2>3. t[2] \in 1..n
    BY <1>1, <1>2, <2>1, <2>2
  <2> QED
    BY <2>2, <2>3
<1>6. F \in Bijection(1..n, used)
  BY <1>3, <1>4, <1>5, Fun_IsBij
<1>7. ExistsBijection(1..n, used)
  BY <1>6, Fun_ExistsBij
<1>8. Cardinality(used) = n
  BY <1>2, <1>7, FS_CountingElements
<1>9. s[2] = 1 + n
  BY <1>8 DEF IsNext
<1>10. \A k \in 1..MaxConnects : k <= n <=> k < s[2]
  BY <1>2, <1>9
<1> QED
  BY <1>0, <1>1, <1>2, <1>9, <1>10

\* A socket that opens leaves the others as they are.
LEMMA OpenedFits ==
    ASSUME VideoInv, NEW s \in Sockets, IsNext(s), Open(s[1]) = {},
           sock' \in [Sockets -> SocketState],
           \A t \in Sockets \ {s} : sock'[t] = sock[t],
           sock'[s].client = "open", sock'[s].handler \in {"added", "serving"},
           sock'[s].handler = "added" => s[1] = "candidate"
    PROVE  /\ SocketsFit' /\ Open(s[1])' = {s}
           /\ \A side : side # s[1] => Open(side)' = Open(side)
<1>0. s[1] \in {"admin", "candidate"} /\ s[2] \in 1..MaxConnects /\ s = <<s[1], s[2]>>
      /\ MaxConnects \in Nat
  BY SocketIs, Constant
<1>1. \A t \in Sockets : t[1] = s[1] => sock[t].client # "open"
  BY DEF Open
<1>2. ASSUME NEW side \in {"admin", "candidate"}
      PROVE  \E n \in 0..MaxConnects :
                \A k \in 1..MaxConnects : sock'[<<side, k>>].client # "unused" <=> k <= n
  <2>0. \A k \in 1..MaxConnects : <<side, k>> \in Sockets
    BY DEF Sockets
  <2>1. CASE side = s[1]
    <3>1. \A k \in 1..MaxConnects : sock[<<side, k>>].client # "unused" <=> k < s[2]
      BY <2>1, NextIs
    <3>2. ASSUME NEW k \in 1..MaxConnects
          PROVE  sock'[<<side, k>>].client # "unused" <=> k <= s[2]
      <4>1. CASE k = s[2]
        <5>1. <<side, k>> = s /\ k <= s[2]
          BY <1>0, <2>1, <4>1
        <5> QED
          BY <5>1
      <4>2. CASE k # s[2]
        <5>1. <<side, k>> # s
          BY <1>0, <4>2
        <5>2. sock'[<<side, k>>] = sock[<<side, k>>]
          BY <2>0, <5>1
        <5>3. k < s[2] <=> k <= s[2]
          BY <1>0, <4>2
        <5> QED
          BY <3>1, <5>2, <5>3
      <4> QED
        BY <4>1, <4>2
    <3>3. s[2] \in 0..MaxConnects
      BY <1>0
    <3> QED
      BY <3>2, <3>3
  <2>2. CASE side # s[1]
    <3>1. \A k \in 1..MaxConnects : sock'[<<side, k>>] = sock[<<side, k>>]
      BY <1>0, <2>0, <2>2
    <3>2. PICK n \in 0..MaxConnects :
            \A k \in 1..MaxConnects : sock[<<side, k>>].client # "unused" <=> k <= n
      BY DEF VideoInv, SocketsFit
    <3> QED
      BY <3>1, <3>2
  <2> QED
    BY <2>1, <2>2
<1>3. \A t, u \in Sockets :
         t[1] = u[1] /\ sock'[t].client = "open" /\ sock'[u].client = "open" => t = u
  BY <1>1 DEF VideoInv, SocketsFit
<1>4. ASSUME NEW t \in Sockets
      PROVE  /\ sock'[t].client = "unused" =>
                  sock'[t].handler = "none" /\ sock'[t].up = <<>> /\ sock'[t].down = <<>>
             /\ sock'[t].client = "open" => sock'[t].handler \in {"added", "serving"}
             /\ sock'[t].handler = "added" => t[1] = "candidate"
  <2>1. CASE t = s
    BY <2>1
  <2>2. CASE t # s
    BY <2>2 DEF VideoInv, SocketsFit
  <2> QED
    BY <2>1, <2>2
<1>5. SocketsFit'
  BY <1>2, <1>3, <1>4 DEF SocketsFit
<1>6. Open(s[1])' = {s}
  BY <1>1 DEF Open
<1>7. \A side : side # s[1] => Open(side)' = Open(side)
  BY DEF Open
<1> QED
  BY <1>5, <1>6, <1>7

LEMMA ConnectAdminStep == ASSUME VideoInv, NEW s \in Sockets, ConnectAdmin(s) PROVE VideoInv'
<1> DEFINE m == Msg("WATCH", 0)
           asks == IF viewer.open THEN <<m>> ELSE <<>>
           new == [client |-> "open", handler |-> "serving", down |-> <<>>, up |-> asks]
<1>0. /\ s[1] = "admin" /\ IsNext(s) /\ Open("admin") = {}
      /\ viewer' = IF viewer.open THEN Watching ELSE viewer
      /\ sock' = [sock EXCEPT ![s] = new]
      /\ UNCHANGED <<media, lost, hub, cand, views, offers, faults>>
  BY DEF ConnectAdmin
<1>1. sock \in [Sockets -> SocketState] /\ viewer \in Viewer /\ viewer.open \in BOOLEAN
  BY ViewerType DEF VideoInv, TypeOK
<1>2. m \in Messages /\ m.type = "WATCH"
  BY MsgIs
<1>3. sock[s].client = "unused" /\ sock[s].handler = "none"
  BY <1>0, NextIs DEF VideoInv, SocketsFit
<1> HIDE DEF m
<1>4. /\ asks \in Seq(Messages)
      /\ viewer.open => asks = Append(<<>>, m)
      /\ ~viewer.open => asks = <<>>
  BY <1>1, <1>2
<1> HIDE DEF asks
<1>5. new \in SocketState /\ new.client = "open" /\ new.handler = "serving" /\ new.up = asks
      /\ new.down = <<>>
  BY <1>4 DEF SocketState
<1> HIDE DEF new
<1>6. /\ sock' \in [Sockets -> SocketState] /\ sock'[s] = new
      /\ \A t \in Sockets \ {s} : sock'[t] = sock[t]
  BY <1>0, <1>1, <1>5
<1>7. /\ SocketsFit' /\ Open("admin")' = {s} /\ Open("candidate")' = Open("candidate")
  <2>1. sock'[s].handler # "added"
    BY <1>5, <1>6
  <2>2. /\ SocketsFit' /\ Open(s[1])' = {s}
        /\ \A side : side # s[1] => Open(side)' = Open(side)
    BY <1>0, <1>5, <1>6, <2>1, OpenedFits
  <2> QED
    BY <1>0, <2>2
<1>8. viewer' \in Viewer /\ viewer'.open = viewer.open
      /\ (viewer'.pc # None \/ viewer'.retry => viewer'.open)
  BY <1>0, <1>1, NoViewerIs DEF VideoInv, EndsFit
<1>9. TypeOK'
  BY <1>0, <1>6, <1>8 DEF VideoInv, TypeOK
<1>10. \A t \in hub.watchers : t \in Sockets \ {s} /\ t[1] = "admin" /\ sock[t].handler = "serving"
  BY <1>3, HubType DEF VideoInv, HubFits
<1>11. hub.candidate # None => hub.candidate \in Sockets \ {s} /\ hub.candidate[1] = "candidate"
                               /\ sock[hub.candidate].handler \in {"added", "serving", "leaked"}
  BY <1>3, HubType DEF VideoInv, HubFits
<1>12. hub' = hub /\ \A c \in Open("candidate") : hub.candidate = c
  BY <1>0 DEF VideoInv, HubFits
<1>13. HubFits'
  BY <1>6, <1>7, <1>10, <1>11, <1>12 DEF HubFits
<1>14. EndsFit' /\ Publishes' = Publishes
  BY <1>0, <1>7, <1>8 DEF VideoInv, EndsFit, Publishes
<1>15. \A c \in Open("candidate") : c \in Sockets /\ sock'[c] = sock[c]
  BY <1>0, <1>6 DEF Open
<1>16. /\ viewer.open => Has(asks, "WATCH")
       /\ Comes(asks, "WATCH", "UNWATCH", s \in hub.watchers) <=> viewer.open
  <2> DEFINE now == s \in hub.watchers
             q == <<>>
  <2>0. now \in BOOLEAN /\ ~now /\ q \in Seq(Messages)
    BY <1>10
  <2> SUFFICES /\ viewer.open => Has(asks, "WATCH")
               /\ Comes(asks, "WATCH", "UNWATCH", now) <=> viewer.open
    OBVIOUS
  <2>1. "WATCH" # "UNWATCH"
    OBVIOUS
  <2>2. CASE viewer.open
    <3>1. asks = Append(q, m)
      BY <1>4, <2>2
    <3> HIDE DEF now, q
    <3>2. Has(Append(q, m), "WATCH")
      BY <1>2, <2>0, HasAppend
    <3>3. Comes(Append(q, m), "WATCH", "UNWATCH", now)
      BY ONLY <1>2, <2>0, <2>1, ComesAppend
    <3> QED
      BY <2>2, <3>1, <3>2, <3>3
  <2>3. CASE ~viewer.open
    <3>1. asks = <<>>
      BY <1>4, <2>3
    <3> HIDE DEF now
    <3>2. Comes(<<>>, "WATCH", "UNWATCH", now) <=> now
      BY <2>0, ComesEmpty
    <3> QED
      BY <2>0, <2>3, <3>1, <3>2
  <2> QED
    BY <1>1, <2>2, <2>3
<1>17. WatchFits'
  BY <1>5, <1>6, <1>7, <1>8, <1>12, <1>16 DEF WatchFits
<1>18. PublishFits'
  BY <1>7, <1>12, <1>14, <1>15 DEF VideoInv, PublishFits
<1>19. ASSUME ~lost' PROVE VideoFits'
  <2>1. ~lost /\ VideoFits /\ media' = media
    BY <1>0, <1>19 DEF VideoInv
  <2>2. \A t \in Sockets : t[1] = "candidate" => ~Has(sock'[t].up, "NOT_PUBLISHING")
    BY <1>0, <1>6, <2>1 DEF VideoFits
  <2>3. \A c \in Open("candidate") :
          sock'[c].handler = "serving" /\ hub'.watchers # {}
              => Comes(sock'[c].down, "WATCH", "UNWATCH", Publishes')
    BY <1>12, <1>14, <1>15, <2>1 DEF VideoFits
  <2>4. viewer'.open => Has(sock'[s].up, "WATCH")
    BY <1>5, <1>6, <1>8, <1>16
  <2> QED
    BY <1>7, <2>1, <2>2, <2>3, <2>4 DEF VideoFits
<1> QED
  BY <1>7, <1>9, <1>13, <1>14, <1>17, <1>18, <1>19 DEF VideoInv, VideoFits

LEMMA ConnectCandidateStep ==
    ASSUME VideoInv, NEW s \in Sockets, ConnectCandidate(s) PROVE VideoInv'
<1>0. /\ s[1] = "candidate" /\ IsNext(s) /\ Open("candidate") = {}
      /\ hub' = [hub EXCEPT !.candidate = s]
      /\ sock' = [sock EXCEPT ![s].client = "open", ![s].handler = "added"]
      /\ UNCHANGED <<media, lost, cand, viewer, views, offers, faults>>
  BY DEF ConnectCandidate
<1>1. sock \in [Sockets -> SocketState]
  BY DEF VideoInv, TypeOK
<1>2. sock[s].client = "unused" /\ sock[s].handler = "none" /\ sock[s].up = <<>> /\ sock[s].down = <<>>
  BY <1>0, NextIs DEF VideoInv, SocketsFit
<1>3. PICK new : new = [sock[s] EXCEPT !.client = "open", !.handler = "added"]
  OBVIOUS
<1>4. sock' = [sock EXCEPT ![s] = new]
  BY <1>0, <1>3
<1>5. new \in SocketState /\ new.client = "open" /\ new.handler = "added" /\ new.up = <<>>
      /\ new.down = <<>>
  <2>1. sock[s] \in SocketState
    BY <1>1
  <2> QED
    BY <1>2, <1>3, <2>1 DEF SocketState
<1>6. /\ sock' \in [Sockets -> SocketState] /\ sock'[s] = new
      /\ \A t \in Sockets \ {s} : sock'[t] = sock[t]
  BY <1>1, <1>4, <1>5
<1>7. /\ SocketsFit' /\ Open("candidate")' = {s} /\ Open("admin")' = Open("admin")
  <2>1. /\ SocketsFit' /\ Open(s[1])' = {s}
        /\ \A side : side # s[1] => Open(side)' = Open(side)
    BY <1>0, <1>5, <1>6, OpenedFits
  <2> QED
    BY <1>0, <2>1
<1>8. /\ hub'.candidate = s /\ hub'.watchers = hub.watchers
      /\ hub' \in [candidate : {None} \cup Sockets, watchers : SUBSET Sockets]
  BY <1>0, HubType DEF VideoInv, TypeOK
<1>9. TypeOK'
  BY <1>0, <1>6, <1>8 DEF VideoInv, TypeOK
<1>10. \A t \in hub.watchers : t \in Sockets \ {s} /\ t[1] = "admin" /\ sock[t].handler = "serving"
  BY <1>2, HubType DEF VideoInv, HubFits
<1>11. HubFits'
  BY <1>0, <1>5, <1>6, <1>7, <1>8, <1>10 DEF HubFits
<1>12. ~Publishes /\ ~Publishes'
  BY <1>0 DEF VideoInv, EndsFit, Publishes
<1>13. EndsFit'
  BY <1>0, <1>12 DEF VideoInv, EndsFit
<1>14. \A a \in Open("admin") : a \in Sockets /\ sock'[a] = sock[a]
  BY <1>0, <1>6 DEF Open
<1>15. WatchFits'
  BY <1>0, <1>7, <1>8, <1>14 DEF VideoInv, WatchFits
<1>16. PublishFits'
  <2> DEFINE now == Publishes'
  <2>1. now \in BOOLEAN /\ ~now
    BY <1>12 DEF Publishes
  <2> HIDE DEF now
  <2>2. Comes(<<>>, "WATCH", "UNWATCH", now) <=> now
    BY <2>1, ComesEmpty
  <2>3. ~Comes(sock'[s].down, "WATCH", "UNWATCH", Publishes')
    BY <1>5, <1>6, <2>1, <2>2 DEF now
  <2> QED
    BY <1>7, <2>3 DEF PublishFits
<1>17. ASSUME ~lost' PROVE VideoFits'
  <2>1. ~lost /\ VideoFits /\ media' = media
    BY <1>0, <1>17 DEF VideoInv
  <2>2. \A t \in Sockets : t[1] = "candidate" => ~Has(sock'[t].up, "NOT_PUBLISHING")
    BY <1>2, <1>5, <1>6, <2>1 DEF VideoFits
  <2>3. sock'[s].handler # "serving"
    BY <1>5, <1>6
  <2> QED
    BY <1>7, <2>1, <2>2, <2>3 DEF VideoFits
<1> QED
  BY <1>7, <1>9, <1>11, <1>13, <1>15, <1>16, <1>17 DEF VideoInv, VideoFits

\* A socket breaks: its side has none any more, and its hook has let its connection go.
LEMMA BreakStep ==
    ASSUME VideoInv, NEW s \in Sockets, NEW n \in 0..Len(sock[s].up), Break(s, n)
    PROVE  VideoInv'
<1>0. /\ sock[s].client = "open" /\ s[1] \in {"admin", "candidate"}
      /\ sock' = [sock EXCEPT ![s].client = "closed", ![s].down = <<>>, ![s].up = SubSeq(@, 1, n)]
      /\ s[1] = "admin" => viewer' = Stopped(viewer.open) /\ UNCHANGED cand
      /\ s[1] # "admin" => cand' = Closed /\ UNCHANGED viewer
      /\ UNCHANGED <<media, lost, hub, views, offers, faults>>
  BY SocketIs DEF Break
<1>1. /\ sock \in [Sockets -> SocketState] /\ sock[s] \in SocketState /\ sock[s].up \in Seq(Messages)
      /\ viewer \in Viewer /\ viewer.open \in BOOLEAN /\ cand \in Publisher
  BY SockType, ViewerType DEF VideoInv, TypeOK
<1> DEFINE kept == SubSeq(sock[s].up, 1, n)
<1>2. /\ kept \in Seq(Messages)
      /\ \A i \in DOMAIN kept : i \in DOMAIN sock[s].up /\ kept[i] = sock[s].up[i]
  BY <1>1
<1>3. PICK new : new = [sock[s] EXCEPT !.client = "closed", !.down = <<>>, !.up = kept]
  OBVIOUS
<1>4. sock' = [sock EXCEPT ![s] = new]
  BY <1>0, <1>3
<1> HIDE DEF kept
<1>5. new \in SocketState /\ new.client = "closed" /\ new.handler = sock[s].handler /\ new.up = kept
      /\ new.down = <<>>
  <2>1. sock[s] \in SocketState /\ kept \in Seq(Messages) /\ <<>> \in Seq(Messages)
    BY <1>1, <1>2
  <2>2. new \in SocketState
    BY <1>3, <2>1 DEF SocketState
  <2>3. new.client = "closed" /\ new.handler = sock[s].handler /\ new.up = kept /\ new.down = <<>>
    BY <1>3, <2>1 DEF SocketState
  <2> QED
    BY <2>2, <2>3
<1>6. /\ sock' \in [Sockets -> SocketState] /\ sock'[s] = new
      /\ \A t \in Sockets \ {s} : sock'[t] = sock[t]
  BY <1>1, <1>4, <1>5
<1>7. /\ \A t \in Sockets : sock'[t].handler = sock[t].handler
      /\ \A t \in Sockets : sock'[t].client # "unused" <=> sock[t].client # "unused"
      /\ \A t \in Sockets : sock'[t].client = "open" => t # s /\ sock[t].client = "open"
      /\ \A t \in Sockets : sock'[t].client = "unused" => t # s
  BY <1>0, <1>5, <1>6
<1>8. SocketsFit'
  <2>1. \A side \in {"admin", "candidate"} : \E k \in 0..MaxConnects :
           \A i \in 1..MaxConnects : sock'[<<side, i>>].client # "unused" <=> i <= k
    <3> TAKE side \in {"admin", "candidate"}
    <3>1. PICK k \in 0..MaxConnects :
            \A i \in 1..MaxConnects : sock[<<side, i>>].client # "unused" <=> i <= k
      BY DEF VideoInv, SocketsFit
    <3>2. \A i \in 1..MaxConnects : <<side, i>> \in Sockets
      BY DEF Sockets
    <3> QED
      BY <1>7, <3>1, <3>2
  <2>2. \A t, u \in Sockets :
           t[1] = u[1] /\ sock'[t].client = "open" /\ sock'[u].client = "open" => t = u
    BY <1>7 DEF VideoInv, SocketsFit
  <2>3. ASSUME NEW t \in Sockets
        PROVE  /\ sock'[t].client = "unused" =>
                    sock'[t].handler = "none" /\ sock'[t].up = <<>> /\ sock'[t].down = <<>>
               /\ sock'[t].client = "open" => sock'[t].handler \in {"added", "serving"}
               /\ sock'[t].handler = "added" => t[1] = "candidate"
    BY <1>6, <1>7 DEF VideoInv, SocketsFit
  <2> QED
    BY <2>1, <2>2, <2>3 DEF SocketsFit
<1>9. /\ \A t \in Open(s[1]) : t = s
      /\ Open(s[1])' = {}
      /\ \A side : side # s[1] => Open(side)' = Open(side) /\ \A t \in Open(side) :
            t \in Sockets /\ t # s /\ sock'[t] = sock[t]
  <2>1. \A t \in Open(s[1]) : t = s
    BY <1>0 DEF VideoInv, SocketsFit, Open
  <2>2. Open(s[1])' = {}
    BY <1>7, <2>1 DEF Open
  <2>3. \A side : side # s[1] => \A t \in Open(side) : t \in Sockets /\ t # s /\ sock'[t] = sock[t]
    BY <1>6 DEF Open
  <2>4. \A side : side # s[1] => Open(side)' = Open(side)
    BY <1>6, <1>7 DEF Open
  <2> QED
    BY <2>1, <2>2, <2>3, <2>4
<1>10. /\ viewer' \in Viewer /\ cand' \in Publisher /\ viewer'.open = viewer.open
       /\ s[1] = "admin" => viewer'.pc = None /\ viewer'.retry = FALSE /\ cand' = cand
       /\ s[1] = "candidate" => cand'.pc = None /\ cand'.publishing = None /\ viewer' = viewer
  BY <1>0, <1>1, NoViewerIs, PublisherIs
<1>11. TypeOK'
  BY <1>0, <1>6, <1>10 DEF VideoInv, TypeOK
<1>12. HubFits'
  <2>1. \A t \in hub.watchers : t \in Sockets /\ t[1] = "admin" /\ sock'[t].handler = "serving"
    BY <1>7, HubType DEF VideoInv, HubFits
  <2>2. \A c \in Open("candidate") : hub.candidate = c
    BY DEF VideoInv, HubFits
  <2>3. hub.candidate # None =>
           /\ hub.candidate \in Sockets /\ hub.candidate[1] = "candidate"
           /\ sock'[hub.candidate].handler \in {"added", "serving", "leaked"}
    BY <1>7, HubType DEF VideoInv, HubFits
  <2>4. Open("candidate")' \subseteq Open("candidate") /\ hub' = hub
    BY <1>0, <1>9
  <2> QED
    BY <2>1, <2>2, <2>3, <2>4 DEF HubFits
<1>13. CASE s[1] = "admin"
  <2>1. /\ Open("admin")' = {} /\ Open("candidate")' = Open("candidate")
        /\ \A t \in Open("candidate") : t \in Sockets /\ sock'[t] = sock[t]
    BY <1>9, <1>13
  <2>2. cand' = cand /\ hub' = hub /\ Publishes' = Publishes
    BY <1>0, <1>10, <1>13 DEF Publishes
  <2>3. EndsFit'
    BY <1>10, <1>13, <2>1, <2>2 DEF VideoInv, EndsFit
  <2>4. WatchFits'
    BY <2>1 DEF WatchFits
  <2>5. PublishFits'
    BY <2>1, <2>2 DEF VideoInv, PublishFits
  <2>6. ASSUME ~lost' PROVE VideoFits'
    <3>1. ~lost /\ VideoFits /\ media' = media
      BY <1>0, <2>6 DEF VideoInv
    <3>2. \A t \in Sockets : t[1] = "candidate" => ~Has(sock'[t].up, "NOT_PUBLISHING")
      BY <1>6, <1>13, <3>1 DEF VideoFits
    <3>3. \A c \in Open("candidate") :
            sock'[c].handler = "serving" /\ hub'.watchers # {}
                => Comes(sock'[c].down, "WATCH", "UNWATCH", Publishes')
      BY <2>1, <2>2, <3>1 DEF VideoFits
    <3> QED
      BY <2>1, <3>1, <3>2, <3>3 DEF VideoFits
  <2> QED
    BY <1>8, <1>11, <1>12, <2>3, <2>4, <2>5, <2>6 DEF VideoInv, VideoFits
<1>14. CASE s[1] = "candidate"
  <2>1. /\ Open("candidate")' = {} /\ Open("admin")' = Open("admin")
        /\ \A t \in Open("admin") : t \in Sockets /\ sock'[t] = sock[t]
    BY <1>9, <1>14
  <2>2. viewer' = viewer /\ hub' = hub /\ ~Publishes' /\ cand'.publishing = None
    BY <1>0, <1>10, <1>14 DEF Publishes
  <2>3. EndsFit'
    BY <1>10, <1>14, <2>2, Constant DEF VideoInv, EndsFit
  <2>4. WatchFits'
    BY <2>1, <2>2 DEF VideoInv, WatchFits
  <2>5. PublishFits'
    BY <2>1 DEF PublishFits
  <2>6. ASSUME ~lost' PROVE VideoFits'
    <3>1. ~lost /\ VideoFits /\ media' = media
      BY <1>0, <2>6 DEF VideoInv
    <3>2. ~Has(kept, "NOT_PUBLISHING")
      BY <1>2, <1>14, <3>1 DEF VideoFits, Has
    <3>3. \A t \in Sockets : t[1] = "candidate" => ~Has(sock'[t].up, "NOT_PUBLISHING")
      BY <1>5, <1>6, <3>1, <3>2 DEF VideoFits
    <3> QED
      BY <2>1, <3>1, <3>3 DEF VideoFits
  <2> QED
    BY <1>8, <1>11, <1>12, <2>3, <2>4, <2>5, <2>6 DEF VideoInv, VideoFits
<1> QED
  BY <1>0, <1>13, <1>14

-----------------------------------------------------------------------------
(* The invariant holds, and what it says when everything is quiet. *)

LEMMA VideoStart == ASSUME Init PROVE VideoInv
<1>1. sock = [s \in Sockets |-> [client |-> "unused", handler |-> "none", up |-> <<>>, down |-> <<>>]]
  BY DEF Init
<1>2. [client |-> "unused", handler |-> "none", up |-> <<>>, down |-> <<>>] \in SocketState
  BY DEF SocketState
<1>3. \A s \in Sockets : sock[s].client = "unused" /\ sock[s].handler = "none"
                         /\ sock[s].up = <<>> /\ sock[s].down = <<>>
  BY <1>1
<1>4. hub = [candidate |-> None, watchers |-> {}] /\ cand = [publishing |-> None, pc |-> None]
      /\ viewer = NoViewer /\ media = TRUE /\ lost = FALSE /\ views = 0 /\ offers = 0 /\ faults = 0
  BY DEF Init
<1>5. NoViewer \in Viewer
  <2>1. 0 \in 0..MaxRetries
    BY Constant
  <2> QED
    BY <2>1 DEF NoViewer, Viewer
<1>6. TypeOK
  <2>1. sock \in [Sockets -> SocketState]
    BY <1>1, <1>2
  <2>2. cand \in Publisher /\ hub \in [candidate : {None} \cup Sockets, watchers : SUBSET Sockets]
    BY <1>4 DEF Publisher
  <2>3. views \in 0..MaxViews /\ offers \in 0..MaxOffers /\ faults \in 0..MaxFaults
    BY <1>4, Constant
  <2> QED
    BY <1>4, <1>5, <2>1, <2>2, <2>3 DEF TypeOK
<1>7. SocketsFit
  <2>1. \A side \in {"admin", "candidate"} : \E n \in 0..MaxConnects :
           \A k \in 1..MaxConnects : sock[<<side, k>>].client # "unused" <=> k <= n
    <3> TAKE side \in {"admin", "candidate"}
    <3>1. 0 \in 0..MaxConnects /\ MaxConnects \in Nat
      BY Constant
    <3>2. \A k \in 1..MaxConnects : <<side, k>> \in Sockets
      BY DEF Sockets
    <3>3. \A k \in 1..MaxConnects : sock[<<side, k>>].client # "unused" <=> k <= 0
      BY <1>3, <3>1, <3>2
    <3> QED
      BY <3>1, <3>3
  <2> QED
    BY <1>3, <2>1 DEF SocketsFit
<1>8. \A side : Open(side) = {}
  BY <1>3 DEF Open
<1>9. HubFits
  BY <1>4, <1>8 DEF HubFits
<1>10. EndsFit
  BY <1>4, Constant DEF EndsFit, NoViewer, Publishes
<1>11. WatchFits /\ PublishFits
  BY <1>8 DEF WatchFits, PublishFits
<1>12. VideoFits
  BY <1>3, <1>4, <1>8 DEF VideoFits, Has
<1> QED
  BY <1>6, <1>7, <1>9, <1>10, <1>11, <1>12 DEF VideoInv

LEMMA VideoNext == ASSUME VideoInv, Next PROVE VideoInv'
<1>1. CASE View
  BY <1>1, ViewStep
<1>2. CASE CloseView
  BY <1>2, CloseViewStep
<1>3. CASE Answer
  BY <1>3, AnswerStep
<1>4. CASE Connected
  BY <1>4, ConnectedStep
<1>5. CASE PeerGone
  BY <1>5, PeerGoneStep
<1>6. CASE MediaFails
  BY <1>6, MediaFailsStep
<1>7. CASE Retry
  BY <1>7, RetryStep
<1>8. CASE CreatePeer
  BY <1>8, CreatePeerStep
<1>9. CASE SendOffer
  BY <1>9, SendOfferStep
<1>10. CASE LoseMedia
  BY <1>10, LoseMediaStep
<1>11. CASE RegainMedia
  BY <1>11, RegainMediaStep
<1>12. ASSUME NEW s \in Sockets,
              \/ ConnectAdmin(s) \/ ConnectCandidate(s) \/ Greet(s) \/ Finish(s)
              \/ HandleAdmin(s) \/ HandleCandidate(s)
              \/ AdminReceives(s) \/ CandidateReceives(s)
              \/ \E n \in 0..Len(sock[s].up) : Break(s, n)
       PROVE  VideoInv'
  <2>1. CASE ConnectAdmin(s)
    BY <2>1, ConnectAdminStep
  <2>2. CASE ConnectCandidate(s)
    BY <2>2, ConnectCandidateStep
  <2>3. CASE Greet(s)
    BY <2>3, GreetStep
  <2>4. CASE Finish(s)
    BY <2>4, FinishStep
  <2>5. CASE HandleAdmin(s)
    BY <2>5, HandleAdminStep
  <2>6. CASE HandleCandidate(s)
    BY <2>6, HandleCandidateStep
  <2>7. CASE AdminReceives(s)
    BY <2>7, AdminReceivesStep
  <2>8. CASE CandidateReceives(s)
    BY <2>8, CandidateReceivesStep
  <2>9. CASE \E n \in 0..Len(sock[s].up) : Break(s, n)
    <3>1. PICK n \in 0..Len(sock[s].up) : Break(s, n)
      BY <2>9
    <3> QED
      BY <3>1, BreakStep
  <2> QED
    BY <1>12, <2>1, <2>2, <2>3, <2>4, <2>5, <2>6, <2>7, <2>8, <2>9
<1> QED
  BY <1>1, <1>2, <1>3, <1>4, <1>5, <1>6, <1>7, <1>8, <1>9, <1>10, <1>11, <1>12 DEF Next

LEMMA VideoStays == ASSUME VideoInv, [AppNext]_allVars PROVE VideoInv'
<1>1. CASE UNCHANGED vars
  BY <1>1 DEF vars, VideoInv, TypeOK, SocketsFit, HubFits, EndsFit, WatchFits, PublishFits,
              VideoFits, Open, Publishes, Provided
<1>2. CASE Next
  BY <1>2, VideoNext
<1> QED
  BY <1>1, <1>2 DEF AppNext, ClientStep, VideoStep, allVars

\* The invariant of the live video holds in every state.
THEOREM VideoFit == AppSpec => []VideoInv
<1>1. AppInit => VideoInv
  BY VideoStart DEF AppInit
<1> QED
  BY <1>1, VideoStays, PTL DEF AppSpec

\* When nothing is under way, an open socket is being served and has no message.
LEMMA QuietIs ==
    ASSUME VideoInv, Quiet, NEW side, NEW s \in Open(side)
    PROVE  s \in Sockets /\ sock[s].handler = "serving" /\ sock[s].up = <<>> /\ sock[s].down = <<>>
<1>1. s \in Sockets /\ sock[s].client = "open" /\ sock[s].handler \in {"added", "serving"}
  BY DEF Open, VideoInv, SocketsFit
<1> QED
  BY <1>1 DEF Quiet

\* PresenceHonest: in a quiet state the hub's candidate is the one that is connected, or one whose
\* handler died while it said hello.
THEOREM PresenceIsHonest == AppSpec => []PresenceHonest
<1>1. ASSUME VideoInv PROVE PresenceHonest
  <2> SUFFICES ASSUME Quiet, \A s \in Sockets : sock[s].handler # "leaked"
               PROVE  hub.candidate # None <=> Open("candidate") # {}
    BY DEF PresenceHonest
  <2>1. ASSUME hub.candidate # None PROVE Open("candidate") # {}
    <3>1. hub.candidate \in Sockets /\ hub.candidate[1] = "candidate"
          /\ sock[hub.candidate].handler \in {"added", "serving"}
      BY <1>1, <2>1, HubType DEF VideoInv, HubFits
    <3>2. sock[hub.candidate].client # "unused"
      BY <1>1, <3>1 DEF VideoInv, SocketsFit
    <3>3. sock[hub.candidate].client = "open"
      BY <3>1, <3>2 DEF Quiet
    <3> QED
      BY <3>1, <3>3 DEF Open
  <2>2. ASSUME NEW s \in Open("candidate") PROVE hub.candidate # None
    <3>1. hub.candidate = s /\ s \in Sockets
      BY <1>1 DEF VideoInv, HubFits, Open
    <3> QED
      BY <3>1, Constant
  <2> QED
    BY <2>1, <2>2
<1> QED
  BY <1>1, VideoFit, PTL

\* CameraFreed: in a quiet state the candidate's app sends its camera only while a view is open on
\* a connected administrator.
THEOREM CameraIsFreed == AppSpec => []CameraFreed
<1>1. ASSUME VideoInv PROVE CameraFreed
  <2> SUFFICES ASSUME Quiet, cand.pc # None PROVE Enabled
    BY DEF CameraFreed
  <2>1. PICK c : c \in Open("candidate")
    BY <1>1 DEF VideoInv, EndsFit, Publishes
  <2>2. sock[c].down = <<>>
    BY <1>1, <2>1, QuietIs
  <2>3. hub.watchers # {}
    <3> DEFINE now == Publishes
    <3>1. now \in BOOLEAN /\ now
      BY DEF Publishes
    <3>2. Comes(sock[c].down, "WATCH", "UNWATCH", now) => hub.watchers # {}
      BY <1>1, <2>1 DEF VideoInv, PublishFits
    <3> HIDE DEF now
    <3>3. Comes(<<>>, "WATCH", "UNWATCH", now)
      BY <3>1, ComesEmpty
    <3> QED
      BY <2>2, <3>2, <3>3
  <2>4. PICK a : a \in hub.watchers
    BY <2>3
  <2>5. a \in Sockets /\ a[1] = "admin" /\ sock[a].handler = "serving"
    BY <1>1, <2>4, HubType DEF VideoInv, HubFits
  <2>6. sock[a].client = "open"
    <3>1. sock[a].client # "unused"
      BY <1>1, <2>5 DEF VideoInv, SocketsFit
    <3> QED
      BY <2>5, <3>1 DEF Quiet
  <2>7. a \in Open("admin")
    BY <2>5, <2>6 DEF Open
  <2>8. viewer.open
    <3> DEFINE now == a \in hub.watchers
    <3>1. now \in BOOLEAN /\ now
      BY <2>4
    <3>2. Comes(sock[a].up, "WATCH", "UNWATCH", now) <=> viewer.open
      BY <1>1, <2>7 DEF VideoInv, WatchFits
    <3>3. sock[a].up = <<>>
      BY <1>1, <2>7, QuietIs
    <3> HIDE DEF now
    <3>4. Comes(<<>>, "WATCH", "UNWATCH", now)
      BY <3>1, ComesEmpty
    <3> QED
      BY <3>2, <3>3, <3>4
  <2> QED
    BY <2>7, <2>8 DEF Enabled
<1> QED
  BY <1>1, VideoFit, PTL

\* VideoResumes: in a quiet state with the view open and both ends connected there is video, or the
\* viewer has said that it gave up, or the candidate's devices have been away.
THEOREM VideoDoesResume == AppSpec => []VideoResumes
<1>1. ASSUME VideoInv PROVE VideoResumes
  <2> SUFFICES ASSUME Quiet, Watched, ~lost PROVE viewer.pc # None \/ viewer.state = "failed"
    BY DEF VideoResumes
  <2>1. PICK c : c \in Open("candidate")
    BY DEF Watched
  <2>2. PICK a : a \in Open("admin") /\ viewer.open
    BY DEF Watched, Enabled
  <2>3. /\ sock[c].handler = "serving" /\ sock[c].up = <<>> /\ sock[c].down = <<>>
        /\ sock[a].up = <<>> /\ sock[a].down = <<>>
    BY <1>1, <2>1, <2>2, QuietIs
  <2>4. \/ Has(sock[a].up, "WATCH") \/ Has(sock[c].down, "WATCH")
        \/ cand.publishing # None \/ Has(sock[c].up, "OFFER")
        \/ Comes(sock[a].down, "OFFER", "NOT_PUBLISHING", Provided)
    BY <1>1, <2>1, <2>2, <2>3 DEF VideoInv, VideoFits
  <2>5. \A type : ~Has(<<>>, type)
    BY DEF Has
  <2>6. cand.publishing = None /\ ~viewer.retry
    BY DEF Quiet
  <2> DEFINE now == Provided
  <2>7. Comes(<<>>, "OFFER", "NOT_PUBLISHING", now) /\ now \in BOOLEAN
    BY <2>3, <2>4, <2>5, <2>6 DEF Provided
  <2>8. now
    <3> HIDE DEF now
    <3> QED
      BY <2>7, ComesEmpty
  <2> QED
    BY <2>6, <2>8 DEF Provided
<1> QED
  BY <1>1, VideoFit, PTL

-----------------------------------------------------------------------------
(* The invariant of the exam page. *)

\* A save of the paper on screen, which the page waits for.
Saving(i) == Client!Awaited(i, "put") /\ calls[i].mine

\* There is one at a time, it carries the selection on screen or sends that one next, and none is
\* under way when the page says saved.
SavesFit ==
    /\ \A i, j \in Client!Slots : Saving(i) /\ Saving(j) => i = j
    /\ \A i \in Client!Slots : Saving(i) =>
          /\ page = "paper" /\ save # "saved"
          /\ IF calls[i].next = None THEN calls[i].value = shown ELSE calls[i].next = shown
          /\ calls[i].at = "answered" /\ calls[i].said = "ok" /\ attempt.mine
                => attempt.answer = calls[i].value

\* What an answer says: that the exam is over only if it is.
AnswersFit ==
    \A i \in Client!Slots : Client!UnderWay(i) /\ calls[i].at = "answered" =>
        /\ calls[i].read # None /\ calls[i].said # None
        /\ calls[i].read.finished => Client!Finished(attempt)
        /\ calls[i].kind = "submit" /\ calls[i].said = "ok" => calls[i].read.finished

ClockFits == page = "paper" /\ ~clock => Client!Finished(attempt)

ClientInv ==
    Client!StateOK /\ SavesFit /\ AnswersFit /\ ClockFits /\ Client!AnswerIsStored /\ Client!NeverStuck

-----------------------------------------------------------------------------
(* The requests under way. *)

Kinds == {"load", "clock", "control", "put", "submit"}
Callings == [Client!Slots -> Client!Call \cup {None}]

\* What has happened to a request when it went its way unseen: it is gone, not waited for, or as
\* before but for the paper that sent it.
Fades(b, a) ==
    \/ a = None
    \/ /\ b # None /\ a.kind = b.kind
       /\ \/ a.at = "stray"
          \/ /\ a.at = b.at /\ a.value = b.value /\ a.next = b.next
             /\ a.said = b.said /\ a.read = b.read
             /\ a.mine => b.mine

LEMMA LeastSlot ==
    ASSUME NEW S \in SUBSET Client!Slots, S # {}
    PROVE  \E m \in S : \A n \in S : m <= n
<1>1. IsWellFoundedOn(OpToRel(<, Nat), Nat)
  BY NatLessThanWellFounded
<1>2. S \subseteq Nat
  BY DEF Client!Slots
<1>3. PICK m \in S : \A n \in S : ~(<<n, m>> \in OpToRel(<, Nat))
  BY <1>1, <1>2, WFMin
<1>4. \A n \in S : ~(n < m)
  BY <1>2, <1>3 DEF OpToRel
<1> QED
  BY <1>2, <1>4

LEMMA CallIs ==
    ASSUME NEW c \in Client!Call
    PROVE  /\ c # None
           /\ c.kind \in Kinds /\ c.value \in Client!Selections
           /\ c.next \in Client!Selections \cup {None} /\ c.mine \in BOOLEAN
           /\ c.at \in {"sent", "answered", "stray"}
           /\ c.said \in {None, "ok", "attempt_locked", "attempt_on_hold"}
           /\ c.read \in Client!Read \cup {None}
BY ClientConstants DEF Client!Call, ClientConstants, Kinds

LEMMA ReadIs ==
    ASSUME NEW r \in Client!Read
    PROVE  /\ r # None /\ r.finished \in BOOLEAN /\ r.held \in BOOLEAN
           /\ r.answer \in Client!Selections
BY ClientConstants DEF Client!Read, ClientConstants

LEMMA NoneSelected == 0 \in Client!Selections
BY ClientConstants DEF ClientConstants, Client!Selections

LEMMA AskedIs ==
    ASSUME NEW kind \in Kinds, NEW value \in Client!Selections
    PROVE  /\ Client!Asked(kind, value) \in Client!Call
           /\ Client!Asked(kind, value).kind = kind /\ Client!Asked(kind, value).value = value
           /\ Client!Asked(kind, value).next = None /\ Client!Asked(kind, value).mine
           /\ Client!Asked(kind, value).at = "sent"
BY DEF Client!Asked, Client!Call, Kinds

LEMMA Altered ==
    ASSUME NEW b \in Callings, NEW k \in Client!Slots, NEW c \in Client!Call \cup {None}
    PROVE  /\ [b EXCEPT ![k] = c] \in Callings
           /\ [b EXCEPT ![k] = c][k] = c
           /\ \A j \in Client!Slots \ {k} : [b EXCEPT ![k] = c][j] = b[j]
BY DEF Callings

\* A request takes a slot that is free; the others stay.
LEMMA SendIs ==
    ASSUME NEW before \in Callings, NEW kind \in Kinds, NEW value \in Client!Selections,
           Client!Send(before, kind, value)
    PROVE  \E k \in Client!Slots :
              /\ before[k] = None
              /\ calls' \in Callings /\ calls'[k] = Client!Asked(kind, value)
              /\ \A j \in Client!Slots \ {k} : calls'[j] = before[j]
<1> DEFINE free == {i \in Client!Slots : before[i] = None}
           first == CHOOSE i \in free : \A j \in free : i <= j
<1>1. free # {} /\ calls' = [before EXCEPT ![first] = Client!Asked(kind, value)]
  BY DEF Client!Send
<1>2. \E i \in free : \A j \in free : i <= j
  BY <1>1, LeastSlot
<1>3. first \in free
  BY <1>2
<1>4. Client!Asked(kind, value) \in Client!Call \cup {None}
  BY AskedIs
<1> HIDE DEF first
<1>5. first \in Client!Slots /\ before[first] = None
  BY <1>3
<1> DEFINE sent == [before EXCEPT ![first] = Client!Asked(kind, value)]
<1>6. /\ sent \in Callings /\ sent[first] = Client!Asked(kind, value)
      /\ \A j \in Client!Slots \ {first} : sent[j] = before[j]
  BY <1>4, <1>5, Altered
<1>7. calls' = sent
  BY <1>1
<1> HIDE DEF sent
<1> QED
  BY <1>5, <1>6, <1>7

LEMMA WithoutIs ==
    ASSUME Client!StateOK, NEW i \in Client!Slots
    PROVE  /\ Client!Without(i) \in Callings /\ Client!Without(i)[i] = None
           /\ \A j \in Client!Slots \ {i} : Client!Without(i)[j] = calls[j]
<1>1. calls \in Callings
  BY DEF Client!StateOK, Callings
<1> QED
  BY <1>1, Altered DEF Client!Without

-----------------------------------------------------------------------------
(* What a step leaves of the invariant: the requests fade, or are new and no save. *)

NewCall(a) == a # None /\ a.kind # "put" /\ a.at = "sent"

LEMMA AnswersKept ==
    ASSUME AnswersFit,
           \A i \in Client!Slots : Fades(calls[i], calls'[i]) \/ NewCall(calls'[i]),
           Client!Finished(attempt) => Client!Finished(attempt)'
    PROVE  AnswersFit'
BY DEF AnswersFit, Fades, NewCall, Client!UnderWay, Client!Slots

LEMMA SavesKept ==
    ASSUME SavesFit,
           \A i \in Client!Slots : Fades(calls[i], calls'[i]) \/ NewCall(calls'[i]),
           \A i \in Client!Slots : calls'[i] # None => calls'[i] \in Client!Call,
           attempt'.answer = attempt.answer, attempt'.mine => attempt.mine,
           page' = page, shown' = shown, save' = "saved" => save = "saved"
    PROVE  SavesFit'
<1>1. ASSUME NEW i \in Client!Slots, Saving(i)'
      PROVE  /\ Saving(i) /\ calls'[i].at = calls[i].at /\ calls'[i].value = calls[i].value
             /\ calls'[i].next = calls[i].next /\ calls'[i].said = calls[i].said
  BY <1>1 DEF Saving, Client!Awaited, Client!UnderWay, Fades, NewCall, Client!Slots
<1>2. (\A i, j \in Client!Slots : Saving(i) /\ Saving(j) => i = j)'
  BY <1>1 DEF SavesFit, Client!Slots
<1>3. ASSUME NEW i \in Client!Slots, Saving(i)'
      PROVE  /\ page' = "paper" /\ save' # "saved"
             /\ IF calls'[i].next = None THEN calls'[i].value = shown' ELSE calls'[i].next = shown'
             /\ calls'[i].at = "answered" /\ calls'[i].said = "ok" /\ attempt'.mine
                   => attempt'.answer = calls'[i].value
  BY <1>1, <1>3 DEF SavesFit
<1> QED
  BY <1>2, <1>3 DEF SavesFit, Client!Slots

LEMMA NoSaves ==
    ASSUME \A i \in Client!Slots : ~Saving(i)'
    PROVE  SavesFit'
BY DEF SavesFit, Client!Slots

LEMMA StoredKept ==
    ASSUME Client!AnswerIsStored,
           attempt'.answer = attempt.answer, attempt'.mine => attempt.mine,
           page' = page, shown' = shown, save' = "saved" => save = "saved"
    PROVE  Client!AnswerIsStored'
BY DEF Client!AnswerIsStored

\* What brings the page to its end: the load under way, as long as it stays.
LEMMA EndKept ==
    ASSUME Client!NeverStuck, page' = "paper" => page = "paper", clock => clock',
           \A i \in Client!Slots : calls[i] # None /\ calls[i].kind = "load" => calls'[i] = calls[i]
    PROVE  Client!NeverStuck'
BY DEF Client!NeverStuck, Client!Awaited, Client!UnderWay, Client!Slots

LEMMA ClockKept ==
    ASSUME ClockFits, page' = "paper" => page = "paper", clock => clock',
           Client!Finished(attempt) => Client!Finished(attempt)'
    PROVE  ClockFits'
BY DEF ClockFits

-----------------------------------------------------------------------------
(* The server takes a request. *)

LEMMA HandledIs ==
    ASSUME Client!StateOK, NEW c \in Client!Call
    PROVE  /\ Client!Handled(c)[2] \in Client!Attempt
           /\ Client!Handled(c)[1] \in {"ok", "attempt_locked", "attempt_on_hold"}
           /\ Client!Finished(attempt) => Client!Finished(Client!Handled(c)[2])
           /\ \/ /\ Client!Handled(c)[2].answer = attempt.answer
                 /\ Client!Handled(c)[2].mine <=> attempt.mine
                 /\ c.kind = "put" => Client!Handled(c)[1] # "ok"
              \/ /\ c.kind = "put" /\ Client!Handled(c)[1] = "ok"
                 /\ Client!Handled(c)[2].answer = c.value
                 /\ Client!Handled(c)[2].mine <=> (c.mine /\ c.at = "sent")
           /\ c.kind = "submit" /\ Client!Handled(c)[1] = "ok" => Client!Finished(Client!Handled(c)[2])
<1>1. attempt \in Client!Attempt
  BY DEF Client!StateOK
<1>2. PICK a : /\ a = Client!Settled
               /\ a \in Client!Attempt /\ a.answer = attempt.answer /\ (a.mine <=> attempt.mine)
               /\ Client!Finished(attempt) => Client!Finished(a)
  <2>1. PICK b : b = [attempt EXCEPT !.status = "TIME_EXPIRED"]
    OBVIOUS
  <2>2. b \in Client!Attempt /\ b.answer = attempt.answer /\ (b.mine <=> attempt.mine) /\ Client!Finished(b)
    BY <1>1, <2>1 DEF Client!Attempt, Client!Finished
  <2>3. Client!Settled = b \/ Client!Settled = attempt
    BY <2>1 DEF Client!Settled
  <2> QED
    BY <1>1, <2>2, <2>3
<1>3. c.kind \in Kinds /\ c.value \in Client!Selections /\ c.mine \in BOOLEAN
  BY CallIs
<1>4. CASE c.kind = "put"
  <2>1. Client!Handled(c) = Client!Saved(a, c)
    BY <1>2, <1>4 DEF Client!Handled
  <2>2. CASE Client!Finished(a)
    BY <1>2, <1>4, <2>1, <2>2 DEF Client!Saved
  <2>3. CASE ~Client!Finished(a) /\ a.held
    BY <1>2, <1>4, <2>1, <2>3 DEF Client!Saved
  <2>4. CASE ~Client!Finished(a) /\ ~a.held
    <3>1. Client!Handled(c) = <<"ok", [a EXCEPT !.answer = c.value, !.mine = c.mine /\ c.at = "sent"]>>
      BY <2>1, <2>4 DEF Client!Saved
    <3>2. PICK b : b = [a EXCEPT !.answer = c.value, !.mine = c.mine /\ c.at = "sent"]
      OBVIOUS
    <3>3. /\ b \in Client!Attempt /\ b.answer = c.value
          /\ b.mine <=> (c.mine /\ c.at = "sent")
          /\ b.status = a.status
      BY <1>2, <1>3, <3>2 DEF Client!Attempt
    <3>4. Client!Handled(c)[1] = "ok" /\ Client!Handled(c)[2] = b
      BY <3>1, <3>2
    <3> QED
      BY <1>2, <1>4, <3>3, <3>4 DEF Client!Finished
  <2> QED
    BY <2>2, <2>3, <2>4
<1>5. CASE c.kind = "submit"
  <2>1. Client!Handled(c) = Client!Submitted(a)
    BY <1>2, <1>5 DEF Client!Handled
  <2>2. PICK b : b = [a EXCEPT !.status = "SUBMITTED"]
    OBVIOUS
  <2>3. b \in Client!Attempt /\ b.answer = a.answer /\ (b.mine <=> a.mine) /\ Client!Finished(b)
    BY <1>2, <2>2 DEF Client!Attempt, Client!Finished
  <2>4. \/ Client!Handled(c) = <<"ok", a>> /\ Client!Finished(a)
        \/ Client!Handled(c) = <<"attempt_locked", a>>
        \/ Client!Handled(c) = <<"attempt_on_hold", a>>
        \/ Client!Handled(c) = <<"ok", b>>
    BY <2>1, <2>2 DEF Client!Submitted, Client!Finished
  <2>5. \/ Client!Handled(c)[1] = "ok" /\ Client!Handled(c)[2] = a /\ Client!Finished(a)
        \/ Client!Handled(c)[1] = "attempt_locked" /\ Client!Handled(c)[2] = a
        \/ Client!Handled(c)[1] = "attempt_on_hold" /\ Client!Handled(c)[2] = a
        \/ Client!Handled(c)[1] = "ok" /\ Client!Handled(c)[2] = b
    BY <2>4
  <2> QED
    BY <1>2, <1>5, <2>3, <2>5
<1>6. CASE c.kind \notin {"put", "submit"}
  <2>1. Client!Handled(c) = <<"ok", a>>
    BY <1>2, <1>6 DEF Client!Handled
  <2>2. Client!Handled(c)[1] = "ok" /\ Client!Handled(c)[2] = a
    BY <2>1
  <2> QED
    BY <1>2, <1>6, <2>2
<1> QED
  BY <1>4, <1>5, <1>6

LEMMA CallsType ==
    ASSUME Client!StateOK
    PROVE  /\ calls \in Callings
           /\ \A i \in Client!Slots : calls[i] # None => calls[i] \in Client!Call
BY DEF Client!StateOK, Callings

\* What an answer says of the end of the exam.
LEMMA ReadTells ==
    ASSUME NEW kind, NEW a
    PROVE  Client!ReadBy(kind, a).finished <=> Client!Finished(a) /\ kind \in {"load", "clock", "submit"}
BY DEF Client!ReadBy, Client!Finished

LEMMA ServeIs ==
    ASSUME Client!StateOK, NEW i \in Client!Slots, Client!Serve(i)
    PROVE  /\ calls[i] \in Client!Call /\ calls[i].at \in {"sent", "stray"}
           /\ attempt' = Client!Handled(calls[i])[2]
           /\ calls' \in Callings
           /\ \A j \in Client!Slots \ {i} : calls'[j] = calls[j]
           /\ \/ calls[i].at = "stray" /\ calls'[i] = None
              \/ /\ calls[i].at = "sent"
                 /\ calls'[i] \in Client!Call
                 /\ calls'[i].at = "answered" /\ calls'[i].said = Client!Handled(calls[i])[1]
                 /\ calls'[i].read = Client!ReadBy(calls[i].kind, attempt')
                 /\ calls'[i].read \in Client!Read
                 /\ calls'[i].kind = calls[i].kind /\ calls'[i].value = calls[i].value
                 /\ calls'[i].next = calls[i].next /\ (calls'[i].mine <=> calls[i].mine)
           /\ UNCHANGED <<late, pushes, page, shown, save, clock, held, edits, holds, failures>>
<1>1. /\ calls[i] # None /\ calls[i].at \in {"sent", "stray"}
      /\ attempt' = Client!Handled(calls[i])[2]
      /\ UNCHANGED <<late, pushes, page, shown, save, clock, held, edits, holds, failures>>
  BY DEF Client!Serve, Client!UnderWay
<1>2. calls[i] \in Client!Call /\ calls \in Callings
  BY <1>1, CallsType
<1>3. /\ attempt' \in Client!Attempt
      /\ Client!Handled(calls[i])[1] \in {"ok", "attempt_locked", "attempt_on_hold"}
  BY <1>1, <1>2, HandledIs
<1>4. Client!ReadBy(calls[i].kind, attempt') \in Client!Read
  BY <1>3, NoneSelected DEF Client!ReadBy, Client!Read, Client!Attempt, Client!Finished
<1>5. PICK a : a = [calls[i] EXCEPT !.at = "answered", !.said = Client!Handled(calls[i])[1],
                                    !.read = Client!ReadBy(calls[i].kind, attempt')]
  OBVIOUS
<1>6. /\ a \in Client!Call
      /\ a.at = "answered" /\ a.said = Client!Handled(calls[i])[1]
      /\ a.read = Client!ReadBy(calls[i].kind, attempt')
      /\ a.kind = calls[i].kind /\ a.value = calls[i].value
      /\ a.next = calls[i].next /\ (a.mine <=> calls[i].mine)
  BY <1>2, <1>3, <1>4, <1>5 DEF Client!Call
<1>7. PICK n : n = IF calls[i].at = "stray" THEN None ELSE a
  OBVIOUS
<1>8. calls' = [calls EXCEPT ![i] = n]
  BY <1>1, <1>2, <1>5, <1>7 DEF Client!Serve, Callings
<1>9. n \in Client!Call \cup {None}
  BY <1>6, <1>7
<1>10. calls' \in Callings /\ calls'[i] = n /\ \A j \in Client!Slots \ {i} : calls'[j] = calls[j]
  <2>1. /\ [calls EXCEPT ![i] = n] \in Callings /\ [calls EXCEPT ![i] = n][i] = n
        /\ \A j \in Client!Slots \ {i} : [calls EXCEPT ![i] = n][j] = calls[j]
    BY <1>2, <1>9, Altered
  <2> QED
    BY <1>8, <2>1
<1>11. \/ calls[i].at = "stray" /\ calls'[i] = None
       \/ calls[i].at = "sent" /\ calls'[i] = a
  BY <1>1, <1>7, <1>10
<1> QED
  BY <1>1, <1>2, <1>4, <1>6, <1>10, <1>11

LEMMA ServeKeeps ==
    ASSUME ClientInv, NEW i \in Client!Slots, Client!Serve(i)
    PROVE  ClientInv'
<1> USE DEF ClientInv
<1>1. /\ calls[i] \in Client!Call /\ calls[i].at \in {"sent", "stray"}
      /\ attempt' = Client!Handled(calls[i])[2]
      /\ calls' \in Callings
      /\ \A j \in Client!Slots \ {i} : calls'[j] = calls[j]
      /\ UNCHANGED <<late, pushes, page, shown, save, clock, held, edits, holds, failures>>
  BY ServeIs
<1>2. \/ calls[i].at = "stray" /\ calls'[i] = None
      \/ /\ calls[i].at = "sent"
         /\ calls'[i] \in Client!Call
         /\ calls'[i].at = "answered" /\ calls'[i].said = Client!Handled(calls[i])[1]
         /\ calls'[i].read = Client!ReadBy(calls[i].kind, attempt')
         /\ calls'[i].read \in Client!Read
         /\ calls'[i].kind = calls[i].kind /\ calls'[i].value = calls[i].value
         /\ calls'[i].next = calls[i].next /\ (calls'[i].mine <=> calls[i].mine)
  BY ServeIs
<1>3. /\ attempt' \in Client!Attempt
      /\ Client!Finished(attempt) => Client!Finished(attempt')
      /\ \/ /\ attempt'.answer = attempt.answer /\ (attempt'.mine <=> attempt.mine)
            /\ calls[i].kind = "put" => Client!Handled(calls[i])[1] # "ok"
         \/ /\ calls[i].kind = "put"
            /\ attempt'.answer = calls[i].value
            /\ attempt'.mine <=> (calls[i].mine /\ calls[i].at = "sent")
      /\ calls[i].kind = "submit" /\ Client!Handled(calls[i])[1] = "ok" => Client!Finished(attempt')
  BY <1>1, HandledIs
<1>4. Client!StateOK'
  BY <1>1, <1>3 DEF Client!StateOK, Callings
<1>5. ASSUME NEW j \in Client!Slots, Saving(j)'
      PROVE  /\ Saving(j) /\ calls'[j].value = calls[j].value /\ calls'[j].next = calls[j].next
             /\ calls'[j].at = "answered" /\ calls'[j].said = "ok" /\ attempt'.mine
                   => attempt'.answer = calls[j].value
  <2>2. calls'[j].kind = "put" /\ calls'[j] # None /\ calls'[j].at # "stray" /\ calls'[j].mine
    BY <1>5 DEF Saving, Client!Awaited, Client!UnderWay
  <2>1. Saving(j) /\ calls'[j].value = calls[j].value /\ calls'[j].next = calls[j].next
    <3>1. CASE j # i
      BY <1>1, <2>2, <3>1 DEF Saving, Client!Awaited, Client!UnderWay
    <3>2. CASE j = i
      <4>1. /\ calls[i].at = "sent" /\ calls[i].kind = "put" /\ calls[i].mine
            /\ calls'[i].value = calls[i].value /\ calls'[i].next = calls[i].next
        BY <1>2, <2>2, <3>2
      <4>2. calls[i] # None
        BY <1>1, CallIs
      <4> QED
        BY <3>2, <4>1, <4>2 DEF Saving, Client!Awaited, Client!UnderWay
    <3> QED
      BY <3>1, <3>2
  <2>3. ASSUME j = i, calls'[j].said = "ok", attempt'.mine
        PROVE  attempt'.answer = calls[j].value
    <3>1. calls[i].kind = "put" /\ Client!Handled(calls[i])[1] = "ok"
      BY <1>2, <2>2, <2>3
    <3> QED
      BY <1>3, <2>3, <3>1
  <2>4. ASSUME j # i, calls'[j].at = "answered", calls'[j].said = "ok", attempt'.mine
        PROVE  attempt'.answer = calls[j].value
    <3>1. calls[j].at = "answered" /\ calls[j].said = "ok"
      BY <1>1, <2>4
    <3>2. CASE attempt'.answer = attempt.answer /\ (attempt'.mine <=> attempt.mine)
      BY <2>1, <2>4, <3>1, <3>2 DEF SavesFit
    <3>3. CASE calls[i].kind = "put" /\ calls[i].mine /\ calls[i].at = "sent"
      <4>1. Saving(i)
        BY <1>1, <3>3, CallIs DEF Saving, Client!Awaited, Client!UnderWay
      <4> QED
        BY <2>1, <2>4, <4>1 DEF SavesFit
    <3> QED
      BY <1>3, <2>4, <3>2, <3>3
  <2> QED
    BY <2>1, <2>3, <2>4
<1>6. SavesFit'
  <2>1. (\A j, k \in Client!Slots : Saving(j) /\ Saving(k) => j = k)'
    BY <1>5 DEF SavesFit, Client!Slots
  <2>2. ASSUME NEW j \in Client!Slots, Saving(j)'
        PROVE  /\ page' = "paper" /\ save' # "saved"
               /\ IF calls'[j].next = None THEN calls'[j].value = shown' ELSE calls'[j].next = shown'
               /\ calls'[j].at = "answered" /\ calls'[j].said = "ok" /\ attempt'.mine
                     => attempt'.answer = calls'[j].value
    BY <1>1, <1>5, <2>2 DEF SavesFit
  <2> QED
    BY <2>1, <2>2 DEF SavesFit, Client!Slots
<1>7. AnswersFit'
  <2>1. ASSUME NEW j \in Client!Slots, calls'[j] # None, calls'[j].at = "answered"
        PROVE  /\ calls'[j].read # None /\ calls'[j].said # None
               /\ calls'[j].read.finished => Client!Finished(attempt')
               /\ calls'[j].kind = "submit" /\ calls'[j].said = "ok" => calls'[j].read.finished
    <3>1. CASE j # i
      BY <1>1, <1>3, <2>1, <3>1 DEF AnswersFit, Client!UnderWay
    <3>2. CASE j = i
      <4>1. /\ calls'[i].read = Client!ReadBy(calls[i].kind, attempt') /\ calls'[i].read \in Client!Read
            /\ calls'[i].kind = calls[i].kind /\ calls'[i].said = Client!Handled(calls[i])[1]
        BY <1>2, <2>1, <3>2
      <4>2. calls'[i].said # None
        BY <1>1, <4>1, HandledIs, ClientConstants DEF ClientConstants
      <4> QED
        BY <1>3, <3>2, <4>1, <4>2, ReadIs, ReadTells
    <3> QED
      BY <3>1, <3>2
  <2> QED
    BY <2>1 DEF AnswersFit, Client!UnderWay, Client!Slots
<1>8. ClockFits'
  BY <1>1, <1>3 DEF ClockFits
<1>9. Client!AnswerIsStored'
  <2>1. CASE attempt'.answer = attempt.answer /\ (attempt'.mine <=> attempt.mine)
    BY <1>1, <2>1 DEF Client!AnswerIsStored
  <2>2. CASE calls[i].kind = "put" /\ (attempt'.mine <=> (calls[i].mine /\ calls[i].at = "sent"))
    <3>1. attempt'.mine => Saving(i)
      BY <1>1, <2>2, CallIs DEF Saving, Client!Awaited, Client!UnderWay
    <3> QED
      BY <1>1, <3>1 DEF SavesFit, Client!AnswerIsStored
  <2> QED
    BY <1>3, <2>1, <2>2
<1>10. Client!NeverStuck'
  <2> SUFFICES ASSUME page' = "paper", ~clock'
               PROVE  \E j \in Client!Slots :
                         /\ calls'[j] # None /\ calls'[j].kind = "load" /\ calls'[j].at # "stray"
                         /\ calls'[j].at = "answered" => calls'[j].read.finished
    BY DEF Client!NeverStuck, Client!Awaited, Client!UnderWay, Client!Slots
  <2>1. PICK j \in Client!Slots :
           /\ calls[j] # None /\ calls[j].kind = "load" /\ calls[j].at # "stray"
           /\ calls[j].at = "answered" => calls[j].read.finished
    BY <1>1 DEF Client!NeverStuck, Client!Awaited, Client!UnderWay
  <2>2. CASE j # i
    BY <1>1, <2>1, <2>2
  <2>3. CASE j = i
    <3>1. Client!Finished(attempt')
      BY <1>1, <1>3 DEF ClockFits
    <3>2. /\ calls'[i] \in Client!Call /\ calls'[i].at = "answered"
          /\ calls'[i].kind = "load" /\ calls'[i].read = Client!ReadBy("load", attempt')
      BY <1>2, <2>1, <2>3
    <3>3. calls'[i].read.finished
      BY <3>1, <3>2, ReadTells
    <3> QED
      BY <3>2, <3>3, CallIs
  <2> QED
    BY <2>2, <2>3
<1> QED
  BY <1>4, <1>6, <1>7, <1>8, <1>9, <1>10

-----------------------------------------------------------------------------
(* The page hears an answer. *)

LEMMA UnmountedIs ==
    ASSUME NEW these \in Callings
    PROVE  /\ Client!Unmounted(these) \in Callings
           /\ \A j \in Client!Slots :
                 /\ these[j] = None => Client!Unmounted(these)[j] = None
                 /\ these[j] # None =>
                       /\ Client!Unmounted(these)[j] \in Client!Call
                       /\ Client!Unmounted(these)[j].kind = these[j].kind
                       /\ Client!Unmounted(these)[j].at = these[j].at
                       /\ Client!Unmounted(these)[j].value = these[j].value
                       /\ Client!Unmounted(these)[j].next = these[j].next
                       /\ Client!Unmounted(these)[j].said = these[j].said
                       /\ Client!Unmounted(these)[j].read = these[j].read
                       /\ ~Client!Unmounted(these)[j].mine
<1>1. ASSUME NEW c \in Client!Call, NEW d, d = [c EXCEPT !.mine = FALSE]
      PROVE  /\ d \in Client!Call /\ ~d.mine
             /\ d.kind = c.kind /\ d.at = c.at /\ d.value = c.value
             /\ d.next = c.next /\ d.said = c.said /\ d.read = c.read
  BY <1>1 DEF Client!Call
<1>2. ASSUME NEW j \in Client!Slots
      PROVE  Client!Unmounted(these)[j] = IF these[j] = None THEN None ELSE [these[j] EXCEPT !.mine = FALSE]
  BY DEF Client!Unmounted
<1>3. ASSUME NEW j \in Client!Slots, these[j] # None
      PROVE  these[j] \in Client!Call /\ Client!Unmounted(these)[j] = [these[j] EXCEPT !.mine = FALSE]
  BY <1>2, <1>3 DEF Callings
<1>4. ASSUME NEW j \in Client!Slots
      PROVE  Client!Unmounted(these)[j] \in Client!Call \cup {None}
  BY <1>1, <1>2, <1>3
<1>5. Client!Unmounted(these) \in Callings
  BY <1>4 DEF Client!Unmounted, Callings
<1> QED
  BY <1>1, <1>2, <1>3, <1>5, ZenonT(60)

LEMMA FadesAway ==
    ASSUME Client!StateOK, NEW i \in Client!Slots
    PROVE  \A j \in Client!Slots : Fades(calls[j], Client!Without(i)[j])
BY WithoutIs, CallsType, CallIs DEF Fades

LEMMA FadesUnmounted ==
    ASSUME NEW these \in Callings, \A j \in Client!Slots : Fades(calls[j], these[j])
    PROVE  \A j \in Client!Slots : Fades(calls[j], Client!Unmounted(these)[j])
<1> SUFFICES ASSUME NEW j \in Client!Slots
             PROVE  Fades(calls[j], Client!Unmounted(these)[j])
  OBVIOUS
<1>1. Fades(calls[j], these[j])
  OBVIOUS
<1> QED
  BY <1>1, UnmountedIs DEF Fades

\* A request sent after some have faded.
LEMMA SentOver ==
    ASSUME NEW before \in Callings, \A j \in Client!Slots : Fades(calls[j], before[j]),
           NEW kind \in Kinds \ {"put"}, Client!Send(before, kind, 0)
    PROVE  /\ calls' \in Callings
           /\ \A j \in Client!Slots : Fades(calls[j], calls'[j]) \/ NewCall(calls'[j])
           /\ \A j \in Client!Slots : before[j] # None => calls'[j] = before[j]
           /\ \E k \in Client!Slots : calls'[k] = Client!Asked(kind, 0)
<1>1. PICK k \in Client!Slots :
         /\ before[k] = None
         /\ calls' \in Callings /\ calls'[k] = Client!Asked(kind, 0)
         /\ \A j \in Client!Slots \ {k} : calls'[j] = before[j]
  BY SendIs, NoneSelected
<1>2. NewCall(calls'[k])
  BY <1>1, AskedIs, NoneSelected, CallIs DEF NewCall
<1>3. ASSUME NEW j \in Client!Slots
      PROVE  Fades(calls[j], calls'[j]) \/ NewCall(calls'[j])
  BY <1>1, <1>2
<1> QED
  BY <1>1, <1>3

LEMMA ReadOf ==
    ASSUME Client!StateOK, AnswersFit, NEW i \in Client!Slots, calls[i] # None, calls[i].at = "answered"
    PROVE  /\ calls[i] \in Client!Call /\ calls[i].read \in Client!Read
           /\ calls[i].read.finished => Client!Finished(attempt)
           /\ calls[i].said \in {"ok", "attempt_locked", "attempt_on_hold"}
<1>1. calls[i] \in Client!Call
  BY CallsType
<1>2. /\ calls[i].read # None /\ calls[i].said # None
      /\ calls[i].read.finished => Client!Finished(attempt)
  BY DEF AnswersFit, Client!UnderWay
<1> QED
  BY <1>1, <1>2, CallIs

Rest == <<attempt, late, pushes, edits, holds, failures>>

LEMMA ShowKeeps ==
    ASSUME ClientInv, NEW i \in Client!Slots, calls[i] # None, calls[i].at = "answered",
           Client!Show(i), UNCHANGED Rest
    PROVE  ClientInv'
<1> USE DEF ClientInv, Rest
<1>1. /\ calls[i] \in Client!Call /\ calls[i].read \in Client!Read
      /\ calls[i].read.finished => Client!Finished(attempt)
  BY ReadOf
<1>2. /\ Client!Without(i) \in Callings /\ Client!Without(i)[i] = None
      /\ \A j \in Client!Slots \ {i} : Client!Without(i)[j] = calls[j]
      /\ \A j \in Client!Slots : Fades(calls[j], Client!Without(i)[j])
  BY WithoutIs, FadesAway
<1>3. CASE Client!keepFinished(calls[i].read)
  <2>1. /\ page = "finished" /\ calls' = Client!Without(i)
        /\ UNCHANGED <<page, shown, save, clock, held>>
    BY <1>3 DEF Client!Show, Client!keepFinished
  <2>2. Client!StateOK'
    BY <1>2, <2>1 DEF Client!StateOK, Callings
  <2>3. AnswersFit'
    BY <1>2, <2>1, AnswersKept
  <2>4. SavesFit'
    <3>1. \A j \in Client!Slots : ~Saving(j)'
      BY <1>2, <2>1 DEF SavesFit, Saving, Client!Awaited, Client!UnderWay
    <3> QED
      BY <3>1, NoSaves
  <2> QED
    BY <2>1, <2>2, <2>3, <2>4 DEF ClockFits, Client!NeverStuck, Client!AnswerIsStored
<1>4. CASE ~Client!keepFinished(calls[i].read) /\ calls[i].read.finished
  <2>1. /\ page' = "finished" /\ calls' = Client!Unmounted(Client!Without(i))
        /\ UNCHANGED <<shown, save, clock, held>>
    BY <1>4 DEF Client!Show
  <2>2. Client!Unmounted(Client!Without(i)) \in Callings
    BY <1>2, UnmountedIs
  <2>3. Client!StateOK'
    BY <2>1, <2>2 DEF Client!StateOK, Callings
  <2>4. \A j \in Client!Slots : Fades(calls[j], Client!Unmounted(Client!Without(i))[j])
    BY <1>2, FadesUnmounted
  <2>5. AnswersFit'
    BY <2>1, <2>4, AnswersKept
  <2>6. SavesFit'
    <3>1. \A j \in Client!Slots : ~Saving(j)'
      BY <1>2, <2>1, UnmountedIs DEF Saving, Client!Awaited, Client!UnderWay
    <3> QED
      BY <3>1, NoSaves
  <2> QED
    BY <2>1, <2>3, <2>5, <2>6 DEF ClockFits, Client!NeverStuck, Client!AnswerIsStored
<1>5. CASE ~Client!keepFinished(calls[i].read) /\ ~calls[i].read.finished
  <2>1. page' = "paper" /\ calls' = Client!Without(i) /\ Client!Mounted(calls[i].read)
    BY <1>5 DEF Client!Show
  <2>2. AnswersFit'
    BY <1>2, <2>1, AnswersKept
  <2>3. CASE page = "paper"
    <3>1. UNCHANGED <<page, shown, save, clock, held>>
      BY <2>1, <2>3 DEF Client!Mounted
    <3>2. Client!StateOK'
      BY <1>2, <2>1, <3>1 DEF Client!StateOK, Callings
    <3>3. SavesFit'
      <4>1. \A j \in Client!Slots : calls'[j] # None => calls'[j] \in Client!Call
        BY <1>2, <2>1 DEF Callings
      <4> QED
        BY <1>2, <2>1, <3>1, <4>1, SavesKept
    <3>4. ClockFits' /\ Client!AnswerIsStored'
      BY <3>1 DEF ClockFits, Client!AnswerIsStored
    <3>5. Client!NeverStuck'
      BY <1>2, <1>5, <2>1, <3>1 DEF Client!NeverStuck, Client!Awaited, Client!UnderWay, Client!Slots
    <3> QED
      BY <2>2, <3>2, <3>3, <3>4, <3>5
  <2>4. CASE page # "paper"
    <3>1. /\ shown' = calls[i].read.answer /\ save' = "idle" /\ clock' = TRUE
          /\ held' = calls[i].read.held
      BY <2>1, <2>4 DEF Client!Mounted
    <3>2. Client!StateOK'
      BY <1>1, <1>2, <2>1, <3>1, ReadIs DEF Client!StateOK, Callings
    <3>3. SavesFit'
      <4>1. \A j \in Client!Slots : ~Saving(j)'
        BY <1>2, <2>1, <2>4 DEF SavesFit, Saving, Client!Awaited, Client!UnderWay
      <4> QED
        BY <4>1, NoSaves
    <3> QED
      BY <2>2, <3>1, <3>2, <3>3 DEF ClockFits, Client!NeverStuck, Client!AnswerIsStored
  <2> QED
    BY <2>3, <2>4
<1> QED
  BY <1>3, <1>4, <1>5

\* The page goes on without the request, and another may have gone in its place.
LEMMA GoesOn ==
    ASSUME ClientInv, UNCHANGED <<attempt, page, shown>>,
           calls' \in Callings,
           \A j \in Client!Slots : Fades(calls[j], calls'[j]) \/ NewCall(calls'[j]),
           save' = "saved" => save = "saved"
    PROVE  SavesFit' /\ AnswersFit' /\ Client!AnswerIsStored'
<1> USE DEF ClientInv
<1>1. \A j \in Client!Slots : calls'[j] # None => calls'[j] \in Client!Call
  BY DEF Callings
<1>2. SavesFit'
  BY <1>1, SavesKept
<1>3. Client!Finished(attempt) => Client!Finished(attempt)'
  BY DEF Client!Finished
<1>4. AnswersFit'
  BY <1>3, AnswersKept
<1>5. Client!AnswerIsStored'
  BY StoredKept
<1> QED
  BY <1>2, <1>4, <1>5

\* What a request is replaced by: another that asks what happened, or none.
Follows(i, kind) == Client!Send(Client!Without(i), kind, 0) \/ calls' = Client!Without(i)

LEMMA FollowsIs ==
    ASSUME Client!StateOK, NEW i \in Client!Slots, calls[i] # None, NEW kind \in Kinds \ {"put"}, Follows(i, kind)
    PROVE  /\ calls' \in Callings
           /\ \A j \in Client!Slots : Fades(calls[j], calls'[j]) \/ NewCall(calls'[j])
           /\ \A j \in Client!Slots \ {i} : calls[j] # None => calls'[j] = calls[j]
<1>1. /\ Client!Without(i) \in Callings
      /\ \A j \in Client!Slots \ {i} : Client!Without(i)[j] = calls[j]
      /\ \A j \in Client!Slots : Fades(calls[j], Client!Without(i)[j])
  BY WithoutIs, FadesAway
<1>2. CASE calls' = Client!Without(i)
  BY <1>1, <1>2
<1>3. CASE Client!Send(Client!Without(i), kind, 0)
  <2>1. /\ calls' \in Callings
        /\ \A j \in Client!Slots : Fades(calls[j], calls'[j]) \/ NewCall(calls'[j])
        /\ \A j \in Client!Slots : Client!Without(i)[j] # None => calls'[j] = Client!Without(i)[j]
    BY <1>1, <1>3, SentOver
  <2> QED
    BY <1>1, <2>1
<1> QED
  BY <1>2, <1>3 DEF Follows

\* A request that is no load is replaced, and the clock goes on.
LEMMA FollowsKeeps ==
    ASSUME ClientInv, NEW i \in Client!Slots, calls[i] # None, calls[i].kind # "load",
           NEW kind \in Kinds \ {"put"}, Follows(i, kind),
           UNCHANGED <<attempt, page, shown, clock>>, save' = "saved" => save = "saved"
    PROVE  /\ calls' \in Callings
           /\ SavesFit' /\ AnswersFit' /\ ClockFits' /\ Client!AnswerIsStored' /\ Client!NeverStuck'
<1> USE DEF ClientInv
<1>1. /\ calls' \in Callings
      /\ \A j \in Client!Slots : Fades(calls[j], calls'[j]) \/ NewCall(calls'[j])
      /\ \A j \in Client!Slots \ {i} : calls[j] # None => calls'[j] = calls[j]
  BY FollowsIs
<1>2. SavesFit' /\ AnswersFit' /\ Client!AnswerIsStored'
  BY <1>1, GoesOn
<1>3. Client!NeverStuck'
  <2>1. \A j \in Client!Slots : calls[j] # None /\ calls[j].kind = "load" => calls'[j] = calls[j]
    BY <1>1
  <2> QED
    BY <2>1, EndKept
<1>4. ClockFits'
  BY DEF ClockFits, Client!Finished
<1> QED
  BY <1>1, <1>2, <1>3, <1>4

LEMMA ClockKeeps ==
    ASSUME ClientInv, NEW i \in Client!Slots, calls[i] # None, calls[i].at = "answered",
           Client!ClockAnswered(i), UNCHANGED Rest
    PROVE  ClientInv'
<1> USE DEF ClientInv, Rest
<1>1. /\ calls[i].kind = "clock" /\ UNCHANGED <<page, shown, save, held>>
      /\ Follows(i, "load")
      /\ clock' \in {clock, ~calls[i].read.finished}
  BY DEF Client!ClockAnswered, Follows, Client!Reload
<1>2. /\ calls[i].read \in Client!Read /\ (calls[i].read.finished => Client!Finished(attempt))
      /\ calls[i].read.finished \in BOOLEAN
  BY ReadOf, ReadIs
<1>3. "load" \in Kinds \ {"put"}
  BY DEF Kinds
<1>4. /\ calls' \in Callings
      /\ \A j \in Client!Slots : Fades(calls[j], calls'[j]) \/ NewCall(calls'[j])
      /\ \A j \in Client!Slots \ {i} : calls[j] # None => calls'[j] = calls[j]
  BY <1>1, <1>3, FollowsIs
<1>5. SavesFit' /\ AnswersFit' /\ Client!AnswerIsStored'
  BY <1>1, <1>4, GoesOn
<1>6. Client!StateOK'
  BY <1>1, <1>2, <1>4 DEF Client!StateOK, Callings
<1>7. ClockFits'
  <2>1. page' = "paper" /\ ~clock' => Client!Finished(attempt)
    BY <1>1, <1>2 DEF ClockFits
  <2> QED
    BY <2>1 DEF ClockFits, Client!Finished
<1>8. Client!NeverStuck'
  <2>1. CASE Client!Ends(i) /\ page = "paper" /\ calls[i].mine
    <3>1. Client!Send(Client!Without(i), "load", 0)
      BY <2>1 DEF Client!ClockAnswered, Client!Reload
    <3>2. PICK k \in Client!Slots : calls'[k] = Client!Asked("load", 0)
      BY <1>3, <3>1, WithoutIs, FadesAway, SentOver
    <3>3. calls'[k] # None /\ calls'[k].kind = "load" /\ calls'[k].at = "sent"
      BY <1>3, <3>2, AskedIs, NoneSelected, CallIs
    <3> QED
      BY <3>3 DEF Client!NeverStuck, Client!Awaited, Client!UnderWay, Client!Slots
  <2>2. CASE ~(Client!Ends(i) /\ page = "paper" /\ calls[i].mine)
    <3>1. clock => clock'
      BY <1>2, <2>2 DEF Client!ClockAnswered, Client!Ends
    <3>2. \A j \in Client!Slots : calls[j] # None /\ calls[j].kind = "load" => calls'[j] = calls[j]
      BY <1>1, <1>4
    <3> QED
      BY <1>1, <3>1, <3>2, EndKept
  <2> QED
    BY <2>1, <2>2
<1> QED
  BY <1>5, <1>6, <1>7, <1>8

LEMMA ControlKeeps ==
    ASSUME ClientInv, NEW i \in Client!Slots, calls[i] # None, calls[i].at = "answered",
           Client!ControlAnswered(i), UNCHANGED Rest
    PROVE  ClientInv'
<1> USE DEF ClientInv, Rest
<1>1. /\ calls[i].kind = "control" /\ UNCHANGED <<page, shown, save, clock>>
      /\ Follows(i, "load")
      /\ held' \in {held, calls[i].read.held}
  BY DEF Client!ControlAnswered, Follows
<1>2. calls[i].read.held \in BOOLEAN
  BY ReadOf, ReadIs
<1>3. "load" \in Kinds \ {"put"}
  BY DEF Kinds
<1>4. /\ calls' \in Callings
      /\ SavesFit' /\ AnswersFit' /\ ClockFits' /\ Client!AnswerIsStored' /\ Client!NeverStuck'
  BY <1>1, <1>3, FollowsKeeps
<1>5. Client!StateOK'
  BY <1>1, <1>2, <1>4 DEF Client!StateOK, Callings
<1> QED
  BY <1>4, <1>5

LEMMA SubmitKeeps ==
    ASSUME ClientInv, NEW i \in Client!Slots, calls[i] # None, calls[i].at = "answered",
           Client!SubmitAnswered(i), UNCHANGED Rest
    PROVE  ClientInv'
<1>1. CASE calls[i].said = "ok"
  BY <1>1, ShowKeeps DEF Client!SubmitAnswered
<1>2. CASE calls[i].said # "ok"
  <2> USE DEF ClientInv, Rest
  <2>1. /\ calls[i].kind = "submit" /\ UNCHANGED <<page, shown, save, clock, held>>
        /\ Follows(i, "load")
    BY <1>2 DEF Client!SubmitAnswered, Follows, Client!Reload
  <2>2. "load" \in Kinds \ {"put"}
    BY DEF Kinds
  <2>3. /\ calls' \in Callings
        /\ SavesFit' /\ AnswersFit' /\ ClockFits' /\ Client!AnswerIsStored' /\ Client!NeverStuck'
    BY <2>1, <2>2, FollowsKeeps
  <2>4. Client!StateOK'
    BY <2>1, <2>3 DEF Client!StateOK, Callings
  <2> QED
    BY <2>3, <2>4
<1> QED
  BY <1>1, <1>2

LEMMA SaveKeeps ==
    ASSUME ClientInv, NEW i \in Client!Slots, calls[i] # None, calls[i].at = "answered",
           Client!SaveAnswered(i), UNCHANGED Rest
    PROVE  ClientInv'
<1> USE DEF ClientInv, Rest
<1>1. calls[i].kind = "put" /\ UNCHANGED <<page, shown, clock, held>>
  BY DEF Client!SaveAnswered
<1>2. calls[i] \in Client!Call /\ calls[i].said \in {"ok", "attempt_locked", "attempt_on_hold"}
  BY ReadOf
<1>3. calls[i].next \in Client!Selections \cup {None} /\ calls[i].mine \in BOOLEAN
  BY <1>2, CallIs
<1>4. {"load", "control"} \subseteq Kinds \ {"put"} /\ "put" \in Kinds
  BY DEF Kinds
<1>5. calls[i].mine => Saving(i)
  BY <1>1 DEF Saving, Client!Awaited, Client!UnderWay
<1>6. CASE calls[i].said = "ok" /\ calls[i].next # None
  <2>1. /\ calls' = [calls EXCEPT ![i] = [Client!Asked("put", @.next) EXCEPT !.mine = calls[i].mine]]
        /\ save' = IF calls[i].mine THEN "saving" ELSE save
    BY <1>6 DEF Client!SaveAnswered, Client!SaveState
  <2>2. PICK n : n = [Client!Asked("put", calls[i].next) EXCEPT !.mine = calls[i].mine]
    OBVIOUS
  <2>3. /\ n \in Client!Call /\ n.kind = "put" /\ n.value = calls[i].next /\ n.next = None
        /\ n.at = "sent" /\ (n.mine <=> calls[i].mine)
    BY <1>3, <1>6, <2>2 DEF Client!Asked, Client!Call
  <2>4. calls' = [calls EXCEPT ![i] = n]
    BY <2>1, <2>2, CallsType DEF Callings
  <2>5. /\ calls' \in Callings /\ calls'[i] = n
        /\ \A j \in Client!Slots \ {i} : calls'[j] = calls[j]
    <3>1. /\ [calls EXCEPT ![i] = n] \in Callings /\ [calls EXCEPT ![i] = n][i] = n
          /\ \A j \in Client!Slots \ {i} : [calls EXCEPT ![i] = n][j] = calls[j]
      BY <2>3, CallsType, Altered
    <3> QED
      BY <2>4, <3>1
  <2>6. Client!StateOK'
    BY <1>1, <2>1, <2>5 DEF Client!StateOK, Callings
  <2>7. AnswersFit'
    <3>1. \A j \in Client!Slots : calls'[j] # None /\ calls'[j].at = "answered" => j # i /\ calls'[j] = calls[j]
      BY <2>3, <2>5
    <3> QED
      BY <3>1 DEF AnswersFit, Client!UnderWay, Client!Finished, Client!Slots
  <2>8. \A j \in Client!Slots : Saving(j)' => Saving(j)
    BY <1>1, <1>5, <2>3, <2>5 DEF Saving, Client!Awaited, Client!UnderWay
  <2>9. SavesFit'
    <3>1. (\A j, k \in Client!Slots : Saving(j) /\ Saving(k) => j = k)'
      BY <2>8 DEF SavesFit, Client!Slots
    <3>2. ASSUME NEW j \in Client!Slots, Saving(j)'
          PROVE  /\ page' = "paper" /\ save' # "saved"
                 /\ IF calls'[j].next = None THEN calls'[j].value = shown' ELSE calls'[j].next = shown'
                 /\ calls'[j].at = "answered" /\ calls'[j].said = "ok" /\ attempt'.mine
                       => attempt'.answer = calls'[j].value
      <4>1. /\ page = "paper" /\ save # "saved"
            /\ IF calls[j].next = None THEN calls[j].value = shown ELSE calls[j].next = shown
            /\ calls[j].at = "answered" /\ calls[j].said = "ok" /\ attempt.mine
                  => attempt.answer = calls[j].value
        BY <2>8, <3>2 DEF SavesFit
      <4>2. save' # "saved"
        BY <2>1, <4>1
      <4>3. CASE j = i
        BY <1>1, <1>6, <2>3, <2>5, <4>1, <4>2, <4>3
      <4>4. CASE j # i
        BY <1>1, <2>5, <4>1, <4>2, <4>4
      <4> QED
        BY <4>3, <4>4
    <3> QED
      BY <3>1, <3>2 DEF SavesFit, Client!Slots
  <2>10. Client!AnswerIsStored'
    BY <1>1, <2>1 DEF Client!AnswerIsStored
  <2>11. Client!NeverStuck'
    <3>1. \A j \in Client!Slots : calls[j] # None /\ calls[j].kind = "load" => calls'[j] = calls[j]
      BY <1>1, <2>5
    <3> QED
      BY <1>1, <3>1, EndKept
  <2>12. ClockFits'
    BY <1>1 DEF ClockFits, Client!Finished
  <2> QED
    BY <2>6, <2>7, <2>9, <2>10, <2>11, <2>12
<1>7. CASE calls[i].said = "ok" /\ calls[i].next = None
  <2>1. /\ calls' = Client!Without(i)
        /\ save' = IF calls[i].mine THEN "saved" ELSE save
    BY <1>7 DEF Client!SaveAnswered, Client!SaveState
  <2>2. /\ calls' \in Callings /\ calls'[i] = None
        /\ \A j \in Client!Slots \ {i} : calls'[j] = calls[j]
    BY <2>1, WithoutIs
  <2>3. Client!StateOK'
    BY <1>1, <2>1, <2>2 DEF Client!StateOK, Callings
  <2>4. AnswersFit'
    BY <2>1, FadesAway, AnswersKept
  <2>5. ASSUME NEW j \in Client!Slots, Saving(j)'
        PROVE  Saving(j) /\ calls'[j] = calls[j] /\ save' = save
    <3>1. j # i /\ calls'[j] = calls[j] /\ Saving(j)
      BY <2>2, <2>5 DEF Saving, Client!Awaited, Client!UnderWay
    <3>2. ~calls[i].mine
      BY <1>5, <3>1 DEF SavesFit
    <3> QED
      BY <2>1, <3>1, <3>2
  <2>6. SavesFit'
    BY <1>1, <2>5 DEF SavesFit, Client!Slots
  <2>7. Client!AnswerIsStored'
    <3>1. CASE calls[i].mine
      <4>1. calls[i].value = shown /\ (attempt.mine => attempt.answer = calls[i].value)
        BY <1>5, <1>7, <3>1 DEF SavesFit
      <4> QED
        BY <1>1, <4>1 DEF Client!AnswerIsStored
    <3>2. CASE ~calls[i].mine
      BY <1>1, <2>1, <3>2 DEF Client!AnswerIsStored
    <3> QED
      BY <3>1, <3>2
  <2>8. Client!NeverStuck'
    <3>1. \A j \in Client!Slots : calls[j] # None /\ calls[j].kind = "load" => calls'[j] = calls[j]
      BY <1>1, <2>2
    <3> QED
      BY <1>1, <3>1, EndKept
  <2>9. ClockFits'
    BY <1>1 DEF ClockFits, Client!Finished
  <2> QED
    BY <2>3, <2>4, <2>6, <2>7, <2>8, <2>9
<1>8. CASE calls[i].said \in {"attempt_locked", "attempt_on_hold"}
  <2>1. PICK kind \in {"load", "control"} : Follows(i, kind)
    BY <1>8 DEF Client!SaveAnswered, Follows, Client!Reload
  <2>2. save' \in {"idle", "error", save}
    BY <1>8 DEF Client!SaveAnswered, Client!SaveState
  <2>3. /\ calls' \in Callings
        /\ SavesFit' /\ AnswersFit' /\ ClockFits' /\ Client!AnswerIsStored' /\ Client!NeverStuck'
    BY <1>1, <1>4, <2>1, <2>2, FollowsKeeps
  <2>4. Client!StateOK'
    BY <1>1, <2>2, <2>3 DEF Client!StateOK, Callings
  <2> QED
    BY <2>3, <2>4
<1> QED
  BY <1>2, <1>6, <1>7, <1>8

LEMMA ReceiveKeeps ==
    ASSUME ClientInv, NEW i \in Client!Slots, Client!Receive(i)
    PROVE  ClientInv'
<1>1. /\ calls[i] # None /\ calls[i].at = "answered" /\ UNCHANGED Rest
      /\ \/ Client!LoadAnswered(i) \/ Client!ClockAnswered(i) \/ Client!ControlAnswered(i)
         \/ Client!SaveAnswered(i) \/ Client!SubmitAnswered(i)
  BY DEF Client!Receive, Client!UnderWay, Rest
<1>2. CASE Client!LoadAnswered(i)
  BY <1>1, <1>2, ShowKeeps DEF Client!LoadAnswered
<1> QED
  BY <1>1, <1>2, ClockKeeps, ControlKeeps, SaveKeeps, SubmitKeeps

-----------------------------------------------------------------------------
(* The candidate and the timers. *)

LEMMA FlushKeeps ==
    ASSUME ClientInv, page = "paper", NEW value \in Client!Selections, Client!Flush(value),
           shown' = value, UNCHANGED <<attempt, page, clock>>
    PROVE  /\ calls' \in Callings /\ save' \in {"saving", save}
           /\ SavesFit' /\ AnswersFit' /\ ClockFits' /\ Client!AnswerIsStored' /\ Client!NeverStuck'
<1> USE DEF ClientInv
<1>1. value # None
  BY ClientConstants DEF ClientConstants, Client!Selections
<1>2. calls \in Callings /\ \A j \in Client!Slots : calls[j] # None => calls[j] \in Client!Call
  BY CallsType
<1>3. ClockFits'
  BY DEF ClockFits, Client!Finished
<1>4. CASE Client!Queued
  <2>1. /\ save' = save
        /\ calls' = [j \in Client!Slots |-> IF Saving(j) THEN [calls[j] EXCEPT !.next = value] ELSE calls[j]]
    BY <1>4 DEF Client!Flush, Saving
  <2>2. save # "saved"
    BY <1>4 DEF Client!Queued, SavesFit, Saving
  <2>3. ASSUME NEW c \in Client!Call, NEW d, d = [c EXCEPT !.next = value]
        PROVE  /\ d \in Client!Call /\ d.next = value
               /\ d.kind = c.kind /\ d.at = c.at /\ d.value = c.value
               /\ d.said = c.said /\ d.read = c.read /\ (d.mine <=> c.mine)
    BY <2>3 DEF Client!Call
  <2>4. ASSUME NEW j \in Client!Slots, Saving(j)
        PROVE  /\ calls[j] \in Client!Call
               /\ calls'[j] \in Client!Call /\ calls'[j].next = value
               /\ calls'[j].kind = calls[j].kind /\ calls'[j].at = calls[j].at
               /\ calls'[j].value = calls[j].value /\ calls'[j].said = calls[j].said
               /\ calls'[j].read = calls[j].read /\ (calls'[j].mine <=> calls[j].mine)
    <3>1. calls[j] \in Client!Call
      BY <1>2, <2>4 DEF Saving, Client!Awaited, Client!UnderWay
    <3>2. calls'[j] = [calls[j] EXCEPT !.next = value]
      BY <2>1, <2>4
    <3> QED
      BY <2>3, <3>1, <3>2
  <2>5. ASSUME NEW j \in Client!Slots, ~Saving(j)
        PROVE  calls'[j] = calls[j]
    BY <2>1, <2>5
  <2>6. calls' \in Callings
    <3>1. \A j \in Client!Slots : calls'[j] \in Client!Call \cup {None}
      BY <1>2, <2>4, <2>5 DEF Callings
    <3> QED
      BY <2>1, <3>1 DEF Callings
  <2>7. \A j \in Client!Slots : Saving(j)' => Saving(j)
    BY <2>5 DEF Saving, Client!Awaited, Client!UnderWay
  <2>8. SavesFit'
    <3>1. (\A j, k \in Client!Slots : Saving(j) /\ Saving(k) => j = k)'
      BY <2>7 DEF SavesFit, Client!Slots
    <3>2. ASSUME NEW j \in Client!Slots, Saving(j)'
          PROVE  /\ page' = "paper" /\ save' # "saved"
                 /\ IF calls'[j].next = None THEN calls'[j].value = shown' ELSE calls'[j].next = shown'
                 /\ calls'[j].at = "answered" /\ calls'[j].said = "ok" /\ attempt'.mine
                       => attempt'.answer = calls'[j].value
      <4>1. /\ calls[j].at = "answered" /\ calls[j].said = "ok" /\ attempt.mine
                  => attempt.answer = calls[j].value
        BY <2>7, <3>2 DEF SavesFit
      <4> QED
        BY <1>1, <2>1, <2>2, <2>4, <2>7, <3>2, <4>1
    <3> QED
      BY <3>1, <3>2 DEF SavesFit, Client!Slots
  <2>9. AnswersFit'
    <3>1. ASSUME NEW j \in Client!Slots, calls'[j] # None, calls'[j].at = "answered"
          PROVE  /\ calls[j] # None /\ calls[j].at = "answered"
                 /\ calls'[j].read = calls[j].read /\ calls'[j].said = calls[j].said
                 /\ calls'[j].kind = calls[j].kind
      BY <2>4, <2>5, <3>1, CallIs
    <3> QED
      BY <3>1 DEF AnswersFit, Client!UnderWay, Client!Finished, Client!Slots
  <2>10. Client!AnswerIsStored'
    BY <2>1, <2>2 DEF Client!AnswerIsStored
  <2>11. Client!NeverStuck'
    <3>1. \A j \in Client!Slots : calls[j] # None /\ calls[j].kind = "load" => calls'[j] = calls[j]
      BY <2>5 DEF Saving, Client!Awaited
    <3> QED
      BY <3>1, EndKept
  <2> QED
    BY <1>3, <2>1, <2>6, <2>8, <2>9, <2>10, <2>11
<1>5. CASE ~Client!Queued
  <2>1. Client!Send(calls, "put", value) /\ save' = "saving"
    BY <1>5 DEF Client!Flush
  <2>2. "put" \in Kinds
    BY DEF Kinds
  <2>3. PICK k \in Client!Slots :
           /\ calls[k] = None
           /\ calls' \in Callings /\ calls'[k] = Client!Asked("put", value)
           /\ \A j \in Client!Slots \ {k} : calls'[j] = calls[j]
    BY <1>2, <2>1, <2>2, SendIs
  <2>4. calls'[k].value = value /\ calls'[k].next = None /\ calls'[k].at = "sent"
    BY <2>2, <2>3, AskedIs
  <2>5. \A j \in Client!Slots : Saving(j)' => j = k
    BY <1>5, <2>3 DEF Saving, Client!Queued, Client!Awaited, Client!UnderWay
  <2>6. SavesFit'
    <3>1. (\A i, j \in Client!Slots : Saving(i) /\ Saving(j) => i = j)'
      BY <2>5 DEF Client!Slots
    <3>2. ASSUME NEW j \in Client!Slots, Saving(j)'
          PROVE  /\ page' = "paper" /\ save' # "saved"
                 /\ IF calls'[j].next = None THEN calls'[j].value = shown' ELSE calls'[j].next = shown'
                 /\ calls'[j].at = "answered" /\ calls'[j].said = "ok" /\ attempt'.mine
                       => attempt'.answer = calls'[j].value
      BY <2>1, <2>4, <2>5, <3>2
    <3> QED
      BY <3>1, <3>2 DEF SavesFit, Client!Slots
  <2>7. AnswersFit'
    <3>1. \A j \in Client!Slots : calls'[j] # None /\ calls'[j].at = "answered" => calls'[j] = calls[j]
      BY <2>3, <2>4
    <3> QED
      BY <3>1 DEF AnswersFit, Client!UnderWay, Client!Finished, Client!Slots
  <2>8. Client!AnswerIsStored'
    BY <2>1 DEF Client!AnswerIsStored
  <2>9. Client!NeverStuck'
    <3>1. \A j \in Client!Slots : calls[j] # None /\ calls[j].kind = "load" => calls'[j] = calls[j]
      BY <2>3
    <3> QED
      BY <3>1, EndKept
  <2> QED
    BY <1>3, <2>1, <2>3, <2>6, <2>7, <2>8, <2>9
<1> QED
  BY <1>4, <1>5

LEMMA SelectKeeps ==
    ASSUME ClientInv, Client!Select
    PROVE  ClientInv'
<1> USE DEF ClientInv
<1>1. /\ page = "paper" /\ edits < MaxEdits /\ edits' = edits + 1 /\ shown' = edits + 1
      /\ Client!Flush(edits + 1)
      /\ UNCHANGED <<attempt, late, pushes, page, clock, held, holds, failures>>
  BY DEF Client!Select
<1>2. edits + 1 \in Client!Selections
  BY <1>1, ClientConstants DEF ClientConstants, Client!StateOK, Client!Selections
<1>3. /\ calls' \in Callings /\ save' \in {"saving", save}
      /\ SavesFit' /\ AnswersFit' /\ ClockFits' /\ Client!AnswerIsStored' /\ Client!NeverStuck'
  BY <1>1, <1>2, FlushKeeps
<1>4. Client!StateOK'
  BY <1>1, <1>2, <1>3 DEF Client!StateOK, Callings, Client!Selections
<1> QED
  BY <1>3, <1>4

LEMMA RetryKeeps ==
    ASSUME ClientInv, Client!Retry
    PROVE  ClientInv'
<1> USE DEF ClientInv
<1>1. /\ page = "paper" /\ Client!Flush(shown)
      /\ UNCHANGED <<attempt, late, pushes, page, shown, clock, held, edits, holds, failures>>
  BY DEF Client!Retry
<1>2. shown \in Client!Selections
  BY DEF Client!StateOK
<1>3. /\ calls' \in Callings /\ save' \in {"saving", save}
      /\ SavesFit' /\ AnswersFit' /\ ClockFits' /\ Client!AnswerIsStored' /\ Client!NeverStuck'
  BY <1>1, <1>2, FlushKeeps
<1>4. Client!StateOK'
  BY <1>1, <1>3 DEF Client!StateOK, Callings
<1> QED
  BY <1>3, <1>4

LEMMA AsksKeeps ==
    ASSUME ClientInv, NEW kind \in Kinds \ {"put"}, Client!Asks(kind)
    PROVE  ClientInv'
<1> USE DEF ClientInv
<1>1. /\ Client!Send(calls, kind, 0)
      /\ UNCHANGED <<attempt, late, pushes, page, shown, save, clock, held, edits, holds, failures>>
  BY DEF Client!Asks
<1>2. calls \in Callings /\ \A j \in Client!Slots : Fades(calls[j], calls[j])
  BY CallsType DEF Fades
<1>3. /\ calls' \in Callings
      /\ \A j \in Client!Slots : Fades(calls[j], calls'[j]) \/ NewCall(calls'[j])
      /\ \A j \in Client!Slots : calls[j] # None => calls'[j] = calls[j]
  BY <1>1, <1>2, SentOver
<1>4. SavesFit' /\ AnswersFit' /\ Client!AnswerIsStored'
  BY <1>1, <1>3, GoesOn
<1>5. Client!NeverStuck' /\ ClockFits'
  BY <1>1, <1>3, EndKept DEF ClockFits, Client!Finished
<1>6. Client!StateOK'
  BY <1>1, <1>3 DEF Client!StateOK, Callings
<1> QED
  BY <1>4, <1>5, <1>6

\* What touches no request, and only the attempt's control or the page's word of it.
LEMMA AsideKeeps ==
    ASSUME ClientInv, UNCHANGED <<calls, page, shown, save, clock>>,
           attempt'.answer = attempt.answer, attempt'.mine <=> attempt.mine,
           Client!Finished(attempt) => Client!Finished(attempt)', Client!StateOK'
    PROVE  ClientInv'
<1> USE DEF ClientInv
<1>1. \A j \in Client!Slots : Fades(calls[j], calls'[j])
  BY DEF Fades
<1>2. \A j \in Client!Slots : calls'[j] # None => calls'[j] \in Client!Call
  BY CallsType
<1>3. SavesFit'
  BY <1>1, <1>2, SavesKept
<1>4. AnswersFit'
  BY <1>1, AnswersKept
<1>5. Client!AnswerIsStored'
  BY StoredKept
<1>6. Client!NeverStuck'
  BY EndKept
<1>7. ClockFits'
  BY ClockKept
<1> QED
  BY <1>3, <1>4, <1>5, <1>6, <1>7

LEMMA AttemptWith ==
    ASSUME NEW a \in Client!Attempt, NEW b,
           \/ \E x \in BOOLEAN : b = [a EXCEPT !.held = x]
           \/ b = [a EXCEPT !.status = "SUBMITTED"]
    PROVE  /\ b \in Client!Attempt /\ b.answer = a.answer /\ (b.mine <=> a.mine) /\ b.held \in BOOLEAN
           /\ Client!Finished(a) => Client!Finished(b)
BY DEF Client!Attempt, Client!Finished

LEMMA ControlStep ==
    ASSUME ClientInv, NEW a \in Client!Attempt, Client!Control(a), holds' \in 0..MaxHolds,
           a.answer = attempt.answer, a.mine <=> attempt.mine, a.held \in BOOLEAN,
           Client!Finished(attempt) => Client!Finished(a)
    PROVE  ClientInv'
<1>1. /\ attempt' = a /\ UNCHANGED <<late, calls, page, shown, save, clock, held, edits, failures>>
      /\ pushes' \in {pushes, Append(pushes, a.held)}
  BY DEF Client!Control
<1>2. Client!StateOK'
  <2>1. pushes' \in Seq(BOOLEAN)
    BY <1>1 DEF ClientInv, Client!StateOK
  <2> QED
    BY <1>1, <2>1 DEF ClientInv, Client!StateOK
<1>3. Client!Finished(attempt) => Client!Finished(attempt)'
  BY <1>1 DEF Client!Finished
<1> QED
  BY <1>1, <1>2, <1>3, AsideKeeps

LEMMA HoldKeeps ==
    ASSUME ClientInv, Client!Hold \/ Client!Release \/ Client!End
    PROVE  ClientInv'
<1>1. PICK a : /\ Client!Control(a)
               /\ \/ \E x \in BOOLEAN : a = [attempt EXCEPT !.held = x]
                  \/ a = [attempt EXCEPT !.status = "SUBMITTED"]
  BY DEF Client!Hold, Client!Release, Client!End
<1>2. attempt \in Client!Attempt
  BY DEF ClientInv, Client!StateOK
<1>3. /\ a \in Client!Attempt /\ a.answer = attempt.answer /\ (a.mine <=> attempt.mine) /\ a.held \in BOOLEAN
      /\ Client!Finished(attempt) => Client!Finished(a)
  BY <1>1, <1>2, AttemptWith
<1>4. holds' \in 0..MaxHolds
  BY ClientConstants DEF ClientConstants, ClientInv, Client!StateOK, Client!Hold, Client!Release, Client!End
<1> QED
  BY <1>1, <1>3, <1>4, ControlStep

LEMMA DeadlineKeeps ==
    ASSUME ClientInv, Client!Deadline
    PROVE  ClientInv'
<1>1. /\ late' = TRUE
      /\ UNCHANGED <<attempt, calls, pushes, page, shown, save, clock, held, edits, holds, failures>>
  BY DEF Client!Deadline
<1>2. Client!StateOK'
  BY <1>1 DEF ClientInv, Client!StateOK
<1> QED
  BY <1>1, <1>2, AsideKeeps DEF Client!Finished

LEMMA PushKeeps ==
    ASSUME ClientInv, Client!ReceivePush
    PROVE  ClientInv'
<1>1. /\ pushes # <<>> /\ pushes' = Tail(pushes) /\ held' \in {held, Head(pushes)}
      /\ UNCHANGED <<attempt, late, calls, page, shown, save, clock, edits, holds, failures>>
  BY DEF Client!ReceivePush
<1>2. pushes' \in Seq(BOOLEAN) /\ held' \in BOOLEAN
  <2>1. pushes \in Seq(BOOLEAN) /\ held \in BOOLEAN
    BY DEF ClientInv, Client!StateOK
  <2>2. Head(pushes) \in BOOLEAN /\ Tail(pushes) \in Seq(BOOLEAN)
    BY <1>1, <2>1
  <2> QED
    BY <1>1, <2>1, <2>2
<1>3. Client!StateOK'
  BY <1>1, <1>2 DEF ClientInv, Client!StateOK
<1> QED
  BY <1>1, <1>3, AsideKeeps DEF Client!Finished

-----------------------------------------------------------------------------
(* Faults. *)

LEMMA GivenUpIs ==
    ASSUME Client!StateOK, NEW i \in Client!Slots, calls[i] # None
    PROVE  /\ Client!GivenUp(i) \in Callings
           /\ \A j \in Client!Slots : Fades(calls[j], Client!GivenUp(i)[j])
           /\ \A j \in Client!Slots \ {i} : Client!GivenUp(i)[j] = calls[j]
<1>1. calls[i] \in Client!Call /\ calls \in Callings
  BY CallsType
<1>2. PICK n : n = [calls[i] EXCEPT !.at = "stray", !.next = None]
  OBVIOUS
<1>3. n \in Client!Call /\ n.at = "stray" /\ n.kind = calls[i].kind
  BY <1>1, <1>2 DEF Client!Call
<1>4. Client!GivenUp(i) = [calls EXCEPT ![i] = n]
  BY <1>1, <1>2 DEF Client!GivenUp, Callings
<1>5. /\ [calls EXCEPT ![i] = n] \in Callings /\ [calls EXCEPT ![i] = n][i] = n
      /\ \A j \in Client!Slots \ {i} : [calls EXCEPT ![i] = n][j] = calls[j]
  BY <1>1, <1>3, Altered
<1> QED
  BY <1>1, <1>3, <1>4, <1>5, CallIs DEF Fades

LEMMA AfterKeeps ==
    ASSUME ClientInv, NEW i \in Client!Slots, calls[i] # None, NEW these \in Callings,
           \A j \in Client!Slots : Fades(calls[j], these[j]),
           \A j \in Client!Slots \ {i} : these[j] = calls[j],
           Client!After(i, these), failures' \in 0..MaxFailures,
           UNCHANGED <<attempt, late, pushes, shown, clock, held, edits, holds>>
    PROVE  ClientInv'
<1> USE DEF ClientInv
<1>1. CASE calls[i].kind = "load"
  <2>1. page' = "error" /\ calls' = Client!Unmounted(these) /\ save' = save
    BY <1>1 DEF Client!After
  <2>2. /\ Client!Unmounted(these) \in Callings
        /\ \A j \in Client!Slots : Fades(calls[j], Client!Unmounted(these)[j])
    BY UnmountedIs, FadesUnmounted
  <2>3. AnswersFit'
    BY <2>1, <2>2, AnswersKept DEF Client!Finished
  <2>4. \A j \in Client!Slots : ~Saving(j)'
    BY <2>1, UnmountedIs DEF Saving, Client!Awaited, Client!UnderWay
  <2>5. SavesFit'
    BY <2>4, NoSaves
  <2>6. Client!StateOK'
    BY <2>1, <2>2 DEF Client!StateOK, Callings
  <2> QED
    BY <2>1, <2>3, <2>5, <2>6 DEF ClockFits, Client!AnswerIsStored, Client!NeverStuck
<1>2. CASE calls[i].kind # "load"
  <2>1. /\ page' = page /\ save' \in {save, "error"}
        /\ Client!Send(these, "load", 0) \/ calls' = these
    BY <1>2 DEF Client!After, Client!SaveState
  <2>2. "load" \in Kinds \ {"put"}
    BY DEF Kinds
  <2>3. /\ calls' \in Callings
        /\ \A j \in Client!Slots : Fades(calls[j], calls'[j]) \/ NewCall(calls'[j])
        /\ \A j \in Client!Slots \ {i} : calls[j] # None => calls'[j] = calls[j]
    <3>1. CASE calls' = these
      BY <3>1
    <3>2. CASE Client!Send(these, "load", 0)
      <4>1. /\ calls' \in Callings
            /\ \A j \in Client!Slots : Fades(calls[j], calls'[j]) \/ NewCall(calls'[j])
            /\ \A j \in Client!Slots : these[j] # None => calls'[j] = these[j]
        BY <2>2, <3>2, SentOver
      <4> QED
        BY <4>1
    <3> QED
      BY <2>1, <3>1, <3>2
  <2>4. SavesFit' /\ AnswersFit' /\ Client!AnswerIsStored'
    BY <2>1, <2>3, GoesOn
  <2>5. Client!NeverStuck'
    <3>1. \A j \in Client!Slots : calls[j] # None /\ calls[j].kind = "load" => calls'[j] = calls[j]
      BY <1>2, <2>3
    <3> QED
      BY <2>1, <3>1, EndKept
  <2>6. ClockFits'
    BY <2>1 DEF ClockFits, Client!Finished
  <2>7. Client!StateOK'
    BY <2>1, <2>3 DEF Client!StateOK, Callings
  <2> QED
    BY <2>4, <2>5, <2>6, <2>7
<1> QED
  BY <1>1, <1>2

LEMMA Failing ==
    ASSUME Client!StateOK, failures < MaxFailures, failures' = failures + 1
    PROVE  failures' \in 0..MaxFailures
BY ClientConstants DEF ClientConstants, Client!StateOK

LEMMA FailKeeps ==
    ASSUME ClientInv, NEW i \in Client!Slots, Client!Fail(i)
    PROVE  ClientInv'
<1>1. /\ calls[i] # None /\ failures < MaxFailures /\ failures' = failures + 1
      /\ UNCHANGED <<attempt, late, pushes, shown, clock, held, edits, holds>>
      /\ Client!After(i, Client!Without(i)) \/ Client!After(i, Client!GivenUp(i))
  BY DEF Client!Fail, Client!UnderWay
<1>2. Client!StateOK
  BY DEF ClientInv
<1>3. failures' \in 0..MaxFailures
  BY <1>1, <1>2, Failing
<1>4. /\ Client!Without(i) \in Callings
      /\ \A j \in Client!Slots : Fades(calls[j], Client!Without(i)[j])
      /\ \A j \in Client!Slots \ {i} : Client!Without(i)[j] = calls[j]
  BY <1>2, WithoutIs, FadesAway
<1>5. /\ Client!GivenUp(i) \in Callings
      /\ \A j \in Client!Slots : Fades(calls[j], Client!GivenUp(i)[j])
      /\ \A j \in Client!Slots \ {i} : Client!GivenUp(i)[j] = calls[j]
  BY <1>1, <1>2, GivenUpIs
<1> QED
  BY <1>1, <1>3, <1>4, <1>5, AfterKeeps

LEMMA RestartKeeps ==
    ASSUME ClientInv, Client!Restart
    PROVE  ClientInv'
<1> USE DEF ClientInv
<1>1. /\ failures < MaxFailures /\ failures' = failures + 1
      /\ page' = "loading" /\ pushes' = <<>>
      /\ Client!Send([i \in Client!Slots |-> Client!Left(i)], "load", 0)
      /\ shown' = 0 /\ save' = "idle" /\ clock' = TRUE /\ held' = FALSE
      /\ UNCHANGED <<attempt, late, edits, holds>>
  BY DEF Client!Restart
<1>2. PICK these : these = [i \in Client!Slots |-> Client!Left(i)]
  OBVIOUS
<1>3. ASSUME NEW j \in Client!Slots
      PROVE  \/ these[j] = None
             \/ /\ calls[j] # None /\ these[j] \in Client!Call /\ these[j].at = "stray"
                /\ these[j].kind = calls[j].kind
  <2>1. these[j] = Client!Left(j)
    BY <1>2
  <2>2. PICK n : n = [calls[j] EXCEPT !.at = "stray", !.next = None]
    OBVIOUS
  <2>3. calls[j] # None => n \in Client!Call /\ n.at = "stray" /\ n.kind = calls[j].kind
    <3>1. calls[j] # None => calls[j] \in Client!Call
      BY CallsType
    <3> QED
      BY <2>2, <3>1 DEF Client!Call
  <2>4. these[j] = None \/ (calls[j] # None /\ these[j] = n)
    BY <2>1, <2>2 DEF Client!Left, Client!UnderWay
  <2> QED
    BY <2>3, <2>4
<1>4. these \in Callings /\ \A j \in Client!Slots : Fades(calls[j], these[j])
  BY <1>2, <1>3 DEF Callings, Fades
<1>5. "load" \in Kinds \ {"put"}
  BY DEF Kinds
<1>6. /\ calls' \in Callings
      /\ \A j \in Client!Slots : Fades(calls[j], calls'[j]) \/ NewCall(calls'[j])
  BY <1>1, <1>2, <1>4, <1>5, SentOver
<1>7. PICK k \in Client!Slots :
         /\ calls'[k] = Client!Asked("load", 0)
         /\ \A j \in Client!Slots \ {k} : calls'[j] = these[j]
  BY <1>1, <1>2, <1>4, <1>5, NoneSelected, SendIs
<1>8. AnswersFit'
  BY <1>1, <1>6, AnswersKept DEF Client!Finished
<1>9. SavesFit'
  <2>1. calls'[k].kind = "load"
    BY <1>5, <1>7, AskedIs, NoneSelected
  <2>2. \A j \in Client!Slots : ~Saving(j)'
    BY <1>3, <1>7, <2>1 DEF Saving, Client!Awaited, Client!UnderWay
  <2> QED
    BY <2>2, NoSaves
<1>10. Client!StateOK'
  <2>1. failures' \in 0..MaxFailures /\ pushes' \in Seq(BOOLEAN)
    BY <1>1, Failing
  <2> QED
    BY <1>1, <1>6, <2>1, NoneSelected DEF Client!StateOK, Callings
<1> QED
  BY <1>1, <1>8, <1>9, <1>10 DEF ClockFits, Client!AnswerIsStored, Client!NeverStuck

-----------------------------------------------------------------------------
(* Every step, and what follows. *)

LEMMA ClientStart == ASSUME Client!Init PROVE ClientInv
<1>1. /\ attempt = [status |-> "IN_PROGRESS", held |-> FALSE, answer |-> 0, mine |-> TRUE]
      /\ late = FALSE
      /\ calls = [i \in Client!Slots |-> IF i = 1 THEN Client!Asked("load", 0) ELSE None]
      /\ pushes = <<>>
      /\ page = "loading" /\ shown = 0 /\ save = "idle" /\ clock = TRUE /\ held = FALSE
      /\ edits = 0 /\ holds = 0 /\ failures = 0
  BY DEF Client!Init
<1>2. /\ Client!Asked("load", 0) \in Client!Call
      /\ Client!Asked("load", 0).kind = "load" /\ Client!Asked("load", 0).at = "sent"
  BY AskedIs, NoneSelected DEF Kinds
<1>3. \A i \in Client!Slots : calls[i] \in {Client!Asked("load", 0), None}
  BY <1>1
<1>4. attempt \in Client!Attempt
  BY <1>1, NoneSelected DEF Client!Attempt
<1>5. calls \in Callings
  BY <1>1, <1>2 DEF Callings
<1>6. edits \in 0..MaxEdits /\ holds \in 0..MaxHolds /\ failures \in 0..MaxFailures
  BY <1>1, ClientConstants DEF ClientConstants
<1>7. pushes \in Seq(BOOLEAN)
  BY <1>1
<1>8. Client!StateOK
  BY <1>1, <1>4, <1>5, <1>6, <1>7, NoneSelected DEF Client!StateOK, Callings
<1>9. \A i \in Client!Slots : ~Saving(i)
  BY <1>2, <1>3 DEF Saving, Client!Awaited, Client!UnderWay
<1>10. SavesFit
  BY <1>9 DEF SavesFit
<1>11. AnswersFit
  BY <1>2, <1>3 DEF AnswersFit, Client!UnderWay
<1> QED
  BY <1>1, <1>8, <1>10, <1>11 DEF ClientInv, ClockFits, Client!AnswerIsStored, Client!NeverStuck

LEMMA ClientNext == ASSUME ClientInv, Client!Step PROVE ClientInv'
<1>1. CASE \E i \in Client!Slots : Client!Serve(i) \/ Client!Receive(i) \/ Client!Fail(i)
  BY <1>1, ServeKeeps, ReceiveKeeps, FailKeeps
<1>2. CASE Client!ReceivePush
  BY <1>2, PushKeeps
<1>3. CASE Client!Deadline
  BY <1>3, DeadlineKeeps
<1>4. CASE Client!Hold \/ Client!Release \/ Client!End
  BY <1>4, HoldKeeps
<1>5. CASE Client!Select
  BY <1>5, SelectKeeps
<1>6. CASE Client!Retry
  BY <1>6, RetryKeeps
<1>7. CASE Client!Submit \/ Client!Resync \/ Client!Return \/ Client!HoldPoll
  <2>1. PICK kind \in {"submit", "clock", "control"} : Client!Asks(kind)
    BY <1>7 DEF Client!Submit, Client!Resync, Client!Return, Client!HoldPoll
  <2>2. kind \in Kinds \ {"put"}
    BY DEF Kinds
  <2> QED
    BY <2>1, <2>2, AsksKeeps
<1>8. CASE Client!Restart
  BY <1>8, RestartKeeps
<1> QED
  BY <1>1, <1>2, <1>3, <1>4, <1>5, <1>6, <1>7, <1>8 DEF Client!Step

LEMMA ClientStays == ASSUME ClientInv, [AppNext]_allVars PROVE ClientInv'
<1>1. CASE UNCHANGED clientVars
  <2>1. Client!StateOK'
    BY <1>1 DEF clientVars, ClientInv, Client!StateOK
  <2> QED
    BY <1>1, <2>1, AsideKeeps DEF clientVars, Client!Finished
<1>2. CASE Client!Next
  BY <1>2, ClientNext DEF Client!Next
<1> QED
  BY <1>1, <1>2 DEF AppNext, ClientStep, VideoStep, allVars

\* The invariant of the exam page holds in every state.
THEOREM ClientFits == AppSpec => []ClientInv
<1>1. AppInit => ClientInv
  BY ClientStart DEF AppInit
<1> QED
  BY <1>1, ClientStays, PTL DEF AppSpec

\* AnswerIsStored: an answer shown as saved is the one the server has, unless a save that the page
\* had given up arrived after all.
THEOREM ShownIsStored == AppSpec => []AnswerIsStored
<1>1. ClientInv => AnswerIsStored
  BY DEF ClientInv, AnswerIsStored
<1> QED
  BY <1>1, ClientFits, PTL

\* NeverStuck: the paper of an exam that is over still asks for the clock, or loads the attempt.
THEOREM PaperIsLeft == AppSpec => []Client!NeverStuck
<1>1. ClientInv => Client!NeverStuck
  BY DEF ClientInv
<1> QED
  BY <1>1, ClientFits, PTL

-----------------------------------------------------------------------------
(* The end of the exam, once seen. *)

\* Whoever has seen the end has seen it of an attempt that is over, which no one opens again; away
\* from that screen, an app that was started again, or whose reload has failed, waits for no answer
\* that was read before the end.
EndInv ==
    /\ over \in Client!Endings
    /\ over # "unseen" => Client!Finished(attempt)
    /\ page = "finished" => over = "seen"
    /\ over = "seen" => page \in {"loading", "error", "finished"}
    /\ over = "crossed" => page \in {"error", "paper"}
    /\ over = "seen" /\ page # "finished" => ~Client!Outdated

\* A request that has gone its way without an answer the page had not had before.
Passes(b, a) == Fades(b, a) \/ a.at = "sent"

LEMMA OutdatedBefore ==
    ASSUME \A j \in Client!Slots : Passes(calls[j], calls'[j]), Client!Outdated'
    PROVE  Client!Outdated
<1>1. PICK j \in Client!Slots :
         /\ calls'[j] # None /\ calls'[j].kind = "load" /\ calls'[j].at = "answered"
         /\ ~calls'[j].read.finished
  BY DEF Client!Outdated, Client!Awaited, Client!UnderWay, Client!Slots
<1>2. Passes(calls[j], calls'[j])
  OBVIOUS
<1> QED
  BY <1>1, <1>2 DEF Passes, Fades, Client!Outdated, Client!Awaited, Client!UnderWay

\* Another load, sent when a request is over.
LEMMA ReloadPasses ==
    ASSUME Client!StateOK, NEW i \in Client!Slots, NEW kind \in Kinds \ {"put"},
           Client!Send(Client!Without(i), kind, 0)
    PROVE  \A j \in Client!Slots : Passes(calls[j], calls'[j])
<1>1. \A j \in Client!Slots : Fades(calls[j], calls'[j]) \/ NewCall(calls'[j])
  BY WithoutIs, FadesAway, SentOver
<1> QED
  BY <1>1 DEF Passes, NewCall

LEMMA ShowPasses ==
    ASSUME Client!StateOK, NEW i \in Client!Slots, Client!Show(i)
    PROVE  \A j \in Client!Slots : Passes(calls[j], calls'[j])
<1>1. calls' = Client!Without(i) \/ calls' = Client!Unmounted(Client!Without(i))
  BY DEF Client!Show
<1>2. \A j \in Client!Slots : Fades(calls[j], Client!Without(i)[j])
  BY FadesAway
<1>3. \A j \in Client!Slots : Fades(calls[j], Client!Unmounted(Client!Without(i))[j])
  BY <1>2, WithoutIs, FadesUnmounted
<1> QED
  BY <1>1, <1>2, <1>3 DEF Passes

LEMMA SavePasses ==
    ASSUME ClientInv, NEW i \in Client!Slots, calls[i] # None, calls[i].at = "answered",
           Client!SaveAnswered(i)
    PROVE  \A j \in Client!Slots : Passes(calls[j], calls'[j])
<1>1. Client!StateOK /\ calls \in Callings /\ calls[i] \in Client!Call
  BY CallsType DEF ClientInv
<1>2. calls[i].said \in {"ok", "attempt_locked", "attempt_on_hold"}
  BY <1>1, ReadOf DEF ClientInv
<1>3. "load" \in Kinds \ {"put"} /\ "control" \in Kinds \ {"put"}
  BY DEF Kinds
<1>4. \A j \in Client!Slots : Fades(calls[j], Client!Without(i)[j])
  BY <1>1, FadesAway
<1>5. CASE calls' = Client!Without(i)
  BY <1>4, <1>5 DEF Passes
<1>6. CASE Client!Send(Client!Without(i), "load", 0)
  BY <1>1, <1>3, <1>6, ReloadPasses
<1>7. CASE Client!Send(Client!Without(i), "control", 0)
  BY <1>1, <1>3, <1>7, ReloadPasses
<1>8. CASE calls[i].said = "ok" /\ calls[i].next # None
  <2>1. PICK n : n = [Client!Asked("put", calls[i].next) EXCEPT !.mine = calls[i].mine]
    OBVIOUS
  <2>2. n.at = "sent"
    BY <2>1 DEF Client!Asked
  <2>3. calls' = [calls EXCEPT ![i] = n]
    BY <1>1, <1>8, <2>1 DEF Client!SaveAnswered, Callings
  <2>4. calls'[i] = n /\ \A j \in Client!Slots \ {i} : calls'[j] = calls[j]
    BY <1>1, <2>3 DEF Callings
  <2>5. ASSUME NEW j \in Client!Slots \ {i} PROVE Fades(calls[j], calls'[j])
    <3>1. calls[j] # None => calls[j] \in Client!Call
      BY <1>1, CallsType
    <3> QED
      BY <2>4, <3>1 DEF Fades
  <2> QED
    BY <2>2, <2>4, <2>5 DEF Passes
<1> QED
  BY <1>2, <1>5, <1>6, <1>7, <1>8 DEF Client!SaveAnswered, Client!Reload

\* An app that is started again waits for no answer that was read before.
LEMMA RestartsAfresh == ASSUME ClientInv, Client!Restart PROVE ~Client!Outdated'
<1>1. Client!Send([i \in Client!Slots |-> Client!Left(i)], "load", 0)
  BY DEF Client!Restart
<1>2. PICK these : these = [i \in Client!Slots |-> Client!Left(i)]
  OBVIOUS
<1>3. ASSUME NEW j \in Client!Slots
      PROVE  these[j] = None \/ (these[j] \in Client!Call /\ these[j].at = "stray")
  <2>1. PICK n : n = [calls[j] EXCEPT !.at = "stray", !.next = None]
    OBVIOUS
  <2>2. calls[j] # None => n \in Client!Call /\ n.at = "stray"
    <3>1. calls[j] # None => calls[j] \in Client!Call
      BY CallsType DEF ClientInv
    <3> QED
      BY <2>1, <3>1 DEF Client!Call
  <2>3. these[j] = None \/ (calls[j] # None /\ these[j] = n)
    BY <1>2, <2>1 DEF Client!Left, Client!UnderWay
  <2> QED
    BY <2>2, <2>3
<1>4. these \in Callings
  BY <1>2, <1>3 DEF Callings
<1>5. "load" \in Kinds
  BY DEF Kinds
<1>6. PICK k \in Client!Slots :
         /\ calls'[k] = Client!Asked("load", 0)
         /\ \A j \in Client!Slots \ {k} : calls'[j] = these[j]
  BY <1>1, <1>2, <1>4, <1>5, NoneSelected, SendIs
<1>7. calls'[k].at = "sent"
  BY <1>5, <1>6, AskedIs, NoneSelected
<1> QED
  BY <1>3, <1>6, <1>7 DEF Client!Outdated, Client!Awaited, Client!UnderWay, Client!Slots

\* An answer from before the end is on its way since before the end.
LEMMA NoneOutdated ==
    ASSUME ClientInv, Client!Step, Client!Finished(attempt), page # "paper", Client!Outdated'
    PROVE  Client!Outdated
<1>1. Client!StateOK /\ \A j \in Client!Slots : calls[j] # None => calls[j] \in Client!Call
  BY CallsType DEF ClientInv
<1>2. ASSUME UNCHANGED calls PROVE Client!Outdated
  BY <1>2 DEF Client!Outdated, Client!Awaited, Client!UnderWay
<1>3. ASSUME NEW i \in Client!Slots, Client!Serve(i) PROVE Client!Outdated
  <2>1. /\ calls[i] \in Client!Call /\ attempt' = Client!Handled(calls[i])[2]
        /\ \A j \in Client!Slots \ {i} : calls'[j] = calls[j]
        /\ \/ calls'[i] = None
           \/ calls'[i].kind = calls[i].kind /\ calls'[i].read = Client!ReadBy(calls[i].kind, attempt')
    BY <1>1, <1>3, ServeIs
  <2>2. Client!Finished(attempt')
    BY <1>1, <2>1, HandledIs
  <2>3. PICK j \in Client!Slots :
           /\ calls'[j] # None /\ calls'[j].kind = "load" /\ calls'[j].at = "answered"
           /\ ~calls'[j].read.finished
    BY DEF Client!Outdated, Client!Awaited, Client!UnderWay, Client!Slots
  <2>4. j # i
    BY <2>1, <2>2, <2>3, ReadTells
  <2> QED
    BY <2>1, <2>3, <2>4 DEF Client!Outdated, Client!Awaited, Client!UnderWay
<1>4. ASSUME NEW i \in Client!Slots, Client!Receive(i) PROVE Client!Outdated
  <2>1. calls[i] # None /\ calls[i].at = "answered"
    BY <1>4 DEF Client!Receive, Client!UnderWay
  <2>2. \A j \in Client!Slots : Fades(calls[j], Client!Without(i)[j])
    BY <1>1, FadesAway
  <2>3. "load" \in Kinds \ {"put"}
    BY DEF Kinds
  <2>4. \A j \in Client!Slots : Passes(calls[j], calls'[j])
    <3>1. CASE Client!Show(i)
      BY <1>1, <3>1, ShowPasses
    <3>2. CASE calls' = Client!Without(i)
      BY <2>2, <3>2 DEF Passes
    <3>3. CASE Client!Reload(i)
      BY <1>1, <2>3, <3>3, ReloadPasses DEF Client!Reload
    <3>4. CASE Client!SaveAnswered(i)
      BY <2>1, <3>4, SavePasses
    <3> QED
      BY <1>4, <3>1, <3>2, <3>3, <3>4 DEF Client!Receive, Client!LoadAnswered,
         Client!ClockAnswered, Client!ControlAnswered, Client!SubmitAnswered
  <2> QED
    BY <2>4, OutdatedBefore
<1>5. ASSUME NEW i \in Client!Slots, Client!Fail(i) PROVE Client!Outdated
  <2>1. PICK these \in {Client!Without(i), Client!GivenUp(i)} : calls[i] # None /\ Client!After(i, these)
    BY <1>5 DEF Client!Fail, Client!UnderWay
  <2>2. these \in Callings /\ \A j \in Client!Slots : Fades(calls[j], these[j])
    BY <1>1, <2>1, WithoutIs, FadesAway, GivenUpIs
  <2>3. "load" \in Kinds \ {"put"}
    BY DEF Kinds
  <2>4. CASE calls' = these
    BY <2>2, <2>4, OutdatedBefore DEF Passes
  <2>5. CASE calls' = Client!Unmounted(these)
    BY <2>2, <2>5, FadesUnmounted, OutdatedBefore DEF Passes
  <2>6. CASE Client!Send(these, "load", 0)
    <3>1. \A j \in Client!Slots : Fades(calls[j], calls'[j]) \/ NewCall(calls'[j])
      BY <2>2, <2>3, <2>6, SentOver
    <3> QED
      BY <3>1, OutdatedBefore DEF Passes, NewCall
  <2> QED
    BY <2>1, <2>4, <2>5, <2>6 DEF Client!After
<1>6. CASE Client!ReceivePush \/ Client!Deadline \/ Client!Hold \/ Client!Release \/ Client!End
  <2>1. UNCHANGED calls
    BY <1>6 DEF Client!ReceivePush, Client!Deadline, Client!Hold, Client!Release, Client!End, Client!Control
  <2> QED
    BY <1>2, <2>1
<1>7. ~(Client!Select \/ Client!Retry \/ Client!Submit \/ Client!Resync \/ Client!Return \/ Client!HoldPoll)
  BY DEF Client!Select, Client!Retry, Client!Submit, Client!Resync, Client!Return, Client!HoldPoll, Client!Asks
<1>8. CASE Client!Restart
  BY <1>8, RestartsAfresh
<1> QED
  BY <1>3, <1>4, <1>5, <1>6, <1>7, <1>8 DEF Client!Step

\* No one opens a finished attempt again.
LEMMA StaysFinished ==
    ASSUME ClientInv, Client!Step, Client!Finished(attempt)
    PROVE  Client!Finished(attempt')
<1>1. ASSUME NEW i \in Client!Slots, Client!Serve(i) PROVE Client!Finished(attempt')
  BY <1>1, ServeIs, HandledIs DEF ClientInv
<1>2. ASSUME Client!Hold \/ Client!Release \/ Client!End PROVE FALSE
  <2>1. ~Client!Finished(Client!Settled)
    BY <1>2 DEF Client!Hold, Client!Release, Client!End
  <2> QED
    BY <2>1 DEF Client!Settled, Client!Finished
<1>3. ASSUME UNCHANGED attempt PROVE Client!Finished(attempt')
  BY <1>3 DEF Client!Finished
<1>4. \/ \E i \in Client!Slots : Client!Serve(i)
      \/ Client!Hold \/ Client!Release \/ Client!End
      \/ UNCHANGED attempt
  BY DEF Client!Step, Client!Receive, Client!Fail, Client!ReceivePush, Client!Deadline, Client!Select,
         Client!Retry, Client!Submit, Client!Resync, Client!Return, Client!HoldPoll, Client!Asks,
         Client!Restart
<1> QED
  BY <1>1, <1>2, <1>3, <1>4

\* Where a page comes from: the end is shown of an attempt that is over, and the paper for an answer
\* that was read before the end, unless the end is on screen.
LEMMA PageTurns ==
    ASSUME ClientInv, Client!Step, page' # page
    PROVE  /\ page' \in {"loading", "error", "paper", "finished"}
           /\ page' = "finished" => Client!Finished(attempt')
           /\ page' = "paper" => page # "finished" /\ Client!Outdated
           /\ page' = "loading" => Client!Restart
<1> DEFINE Turned ==
           /\ page' \in {"loading", "error", "paper", "finished"}
           /\ page' = "finished" => Client!Finished(attempt')
           /\ page' = "paper" => page # "finished" /\ Client!Outdated
           /\ page' = "loading" => Client!Restart
<1>1. ASSUME NEW i \in Client!Slots, Client!Receive(i) PROVE Turned
  <2>1. /\ calls[i] # None /\ calls[i].at = "answered" /\ UNCHANGED attempt
        /\ calls[i].read.finished => Client!Finished(attempt)
        /\ calls[i].kind = "submit" /\ calls[i].said = "ok" => calls[i].read.finished
    BY <1>1 DEF Client!Receive, Client!UnderWay, ClientInv, AnswersFit
  <2>2. /\ Client!Show(i)
        /\ calls[i].kind = "load" \/ (calls[i].kind = "submit" /\ calls[i].said = "ok")
    BY <1>1 DEF Client!Receive, Client!LoadAnswered, Client!ClockAnswered, Client!ControlAnswered,
                Client!SaveAnswered, Client!SubmitAnswered
  <2>3. CASE calls[i].read.finished
    <3>1. page' = "finished"
      BY <2>2, <2>3 DEF Client!Show, Client!keepFinished
    <3> QED
      BY <2>1, <2>3, <3>1 DEF Client!Finished
  <2>4. CASE ~calls[i].read.finished
    <3>1. page' = "paper" /\ page # "finished"
      BY <2>2, <2>4 DEF Client!Show, Client!keepFinished
    <3>2. Client!Outdated
      BY <2>1, <2>2, <2>4 DEF Client!Outdated, Client!Awaited, Client!UnderWay
    <3> QED
      BY <3>1, <3>2
  <2> QED
    BY <2>3, <2>4
<1>2. ASSUME NEW i \in Client!Slots, Client!Fail(i) PROVE Turned
  <2>1. PICK these : Client!After(i, these)
    BY <1>2 DEF Client!Fail
  <2>2. page' = "error"
    BY <2>1 DEF Client!After
  <2> QED
    BY <2>2
<1>3. CASE Client!Restart
  <2>1. page' = "loading"
    BY <1>3 DEF Client!Restart
  <2> QED
    BY <1>3, <2>1
<1>4. \/ \E i \in Client!Slots : Client!Receive(i) \/ Client!Fail(i)
      \/ Client!Restart
  BY DEF Client!Step, Client!Serve, Client!ReceivePush, Client!Deadline, Client!Hold, Client!Release,
         Client!End, Client!Control, Client!Select, Client!Retry, Client!Submit, Client!Resync,
         Client!Return, Client!HoldPoll, Client!Asks
<1>5. CASE Client!Restart
  BY <1>3, <1>5
<1>6. ASSUME NEW i \in Client!Slots, Client!Receive(i) \/ Client!Fail(i) PROVE Turned
  <2>1. CASE Client!Receive(i)
    BY <1>1, <2>1
  <2>2. CASE Client!Fail(i)
    BY <1>2, <2>2
  <2> QED
    BY <1>6, <2>1, <2>2
<1> QED
  BY <1>4, <1>5, <1>6

LEMMA EndKeeps == ASSUME ClientInv, EndInv, Client!Next PROVE EndInv'
<1>1. Client!Step /\ Client!Watch
  BY DEF Client!Next
<1>2. /\ page \in {"loading", "error", "paper", "finished"}
      /\ page' \in {"loading", "error", "paper", "finished"}
  BY <1>1, PageTurns DEF ClientInv, Client!StateOK
<1>3. Client!Finished(attempt) => Client!Finished(attempt')
  BY <1>1, StaysFinished
<1>4. CASE page' = "finished"
  <2>1. over' = "seen"
    BY <1>1, <1>4 DEF Client!Watch
  <2>2. Client!Finished(attempt')
    BY <1>1, <1>3, <1>4, PageTurns DEF EndInv
  <2> QED
    BY <1>4, <2>1, <2>2 DEF EndInv, Client!Endings, Client!Finished
<1>5. CASE page' # "finished" /\ over = "unseen"
  <2>1. page # "finished"
    BY <1>5 DEF EndInv
  <2>2. over' = "unseen"
    BY <1>1, <1>5, <2>1 DEF Client!Watch
  <2> QED
    BY <1>5, <2>2 DEF EndInv, Client!Endings
<1>6. CASE page' = "loading" /\ over # "unseen"
  <2>1. over' = "seen"
    BY <1>1, <1>6 DEF Client!Watch
  <2>2. Client!Finished(attempt')
    BY <1>3, <1>6 DEF EndInv
  <2>3. ~Client!Outdated'
    <3>1. CASE page = "loading"
      <4>1. over = "seen" /\ ~Client!Outdated
        BY <1>6, <3>1 DEF EndInv, Client!Endings
      <4> QED
        BY <1>1, <1>6, <3>1, <4>1, NoneOutdated DEF EndInv
    <3>2. CASE page # "loading"
      BY <1>1, <1>6, <3>2, PageTurns, RestartsAfresh
    <3> QED
      BY <3>1, <3>2
  <2> QED
    BY <1>6, <2>1, <2>2, <2>3 DEF EndInv, Client!Endings, Client!Finished
<1>7. CASE page' \in {"error", "paper"} /\ over = "seen"
  <2>1. Client!Finished(attempt') /\ Client!Finished(attempt) /\ page # "paper"
    BY <1>3, <1>7 DEF EndInv
  <2>2. page' = "error"
    <3>1. page' = "paper" => page # "finished" /\ Client!Outdated
      BY <1>1, <2>1, PageTurns
    <3> QED
      BY <1>7, <3>1 DEF EndInv
  <2>3. CASE page = "finished" /\ Client!Outdated'
    <3>1. over' = "crossed"
      BY <1>1, <1>7, <2>2, <2>3 DEF Client!Watch
    <3> QED
      BY <2>1, <2>2, <3>1 DEF EndInv, Client!Endings, Client!Finished
  <2>4. CASE ~(page = "finished" /\ Client!Outdated')
    <3>1. over' = "seen"
      BY <1>1, <1>7, <2>2, <2>4 DEF Client!Watch
    <3>2. ~Client!Outdated'
      BY <1>1, <1>7, <2>1, <2>4, NoneOutdated DEF EndInv
    <3> QED
      BY <2>1, <2>2, <3>1, <3>2 DEF EndInv, Client!Endings, Client!Finished
  <2> QED
    BY <2>3, <2>4
<1>8. CASE page' \in {"error", "paper"} /\ over = "crossed"
  <2>1. over' = "crossed" /\ Client!Finished(attempt')
    BY <1>1, <1>3, <1>8 DEF Client!Watch, EndInv
  <2> QED
    BY <1>8, <2>1 DEF EndInv, Client!Endings, Client!Finished
<1> QED
  BY <1>2, <1>4, <1>5, <1>6, <1>7, <1>8 DEF EndInv, Client!Endings

LEMMA EndStays == ASSUME ClientInv, EndInv, [AppNext]_allVars PROVE EndInv'
<1>1. CASE UNCHANGED clientVars
  BY <1>1 DEF clientVars, EndInv, Client!Finished, Client!Outdated, Client!Awaited, Client!UnderWay
<1>2. CASE Client!Next
  BY <1>2, EndKeeps
<1> QED
  BY <1>1, <1>2 DEF AppNext, ClientStep, VideoStep, allVars

\* EndIsShown: the paper of an exam that is over is left; once the candidate has seen the end, the
\* paper does not come back, unless a reload failed there with an answer from before the end still to
\* come.
THEOREM EndIsHeard == AppSpec => []EndIsShown
<1>1. AppInit => ClientInv /\ EndInv
  <2>1. Client!Init => EndInv
    BY DEF Client!Init, EndInv, Client!Endings
  <2> QED
    BY <2>1, ClientStart DEF AppInit
<1>2. ClientInv /\ EndInv /\ [AppNext]_allVars => (ClientInv /\ EndInv)'
  BY ClientStays, EndStays
<1>3. ClientInv /\ EndInv => EndIsShown
  BY DEF EndIsShown, ClientInv, EndInv, Client!EndIsKept
<1> QED
  BY <1>1, <1>2, <1>3, PTL DEF AppSpec
===============================================================================
