---------------------------- MODULE EvidenceProofs ----------------------------
(***************************************************************************)
(* A clip has one video, clips are spaced and a review holds its videos,   *)
(* for any number of events, requests and crashes.  What makes it so is    *)
(* that a request's uncommitted writes agree with the rows it has locked   *)
(* (Writing), that the clip an upload stores for stays open under its lock *)
(* (Storing), and that what an event counted stays true under the lock of  *)
(* the attempt (Reporting).                                                *)
(*                                                                         *)
(* Last, the events: each is recorded once and in the app's order, because *)
(* a request on its way never carries a newer report than the oldest that  *)
(* still waits (OrderInv).                                                 *)
(***************************************************************************)
EXTENDS Evidence, Sequences, FiniteSetTheorems, WellFoundedInduction, TLAPS

Step == {None, "lock", "put", "store", "write", "erase", "hold", "delete", "purge", "commit"}

Writes == UNION {[S -> Clip] : S \in SUBSET Events}

Request ==
    [op : {None, "event", "upload", "view", "delete", "maintain"}, step : Step,
     on : Events \cup {None}, since : Nat, link : Events \cup {None}, row : Clip \cup {None},
     write : Writes, holds : SUBSET Events, left : SUBSET Keys]

Types ==
    /\ ClipTypeOK
    /\ recorded \in [Events -> Nat \cup {None}]
    /\ link \in [Events -> Events \cup {None}]
    /\ clip \in [Events -> Clip \cup {None}]
    /\ puts \in [Events -> Nat]
    /\ req \in [Requests -> Request]

\* The key of a video: put for this clip.
Named(e, key) == \E n \in 1..puts[e] : key = <<e, n>>

RowsInv ==
    /\ IsFiniteSet(Rows)
    /\ \A e \in Rows :
          /\ recorded[e] # None
          /\ clip[e].at <= now
          /\ clip[e].key # None => Named(e, clip[e].key)
          /\ clip[e].status = "CREATING" => clip[e].key = None
          /\ clip[e].status = "READY" => clip[e].key # None

Apart ==
    \A r, q \in Requests : r # q =>
        /\ req[r].holds \cap req[q].holds = {}
        /\ ~(req[r].op = "event" /\ req[q].op = "event")

\* A row to be written has the clip's key and time; it is a new one or ends the clip.
Writing(r) ==
    /\ req[r].holds \subseteq Rows
    /\ \A e \in DOMAIN req[r].write :
          \/ /\ e \in req[r].holds
             /\ req[r].write[e].status \in {"FAILED", "EXPIRED"}
             /\ req[r].write[e].key = clip[e].key
             /\ req[r].write[e].at = clip[e].at
          \/ req[r].op = "event" /\ e = req[r].on /\ e = req[r].link

Storing(r) ==
    req[r].step \in {"put", "store"} =>
        /\ req[r].op = "upload" /\ req[r].on \in Events /\ req[r].holds = {req[r].on}
        /\ Creating(clip[req[r].on])
        /\ req[r].row \in Clip
        /\ req[r].row.status = "CREATING" /\ req[r].row.at = clip[req[r].on].at
        /\ IF req[r].step = "put" THEN req[r].row.key = None ELSE Named(req[r].on, req[r].row.key)

Reporting(r) ==
    req[r].op = "event" =>
        /\ attempt.status = "OPEN" /\ req[r].step = None
        /\ req[r].on \in Events /\ recorded[req[r].on] = None
        /\ req[r].since <= now
        /\ req[r].link = req[r].on =>
              /\ Cardinality(Rows) < MaxClips
              /\ \A e \in Rows : req[r].since - clip[e].at >= Cooldown
              /\ req[r].on \in DOMAIN req[r].write
              /\ req[r].write[req[r].on] = NewClip(req[r].since)
        /\ req[r].link \notin {None, req[r].on} =>
              /\ req[r].link \in Rows
              /\ req[r].since - clip[req[r].link].at \in 0..Post

Maintaining(r) ==
    /\ req[r].step \in {"hold", "delete", "purge", "commit"} <=> req[r].op = "maintain"
    /\ req[r].step \in {"hold", "delete"} =>
          \A k \in req[r].left : k[1] \in req[r].holds /\ clip[k[1]].key = k
    /\ req[r].step \in {"delete", "purge"} /\ req[r].left # {} /\ review = "IN_REVIEW" => r \in fresh

Other(r) ==
    /\ req[r].op = None => req[r] = NoRequest
    /\ req[r].op = "upload" => req[r].on \in Events /\ req[r].step \in {"lock", "put", "store"} /\ DOMAIN req[r].write = {}
    /\ req[r].op \in {"view", "delete"} =>
          /\ req[r].on \in Events /\ req[r].row \in Clip /\ req[r].holds = {}
          /\ req[r].step \in {"erase", "write"}
          /\ req[r].row.status \in {"FAILED", "DELETED"}

ClipInv ==
    /\ Types /\ RowsInv /\ Apart
    /\ \A r \in Requests : Writing(r) /\ Storing(r) /\ Reporting(r) /\ Maintaining(r) /\ Other(r)
    /\ VideosNamed /\ ClipsSpaced

-----------------------------------------------------------------------------
(* Rows and requests. *)

LEMMA Least ==
    ASSUME NEW T, T \subseteq Nat, T # {}
    PROVE  \E x \in T : \A y \in T : x <= y
<1>1. IsWellFoundedOn(OpToRel(<, Nat), Nat)
  BY NatLessThanWellFounded, Zenon
<1>2. PICK x \in T : \A y \in T : ~(<<y, x>> \in OpToRel(<, Nat))
  BY <1>1, WFMin, Zenon
<1>3. \A y \in T : ~(y < x)
  BY <1>2 DEF OpToRel
<1> QED BY <1>3

LEMMA NoneIsNoClip == \A c \in Clip : c # None
BY NoneIsNothing

LEMMA NoRequestIs ==
    /\ NoRequest.op = None /\ NoRequest.step = None /\ NoRequest.on = None
    /\ NoRequest.holds = {} /\ NoRequest.left = {} /\ DOMAIN NoRequest.write = {}
    /\ NoRequest.link = None /\ NoRequest.row = None
<1>1. DOMAIN [e \in {} |-> None] = {}
  BY Zenon
<1> QED BY <1>1, Zenon DEF NoRequest

LEMMA NoRequestFits == NoRequest \in Request
<1>1. [e \in {} |-> None] \in [{} -> Clip]
  OBVIOUS
<1>2. {} \in SUBSET Events
  OBVIOUS
<1>3. [e \in {} |-> None] \in Writes
  BY <1>1, <1>2, Zenon DEF Writes
<1> QED BY <1>3 DEF NoRequest, Request, Step

LEMMA WriteIs ==
    ASSUME NEW w \in Writes
    PROVE  /\ DOMAIN w \subseteq Events
           /\ \A e \in DOMAIN w : w[e] \in Clip
BY DEF Writes

LEMMA AddingFits ==
    ASSUME NEW w \in Writes, NEW e \in Events, NEW c \in Clip
    PROVE  /\ Adding(w, e, c) \in Writes
           /\ DOMAIN Adding(w, e, c) = DOMAIN w \cup {e}
           /\ \A f \in DOMAIN w \cup {e} : Adding(w, e, c)[f] = IF f = e THEN c ELSE w[f]
<1> DEFINE S == DOMAIN w \cup {e}
<1>1. S \in SUBSET Events
  BY WriteIs
<1>2. \A f \in S : (IF f = e THEN c ELSE w[f]) \in Clip
  BY WriteIs
<1>3. Adding(w, e, c) \in [S -> Clip]
  BY <1>2 DEF Adding
<1>4. Adding(w, e, c) \in Writes
  <2> HIDE DEF S
  <2> QED BY <1>1, <1>3 DEF Writes
<1> QED BY <1>4 DEF Adding

LEMMA SweepingFits ==
    ASSUME Types
    PROVE  /\ Sweeping \in Writes
           /\ DOMAIN Sweeping = Swept /\ Swept \subseteq Rows
           /\ \A e \in Swept : /\ clip[e] \in Clip /\ clip[e].status = "CREATING" /\ ~Locked(e)
                               /\ Sweeping[e] = [clip[e] EXCEPT !.status = "FAILED"]
                               /\ Sweeping[e] \in Clip
<1>1. \A e \in Rows : clip[e] \in Clip
  BY DEF Types, Rows
<1>2. \A e \in Swept : /\ e \in Rows /\ clip[e] \in Clip
                       /\ clip[e].status = "CREATING" /\ ~Locked(e)
  BY <1>1 DEF Swept, Overdue, Creating
<1>3. \A e \in Swept : Failed(clip[e]) \in Clip
  BY <1>2 DEF Failed, Clip, Status
<1>4. Swept \in SUBSET Events
  BY DEF Swept, Rows
<1>5. Sweeping \in [Swept -> Clip]
  BY <1>3 DEF Sweeping
<1>6. Sweeping \in Writes
  BY <1>4, <1>5 DEF Writes
<1> QED BY <1>2, <1>3, <1>6 DEF Sweeping, Failed

\* The initial state.
LEMMA InitClips == ClipInit => ClipInv
<1> SUFFICES ASSUME ClipInit PROVE ClipInv
  OBVIOUS
<1>1. Rows = {}
  BY DEF ClipInit, Rows
<1>2. \A r \in Requests : req[r] = NoRequest
  BY DEF ClipInit
<1>3. Types
  <2>1. ClipTypeOK
    BY ClipConstants DEF ClipInit, ClipTypeOK
  <2>2. req \in [Requests -> Request]
    BY NoRequestFits DEF ClipInit
  <2> QED BY <2>1, <2>2 DEF ClipInit, Types
<1>4. RowsInv
  BY <1>1, FS_EmptySet DEF RowsInv
<1>5. Apart
  BY <1>2, NoRequestIs, NoneIsNothing DEF Apart
<1>6. ASSUME NEW r \in Requests
      PROVE  Writing(r) /\ Storing(r) /\ Reporting(r) /\ Maintaining(r) /\ Other(r)
  <2>1. /\ req[r] = NoRequest
        /\ req[r].op = None /\ req[r].step = None
        /\ req[r].holds = {} /\ req[r].left = {} /\ DOMAIN req[r].write = {}
    BY <1>2, NoRequestIs
  <2> QED BY <2>1, NoneIsNothing DEF Writing, Storing, Reporting, Maintaining, Other
<1>7. VideosNamed
  BY <1>1 DEF ClipInit, VideosNamed
<1>8. ClipsSpaced
  BY <1>1, FS_EmptySet, ClipConstants DEF ClipInit, ClipsSpaced
<1> QED BY <1>3, <1>4, <1>5, <1>6, <1>7, <1>8 DEF ClipInv
-----------------------------------------------------------------------------
(* What most steps have in common. *)

\* A row keeps its key and its time, and its clip does not become READY or open again.
Closes(e) ==
    /\ e \in Rows /\ clip'[e] \in Clip
    /\ clip'[e].key = clip[e].key /\ clip'[e].at = clip[e].at
    /\ clip'[e].status # "READY"
    /\ clip'[e].status = "CREATING" => clip[e].status = "CREATING"

OnlyCloses == \A e \in Events : clip'[e] = clip[e] \/ Closes(e)

LEMMA RowsStay ==
    ASSUME ClipInv, clip' \in [Events -> Clip \cup {None}], OnlyCloses
    PROVE  /\ Rows' = Rows
           /\ \A e \in Rows : /\ clip[e] \in Clip /\ clip'[e] \in Clip
                              /\ clip'[e].key = clip[e].key /\ clip'[e].at = clip[e].at
           /\ \A e \in Rows : /\ clip'[e].status = "READY" => clip[e].status = "READY"
                              /\ clip'[e].status = "CREATING" => clip[e].status = "CREATING"
<1>1. \A e \in Rows : clip[e] \in Clip
  BY DEF ClipInv, Types, Rows
<1>2. \A e \in Events : clip'[e] # None <=> clip[e] # None
  BY NoneIsNoClip DEF OnlyCloses, Closes, Rows
<1>3. Rows' = Rows
  BY <1>2 DEF Rows
<1> QED BY <1>1, <1>3 DEF OnlyCloses, Closes, Rows

\* Clips are closed by requests that hold the rows, or that find them free, and end.
LEMMA ClosingKeeps ==
    ASSUME ClipInv,
           clip' \in [Events -> Clip \cup {None}], OnlyCloses,
           req' \in [Requests -> Request],
           \A q \in Requests :
              \/ req'[q] = req[q] /\ \A e \in req[q].holds : clip'[e] = clip[e]
              \/ req'[q] = NoRequest /\ req[q].step # "store",
           UNCHANGED <<now, attempt, review, recorded, link, video, puts, orphans, fresh>>
    PROVE  ClipInv'
<1> USE DEF ClipInv
<1>1. Types'
  <2>1. ClipTypeOK'
    BY DEF Types, ClipTypeOK
  <2> QED BY <2>1 DEF Types
<1>2. RowsInv'
  <2>1. IsFiniteSet(Rows')
    BY RowsStay DEF RowsInv
  <2>2. ASSUME NEW e \in Rows'
        PROVE  (/\ recorded[e] # None
                /\ clip[e].at <= now
                /\ clip[e].key # None => Named(e, clip[e].key)
                /\ clip[e].status = "CREATING" => clip[e].key = None
                /\ clip[e].status = "READY" => clip[e].key # None)'
    <3>1. e \in Rows /\ e \in Events
      BY <2>2, RowsStay DEF Rows
    <3> QED BY <3>1, RowsStay DEF RowsInv, Named
  <2> QED BY <2>1, <2>2 DEF RowsInv
<1>3. Apart'
  <2>1. \A q \in Requests : req'[q].holds \subseteq req[q].holds /\ (req'[q].op = "event" => req[q].op = "event")
    BY NoRequestIs, NoneIsNothing
  <2> QED BY <2>1 DEF Apart
<1>4. ASSUME NEW q \in Requests
      PROVE  (Writing(q) /\ Storing(q) /\ Reporting(q) /\ Maintaining(q) /\ Other(q))'
  <2>1. CASE req'[q] = NoRequest
    BY <2>1, NoRequestIs, NoneIsNothing DEF Writing, Storing, Reporting, Maintaining, Other
  <2>2. CASE req'[q] = req[q] /\ \A e \in req[q].holds : clip'[e] = clip[e]
    <3>1. Writing(q) /\ Storing(q) /\ Reporting(q) /\ Maintaining(q) /\ Other(q)
      OBVIOUS
    <3>2. Writing(q)'
      BY <2>2, <3>1, RowsStay DEF Writing
    <3>3. Storing(q)'
      BY <2>2, <3>1, RowsStay DEF Storing, Named, Creating
    <3>4. Reporting(q)'
      BY <2>2, <3>1, RowsStay DEF Reporting, Types
    <3>5. Maintaining(q)'
      BY <2>2, <3>1 DEF Maintaining
    <3>6. Other(q)'
      BY <2>2, <3>1 DEF Other
    <3> QED BY <3>2, <3>3, <3>4, <3>5, <3>6
  <2> QED BY <2>1, <2>2
<1>5. VideosNamed'
  <2>1. ASSUME NEW k \in video' \ orphans'
        PROVE  \/ clip'[k[1]] # None /\ clip'[k[1]].key = k
               \/ \E r \in Requests : req'[r].step = "store" /\ req'[r].row.key = k
    <3>1. k \in video \ orphans /\ k[1] \in Events
      BY <2>1 DEF Types, ClipTypeOK, Keys
    <3>2. CASE clip[k[1]] # None /\ clip[k[1]].key = k
      BY <3>1, <3>2, RowsStay, NoneIsNoClip DEF Rows
    <3>3. CASE \E r \in Requests : req[r].step = "store" /\ req[r].row.key = k
      BY <3>3
    <3> QED BY <3>1, <3>2, <3>3 DEF VideosNamed
  <2>2. \A e \in Rows' : clip'[e].status = "READY" => \E n \in 1..puts'[e] : clip'[e].key = <<e, n>>
    BY RowsStay DEF VideosNamed
  <2> QED BY <2>1, <2>2 DEF VideosNamed
<1>6. ClipsSpaced'
  <2>1. \A e \in Events : link[e] # None => link[e] \in Rows
    BY DEF ClipsSpaced, Types, Rows
  <2> QED BY <2>1, RowsStay, NoneIsNoClip DEF ClipsSpaced
<1> QED BY <1>1, <1>2, <1>3, <1>4, <1>5, <1>6

\* A request moves on by itself: the rows are as they are, and at most a video is deleted.
LEMMA MovingKeeps ==
    ASSUME ClipInv, NEW r \in Requests, NEW x \in Request,
           req' = [req EXCEPT ![r] = x],
           req[r].step # "store",
           \A q \in Requests \ {r} : /\ x.holds \cap req[q].holds = {}
                                     /\ ~(x.op = "event" /\ req[q].op = "event"),
           video' \subseteq video, fresh' \subseteq Requests, fresh \ {r} \subseteq fresh',
           UNCHANGED <<now, attempt, review, recorded, link, clip, puts, orphans>>,
           (Writing(r) /\ Storing(r) /\ Reporting(r) /\ Maintaining(r) /\ Other(r))'
    PROVE  ClipInv'
<1> USE DEF ClipInv
<1>0. req'[r] = x /\ \A q \in Requests \ {r} : req'[q] = req[q]
  BY DEF Types
<1>1. Types'
  <2>1. req' \in [Requests -> Request]
    BY DEF Types
  <2>2. ClipTypeOK'
    BY DEF Types, ClipTypeOK
  <2> QED BY <2>1, <2>2 DEF Types
<1>2. RowsInv'
  BY DEF RowsInv, Rows, Named
<1>3. Apart'
  BY <1>0 DEF Apart
<1>4. ASSUME NEW q \in Requests
      PROVE  (Writing(q) /\ Storing(q) /\ Reporting(q) /\ Maintaining(q) /\ Other(q))'
  <2>1. CASE q = r
    BY <2>1
  <2>2. CASE q # r
    <3>1. Writing(q) /\ Storing(q) /\ Reporting(q) /\ Maintaining(q) /\ Other(q) /\ req'[q] = req[q]
      BY <2>2, <1>0
    <3>2. Writing(q)'
      BY <3>1 DEF Writing, Rows
    <3>3. Storing(q)'
      BY <3>1 DEF Storing, Named
    <3>4. Reporting(q)'
      BY <3>1 DEF Reporting, Rows
    <3>5. Maintaining(q)'
      BY <2>2, <3>1 DEF Maintaining
    <3>6. Other(q)'
      BY <3>1 DEF Other
    <3> QED BY <3>2, <3>3, <3>4, <3>5, <3>6
  <2> QED BY <2>1, <2>2
<1>5. VideosNamed'
  <2>1. ASSUME NEW k \in video' \ orphans'
        PROVE  \/ clip'[k[1]] # None /\ clip'[k[1]].key = k
               \/ \E q \in Requests : req'[q].step = "store" /\ req'[q].row.key = k
    <3>1. k \in video \ orphans
      BY <2>1
    <3>2. CASE \E q \in Requests : req[q].step = "store" /\ req[q].row.key = k
      <4>1. PICK q \in Requests : req[q].step = "store" /\ req[q].row.key = k
        BY <3>2
      <4> QED BY <4>1, <1>0
    <3> QED BY <3>1, <3>2 DEF VideosNamed
  <2> QED BY <2>1 DEF VideosNamed, Rows
<1>6. ClipsSpaced'
  BY DEF ClipsSpaced, Rows
<1> QED BY <1>1, <1>2, <1>3, <1>4, <1>5, <1>6
-----------------------------------------------------------------------------
(* Reporting. *)

\* The clip that covers an event is one that is still being captured.
LEMMA Covering ==
    ASSUME ClipInv, NEW rows \in {Written(Sweeping)}, Capturing(rows) # {}
    PROVE  /\ CoveredBy(rows) \in Rows
           /\ now - clip[CoveredBy(rows)].at \in 0..Post
<1> USE DEF ClipInv
<1>1. \A e \in Capturing(rows) : /\ e \in Rows /\ clip[e] \in Clip
                                 /\ rows[e] = clip[e]
                                 /\ clip[e].at \in 0..now /\ clip[e].at + Post >= now
  <2> SUFFICES ASSUME NEW e \in Capturing(rows)
               PROVE  /\ e \in Rows /\ clip[e] \in Clip
                      /\ rows[e] = clip[e]
                      /\ clip[e].at \in 0..now /\ clip[e].at + Post >= now
    OBVIOUS
  <2>1. e \in Events /\ rows[e] # None /\ rows[e].status = "CREATING" /\ rows[e].at + Post >= now
    BY DEF Capturing, Creating
  <2>2. e \notin Swept
    <3> SUFFICES ASSUME e \in Swept PROVE FALSE
      OBVIOUS
    <3>1. rows[e] = [clip[e] EXCEPT !.status = "FAILED"] /\ clip[e] \in Clip
      BY <2>1, SweepingFits DEF Written
    <3> QED BY <2>1, <3>1 DEF Clip
  <2>3. rows[e] = clip[e]
    BY <2>1, <2>2, SweepingFits DEF Written
  <2>4. e \in Rows /\ clip[e] \in Clip
    BY <2>1, <2>3 DEF Rows, Types
  <2>5. clip[e].at \in Nat /\ clip[e].at <= now /\ now \in Nat
    BY <2>4 DEF RowsInv, Clip, Types, ClipTypeOK
  <2> QED BY <2>1, <2>3, <2>4, <2>5
<1>2. now \in Nat /\ Post \in Nat
  BY ClipConstants DEF Types, ClipTypeOK
<1>3. PICK e \in Capturing(rows) : \A f \in Capturing(rows) : rows[f].at <= rows[e].at
  <2> DEFINE T == {now - rows[e].at : e \in Capturing(rows)}
  <2>1. T \subseteq Nat /\ T # {}
    BY <1>1, <1>2
  <2>2. PICK x \in T : \A y \in T : x <= y
    <3> HIDE DEF T
    <3> QED BY <2>1, Least
  <2>3. PICK e \in Capturing(rows) : x = now - rows[e].at
    BY <2>2
  <2>4. \A f \in Capturing(rows) : now - rows[e].at <= now - rows[f].at
    BY <2>2, <2>3
  <2>5. \A f \in Capturing(rows) : rows[f].at \in Nat
    BY <1>1 DEF Clip
  <2>6. \A f \in Capturing(rows) : rows[f].at <= rows[e].at
    BY <2>4, <2>5, <1>2
  <2> QED BY <2>6
<1>4. CoveredBy(rows) \in Capturing(rows)
  BY <1>3 DEF CoveredBy
<1> QED BY <1>1, <1>2, <1>4 DEF Clip

LEMMA ReportKeeps ==
    ASSUME ClipInv, NEW r \in Requests, NEW e \in Events, ReportEvent(r, e)
    PROVE  ClipInv'
<1> USE DEF ClipInv
<1>1. PICK rows \in {Written(Sweeping)} : TRUE
  OBVIOUS
<1>2. PICK new \in BOOLEAN : new <=> Capturing(rows) = {} /\ ~Cooling /\ ~AtCap
  OBVIOUS
<1>3. PICK on : on = IF Capturing(rows) # {} THEN CoveredBy(rows) ELSE IF new THEN e ELSE None
  OBVIOUS
<1>4. PICK write : write = IF new THEN Adding(Sweeping, e, NewClip(now)) ELSE Sweeping
  OBVIOUS
<1>5. PICK x : x = [NoRequest EXCEPT !.op = "event", !.on = e, !.since = now, !.holds = Swept,
                                     !.link = on, !.write = write]
  OBVIOUS
<1>6. /\ req[r].op = None /\ req' = [req EXCEPT ![r] = x]
      /\ attempt.status = "OPEN" /\ recorded[e] = None /\ ~AttemptLocked
      /\ UNCHANGED <<now, attempt, review, recorded, link, clip, video, puts, orphans, fresh>>
  BY <1>1, <1>2, <1>3, <1>4, <1>5 DEF ReportEvent, Opens, Busy, rowVars
<1>7. NewClip(now) \in Clip
  BY ClipConstants DEF NewClip, Clip, Status, Types, ClipTypeOK
<1>8. /\ write \in Writes
      /\ DOMAIN write = IF new THEN Swept \cup {e} ELSE Swept
      /\ \A f \in Swept : f # e => write[f] = [clip[f] EXCEPT !.status = "FAILED"]
      /\ new => write[e] = NewClip(now)
  <2>1. CASE new
    <3>1. write = Adding(Sweeping, e, NewClip(now))
      BY <2>1, <1>4
    <3>2. PICK w \in Writes : w = Sweeping /\ DOMAIN w = Swept
      BY SweepingFits
    <3>3. /\ write \in Writes /\ DOMAIN write = Swept \cup {e}
          /\ \A f \in Swept \cup {e} : write[f] = IF f = e THEN NewClip(now) ELSE w[f]
      <4>1. PICK c \in Clip : c = NewClip(now)
        BY <1>7
      <4>2. /\ Adding(w, e, c) \in Writes
            /\ DOMAIN Adding(w, e, c) = DOMAIN w \cup {e}
            /\ \A f \in DOMAIN w \cup {e} : Adding(w, e, c)[f] = IF f = e THEN c ELSE w[f]
        BY AddingFits
      <4>3. write = Adding(w, e, c)
        BY <3>1, <3>2, <4>1
      <4> QED BY <3>2, <4>1, <4>2, <4>3
    <3> QED BY <2>1, <3>2, <3>3, SweepingFits
  <2>2. CASE ~new
    BY <2>2, <1>4, SweepingFits
  <2> QED BY <2>1, <2>2
<1>9. e \notin Rows
  BY <1>6 DEF RowsInv
<1>10. on \in Events \cup {None} /\ (on \notin {None, e} => on \in Rows /\ now - clip[on].at \in 0..Post)
       /\ (on = e => new)
  BY <1>3, <1>9, Covering, NoneIsNothing DEF Rows
<1>11. x \in Request /\ /\ x.op = "event" /\ x.step = None /\ x.on = e /\ x.since = now /\ x.holds = Swept
                        /\ x.link = on /\ x.write = write /\ x.left = {}
  <2>1. Swept \subseteq Events /\ now \in Nat
    BY SweepingFits DEF Rows, Types, ClipTypeOK
  <2> QED BY <1>5, <1>8, <1>10, <2>1, NoRequestFits, NoRequestIs DEF Request
<1>12. req'[r] = x
  BY <1>6 DEF Types
<1>13. Writing(r)'
  <2>1. ASSUME NEW f \in DOMAIN write
        PROVE  \/ /\ f \in Swept
                  /\ write[f].status \in {"FAILED", "EXPIRED"}
                  /\ write[f].key = clip[f].key
                  /\ write[f].at = clip[f].at
               \/ f = e /\ f = on
    <3>1. CASE f = e
      BY <3>1, <1>2, <1>3, <1>8, <1>9, SweepingFits
    <3>2. CASE f # e
      <4>1. f \in Swept /\ write[f] = [clip[f] EXCEPT !.status = "FAILED"] /\ clip[f] \in Clip
        BY <3>2, <1>8, SweepingFits
      <4> QED BY <4>1 DEF Clip
    <3> QED BY <3>1, <3>2
  <2> QED BY <2>1, <1>6, <1>11, <1>12, SweepingFits DEF Writing, Rows
<1>14. Storing(r)'
  BY <1>11, <1>12, NoneIsNothing DEF Storing
<1>15. Reporting(r)'
  <2>1. new => /\ Cardinality(Rows) < MaxClips
               /\ \A f \in Rows : now - clip[f].at >= Cooldown
    <3>1. Cardinality(Rows) \in Nat
      BY FS_CardinalityType DEF RowsInv
    <3>2. \A f \in Rows : clip[f].at \in Nat
      BY DEF Rows, Types, Clip
    <3>3. now \in Nat /\ Cooldown \in Nat /\ MaxClips \in Nat
      BY ClipConstants DEF Types, ClipTypeOK
    <3> QED BY <1>2, <3>1, <3>2, <3>3 DEF Cooling, AtCap
  <2>2. on = e => e \in DOMAIN write /\ write[e] = NewClip(now)
    BY <1>8, <1>10
  <2>3. now <= now
    BY DEF Types, ClipTypeOK
  <2> QED BY <2>1, <2>2, <2>3, <1>6, <1>10, <1>11, <1>12 DEF Reporting, Rows
<1>16. Maintaining(r)'
  BY <1>11, <1>12, NoneIsNothing DEF Maintaining
<1>17. Other(r)'
  BY <1>11, <1>12, NoneIsNothing DEF Other
<1>18. \A q \in Requests \ {r} : x.holds \cap req[q].holds = {} /\ ~(x.op = "event" /\ req[q].op = "event")
  BY <1>6, <1>11, SweepingFits DEF AttemptLocked, Locked
<1>19. req[r].step # "store"
  BY <1>6, NoRequestIs, NoneIsNothing DEF Other
<1> QED BY <1>6, <1>11, <1>13, <1>14, <1>15, <1>16, <1>17, <1>18, <1>19, MovingKeeps DEF Types, ClipTypeOK
LEMMA EventCommitsKeeps ==
    ASSUME ClipInv, NEW r \in Requests, EventCommits(r)
    PROVE  ClipInv'
<1> USE DEF ClipInv
<1>1. PICK e \in Events : e = req[r].on
  BY DEF EventCommits, Reporting
<1>2. PICK w \in Writes : w = req[r].write
  BY DEF Types, Request
<1>3. PICK on \in Events \cup {None} : on = req[r].link
  BY DEF Types, Request
<1>4. PICK t \in Nat : t = req[r].since
  BY DEF Types, Request
<1>5. /\ attempt.status = "OPEN" /\ recorded[e] = None /\ t <= now
      /\ on = e => /\ Cardinality(Rows) < MaxClips
                   /\ \A f \in Rows : t - clip[f].at >= Cooldown
                   /\ e \in DOMAIN w /\ w[e] = NewClip(t)
      /\ on \notin {None, e} => on \in Rows /\ t - clip[on].at \in 0..Post
  BY <1>1, <1>2, <1>3, <1>4 DEF EventCommits, Reporting
<1>6. /\ recorded' = [recorded EXCEPT ![e] = t]
      /\ link' = [link EXCEPT ![e] = on]
      /\ clip' = [f \in Events |-> IF f \in DOMAIN w THEN w[f] ELSE clip[f]]
      /\ req' = [req EXCEPT ![r] = NoRequest]
      /\ UNCHANGED <<now, attempt, review, video, puts, orphans, fresh>>
  BY <1>1, <1>2, <1>3, <1>4 DEF EventCommits, Ends, Written
<1>7. e \notin Rows /\ NewClip(t) \in Clip /\ NewClip(t).at = t
      /\ NewClip(t).status = "CREATING" /\ NewClip(t).key = None
  BY <1>5, ClipConstants DEF RowsInv, NewClip, Clip, Status
<1>8. \A f \in DOMAIN w : /\ f \in Events /\ w[f] \in Clip
                          /\ \/ /\ f \in req[r].holds /\ f \in Rows
                                /\ w[f].status \in {"FAILED", "EXPIRED"}
                                /\ w[f].key = clip[f].key /\ w[f].at = clip[f].at
                             \/ f = e /\ on = e
  BY <1>1, <1>2, <1>3, WriteIs DEF Writing
<1>9. \A f \in Rows : /\ f # e /\ clip[f] \in Clip /\ clip'[f] \in Clip
                      /\ clip'[f].key = clip[f].key /\ clip'[f].at = clip[f].at
                      /\ clip'[f].status = "READY" => clip[f].status = "READY"
                      /\ clip'[f].status = "CREATING" => clip[f].status = "CREATING"
                      /\ f \notin req[r].holds => clip'[f] = clip[f]
  BY <1>6, <1>7, <1>8 DEF Types, Rows
<1>10. Rows' = IF on = e THEN Rows \cup {e} ELSE Rows
  <2>1. \A f \in Events : f # e => (clip'[f] # None <=> clip[f] # None)
    BY <1>6, <1>8, NoneIsNoClip DEF Rows
  <2>2. clip'[e] # None <=> on = e
    BY <1>5, <1>6, <1>7, <1>8, NoneIsNoClip DEF Rows
  <2> QED BY <2>1, <2>2, <1>7 DEF Rows
<1>11. on = e => clip'[e] = NewClip(t)
  BY <1>5, <1>6
<1>12. \A q \in Requests \ {r} : /\ req'[q] = req[q] /\ req[q].op # "event"
                                 /\ req[q].holds \cap req[r].holds = {}
  BY <1>6 DEF Types, Apart, EventCommits
<1>13. req'[r] = NoRequest
  BY <1>6 DEF Types
<1>14. recorded'[e] = t /\ link'[e] = on /\ \A f \in Events \ {e} : recorded'[f] = recorded[f] /\ link'[f] = link[f]
  BY <1>6 DEF Types
<1>15. now \in Nat /\ Post \in Nat /\ Cooldown \in Nat /\ MaxClips \in Nat
  BY ClipConstants DEF Types, ClipTypeOK
<1>16. Types'
  <2>1. clip' \in [Events -> Clip \cup {None}]
    BY <1>6, <1>8 DEF Types
  <2>2. req' \in [Requests -> Request]
    BY <1>6, NoRequestFits DEF Types
  <2>3. recorded' \in [Events -> Nat \cup {None}] /\ link' \in [Events -> Events \cup {None}]
    BY <1>6 DEF Types
  <2>4. ClipTypeOK'
    BY <2>1, <2>3, <1>6 DEF Types, ClipTypeOK
  <2> QED BY <2>1, <2>2, <2>3, <2>4, <1>6 DEF Types
<1>17. RowsInv'
  <2>1. IsFiniteSet(Rows')
    BY <1>10, FS_AddElement DEF RowsInv
  <2>2. ASSUME NEW f \in Rows'
        PROVE  (/\ recorded[f] # None
                /\ clip[f].at <= now
                /\ clip[f].key # None => Named(f, clip[f].key)
                /\ clip[f].status = "CREATING" => clip[f].key = None
                /\ clip[f].status = "READY" => clip[f].key # None)'
    <3>1. CASE f = e
      BY <3>1, <2>2, <1>5, <1>6, <1>7, <1>10, <1>11, <1>14, NoneIsNothing
    <3>2. CASE f # e
      <4>1. f \in Rows /\ f \in Events
        BY <2>2, <3>2, <1>10 DEF Rows
      <4> QED BY <4>1, <3>2, <1>6, <1>9, <1>14 DEF RowsInv, Named
    <3> QED BY <3>1, <3>2
  <2> QED BY <2>1, <2>2 DEF RowsInv
<1>18. Apart'
  BY <1>12, <1>13, NoRequestIs, NoneIsNothing DEF Apart
<1>19. ASSUME NEW q \in Requests
       PROVE  (Writing(q) /\ Storing(q) /\ Reporting(q) /\ Maintaining(q) /\ Other(q))'
  <2>1. CASE q = r
    BY <2>1, <1>13, NoRequestIs, NoneIsNothing DEF Writing, Storing, Reporting, Maintaining, Other
  <2>2. CASE q # r
    <3>1. /\ Writing(q) /\ Storing(q) /\ Reporting(q) /\ Maintaining(q) /\ Other(q)
          /\ req'[q] = req[q] /\ req[q].op # "event"
      BY <2>2, <1>12
    <3>2. \A f \in req[q].holds : f \in Rows /\ clip'[f] = clip[f]
      BY <2>2, <3>1, <1>9, <1>12 DEF Writing
    <3>3. Writing(q)'
      BY <3>1, <3>2, <1>10 DEF Writing
    <3>4. Storing(q)'
      BY <3>1, <3>2, <1>6 DEF Storing, Named
    <3>5. Reporting(q)'
      BY <3>1 DEF Reporting
    <3>6. Maintaining(q)'
      BY <3>1, <3>2, <1>6 DEF Maintaining
    <3>7. Other(q)'
      BY <3>1 DEF Other
    <3> QED BY <3>3, <3>4, <3>5, <3>6, <3>7
  <2> QED BY <2>1, <2>2
<1>20. VideosNamed'
  <2>1. ASSUME NEW k \in video' \ orphans'
        PROVE  \/ clip'[k[1]] # None /\ clip'[k[1]].key = k
               \/ \E q \in Requests : req'[q].step = "store" /\ req'[q].row.key = k
    <3>1. k \in video \ orphans /\ k[1] \in Events
      BY <2>1, <1>6 DEF Types, ClipTypeOK, Keys
    <3>2. CASE clip[k[1]] # None /\ clip[k[1]].key = k
      BY <3>1, <3>2, <1>9, NoneIsNoClip DEF Rows
    <3>3. CASE \E q \in Requests : req[q].step = "store" /\ req[q].row.key = k
      <4>1. PICK q \in Requests : req[q].step = "store" /\ req[q].row.key = k
        BY <3>3
      <4>2. q # r
        BY <4>1 DEF EventCommits, Storing
      <4> QED BY <4>1, <4>2, <1>12
    <3> QED BY <3>1, <3>2, <3>3 DEF VideosNamed
  <2>2. ASSUME NEW f \in Rows', clip'[f].status = "READY"
        PROVE  \E n \in 1..puts'[f] : clip'[f].key = <<f, n>>
    <3>1. f \in Rows
      BY <2>2, <1>7, <1>10, <1>11
    <3>2. \E n \in 1..puts[f] : clip[f].key = <<f, n>>
      BY <2>2, <3>1, <1>9 DEF VideosNamed
    <3> QED BY <3>1, <3>2, <1>6, <1>9
  <2> QED BY <2>1, <2>2 DEF VideosNamed
<1>21. ClipsSpaced'
  <2>1. Cardinality(Rows') <= MaxClips
    <3>1. Cardinality(Rows) \in Nat
      BY FS_CardinalityType DEF RowsInv
    <3>2. CASE on = e
      <4>1. Cardinality(Rows') = Cardinality(Rows) + 1
        BY <3>2, <1>7, <1>10, FS_AddElement DEF RowsInv
      <4> QED BY <3>1, <3>2, <4>1, <1>5, <1>15
    <3>3. CASE on # e
      BY <3>3, <1>10 DEF ClipsSpaced
    <3> QED BY <3>2, <3>3
  <2>2. ASSUME NEW f \in Rows', NEW g \in Rows', f # g
        PROVE  clip'[f].at - clip'[g].at >= Cooldown \/ clip'[g].at - clip'[f].at >= Cooldown
    <3>1. CASE f = e
      BY <2>2, <3>1, <1>5, <1>7, <1>9, <1>10, <1>11
    <3>2. CASE g = e
      BY <2>2, <3>2, <1>5, <1>7, <1>9, <1>10, <1>11
    <3>3. CASE f # e /\ g # e
      BY <2>2, <3>3, <1>9, <1>10 DEF ClipsSpaced
    <3> QED BY <3>1, <3>2, <3>3
  <2>3. ASSUME NEW f \in Events, link'[f] # None
        PROVE  clip'[link'[f]] # None /\ recorded'[f] - clip'[link'[f]].at \in 0..Post
    <3>1. CASE f = e /\ on = e
      BY <2>3, <3>1, <1>7, <1>11, <1>14, <1>15, NoneIsNoClip
    <3>2. CASE f = e /\ on # e
      BY <2>3, <3>2, <1>5, <1>9, <1>14, NoneIsNoClip
    <3>3. CASE f # e
      <4>1. link[f] \in Rows /\ recorded[f] - clip[link[f]].at \in 0..Post
        BY <2>3, <3>3, <1>14 DEF ClipsSpaced, Types, Rows
      <4> QED BY <3>3, <4>1, <1>9, <1>14, NoneIsNoClip
    <3> QED BY <3>1, <3>2, <3>3
  <2> QED BY <2>1, <2>2, <2>3 DEF ClipsSpaced
<1> QED BY <1>16, <1>17, <1>18, <1>19, <1>20, <1>21
-----------------------------------------------------------------------------
(* Uploading. *)

LEMMA UploadArrivesKeeps ==
    ASSUME ClipInv, NEW r \in Requests, NEW e \in Events, UploadArrives(r, e)
    PROVE  ClipInv'
<1> USE DEF ClipInv
<1>1. PICK x : x = [NoRequest EXCEPT !.op = "upload", !.step = "lock", !.on = e, !.since = now]
  OBVIOUS
<1>2. /\ req[r].op = None /\ req' = [req EXCEPT ![r] = x]
      /\ UNCHANGED <<now, attempt, review, recorded, link, clip, video, puts, orphans, fresh>>
  BY <1>1 DEF UploadArrives, Opens, Busy, rowVars
<1>3. /\ x \in Request
      /\ x.op = "upload" /\ x.step = "lock" /\ x.on = e
      /\ x.holds = {} /\ x.left = {} /\ DOMAIN x.write = {}
  <2>1. now \in Nat
    BY DEF Types, ClipTypeOK
  <2> QED BY <1>1, <2>1, NoRequestFits, NoRequestIs DEF Request, Step
<1>4. req'[r] = x
  BY <1>2 DEF Types
<1>5. (Writing(r) /\ Storing(r) /\ Reporting(r) /\ Maintaining(r) /\ Other(r))'
  BY <1>3, <1>4, NoneIsNothing DEF Writing, Storing, Reporting, Maintaining, Other
<1>6. req[r].step # "store"
  BY <1>2, NoRequestIs, NoneIsNothing DEF Other
<1> QED BY <1>2, <1>3, <1>5, <1>6, MovingKeeps DEF Types, ClipTypeOK

LEMMA UploadLocksKeeps ==
    ASSUME ClipInv, NEW r \in Requests, UploadLocks(r)
    PROVE  ClipInv'
<1> USE DEF ClipInv
<1>1. PICK e \in Events : e = req[r].on
  BY DEF UploadLocks, Other
<1>2. PICK row : row = clip[e]
  OBVIOUS
<1>3. PICK counted : counted = [row EXCEPT !.uploads = @ + 1]
  OBVIOUS
<1>4. /\ req[r].op = "upload" /\ req[r].step = "lock" /\ ~Locked(e)
      /\ UNCHANGED <<now, attempt, review, recorded, link, video, puts, orphans, fresh>>
      /\ \/ Ends(r) /\ UNCHANGED clip
         \/ Creating(row) /\ clip' = [clip EXCEPT ![e] = Failed(row)] /\ Ends(r)
         \/ Creating(row) /\ clip' = [clip EXCEPT ![e] = Failed(counted)] /\ Ends(r)
         \/ /\ Creating(row) /\ UNCHANGED clip
            /\ req' = [req EXCEPT ![r] = [req[r] EXCEPT !.step = "put", !.row = counted, !.holds = {e}]]
  BY <1>1, <1>2, <1>3 DEF UploadLocks, UploadFree, Overdue, Continues
<1>5. Creating(row) => /\ e \in Rows /\ row \in Clip /\ counted \in Clip
                       /\ row.key = None /\ row.status = "CREATING"
                       /\ counted.status = "CREATING" /\ counted.key = None /\ counted.at = row.at
  BY <1>2, <1>3 DEF Creating, Types, Rows, RowsInv, Clip
<1>6. ASSUME Ends(r), \/ UNCHANGED clip
                      \/ Creating(row) /\ \E c \in {row, counted} : clip' = [clip EXCEPT ![e] = Failed(c)]
      PROVE  ClipInv'
  <2>1. \A q \in Requests : (q = r /\ req'[q] = NoRequest) \/ (q # r /\ req'[q] = req[q])
    BY <1>6 DEF Ends, Types
  <2>2. req' \in [Requests -> Request]
    BY <1>6, NoRequestFits DEF Ends, Types
  <2>3. Creating(row) => \A c \in {row, counted} : /\ Failed(c) \in Clip /\ Failed(c).status = "FAILED"
                                                   /\ Failed(c).key = row.key /\ Failed(c).at = row.at
    BY <1>5 DEF Failed, Clip, Status
  <2>4. clip' \in [Events -> Clip \cup {None}] /\ OnlyCloses
    <3>1. CASE UNCHANGED clip
      BY <3>1 DEF OnlyCloses, Types
    <3>2. CASE Creating(row) /\ \E c \in {row, counted} : clip' = [clip EXCEPT ![e] = Failed(c)]
      BY <3>2, <1>2, <1>5, <2>3 DEF OnlyCloses, Closes, Types
    <3> QED BY <1>6, <3>1, <3>2
  <2>5. \A q \in Requests : \A f \in req[q].holds : clip'[f] = clip[f]
    BY <1>4, <1>6 DEF Locked, Types, Request
  <2> QED BY <1>4, <2>1, <2>2, <2>4, <2>5, ClosingKeeps
<1>7. ASSUME Creating(row), UNCHANGED clip,
             req' = [req EXCEPT ![r] = [req[r] EXCEPT !.step = "put", !.row = counted, !.holds = {e}]]
      PROVE  ClipInv'
  <2>1. PICK x : x = [req[r] EXCEPT !.step = "put", !.row = counted, !.holds = {e}]
    OBVIOUS
  <2>2. /\ x \in Request
        /\ x.op = "upload" /\ x.step = "put" /\ x.on = e /\ x.row = counted
        /\ x.holds = {e} /\ DOMAIN x.write = {}
    <3>1. req[r] \in Request /\ DOMAIN req[r].write = {}
      BY <1>4 DEF Types, Other
    <3>2. counted \in Clip
      BY <1>5, <1>7
    <3> QED BY <2>1, <1>1, <1>4, <3>1, <3>2 DEF Request, Step
  <2>3. req'[r] = x /\ req' = [req EXCEPT ![r] = x]
    BY <1>7, <2>1 DEF Types
  <2>4. (Writing(r) /\ Storing(r) /\ Reporting(r) /\ Maintaining(r) /\ Other(r))'
    <3>1. Writing(r)' /\ Reporting(r)' /\ Maintaining(r)' /\ Other(r)'
      BY <2>2, <2>3, <1>5, <1>7, NoneIsNothing DEF Writing, Reporting, Maintaining, Other, Rows
    <3>2. Storing(r)'
      BY <2>2, <2>3, <1>2, <1>5, <1>7 DEF Storing
    <3> QED BY <3>1, <3>2
  <2>5. \A q \in Requests \ {r} : x.holds \cap req[q].holds = {} /\ ~(x.op = "event" /\ req[q].op = "event")
    BY <2>2, <1>4 DEF Locked
  <2> QED BY <1>4, <1>7, <2>2, <2>3, <2>4, <2>5, MovingKeeps DEF Types, ClipTypeOK
<1>8. CASE Creating(row) /\ clip' = [clip EXCEPT ![e] = Failed(row)] /\ Ends(r)
  BY <1>6, <1>8
<1>9. CASE Creating(row) /\ clip' = [clip EXCEPT ![e] = Failed(counted)] /\ Ends(r)
  BY <1>6, <1>9
<1> QED BY <1>4, <1>6, <1>7, <1>8, <1>9

LEMMA PutFailsKeeps ==
    ASSUME ClipInv, NEW r \in Requests, PutFails(r)
    PROVE  ClipInv'
<1> USE DEF ClipInv
<1>1. PICK e \in Events : e = req[r].on
  BY DEF PutFails, Storing
<1>2. PICK row \in Clip : row = req[r].row
  BY DEF PutFails, Storing
<1>3. PICK c : c = IF row.uploads >= MaxUploads THEN Failed(row) ELSE row
  OBVIOUS
<1>4. /\ req[r].step = "put" /\ Ends(r) /\ clip' = [clip EXCEPT ![e] = c]
      /\ UNCHANGED <<now, attempt, review, recorded, link, video, puts, orphans, fresh>>
  BY <1>1, <1>2, <1>3 DEF PutFails
<1>5. /\ req[r].holds = {e} /\ e \in Rows
      /\ clip[e] \in Clip /\ clip[e].status = "CREATING" /\ clip[e].key = None
      /\ row.status = "CREATING" /\ row.at = clip[e].at /\ row.key = None
  BY <1>1, <1>2, <1>4 DEF Storing, Creating, Types, Rows, RowsInv
<1>6. c \in Clip /\ c.status \in {"FAILED", "CREATING"} /\ c.key = None /\ c.at = row.at
  BY <1>2, <1>3, <1>5 DEF Failed, Clip, Status
<1>7. clip' \in [Events -> Clip \cup {None}] /\ OnlyCloses
  BY <1>4, <1>5, <1>6 DEF OnlyCloses, Closes, Types
<1>8. \A q \in Requests : \/ q = r /\ req'[q] = NoRequest
                          \/ q # r /\ req'[q] = req[q] /\ \A f \in req[q].holds : clip'[f] = clip[f]
  BY <1>4, <1>5 DEF Ends, Types, Apart, Request
<1>9. req' \in [Requests -> Request]
  BY <1>4, NoRequestFits DEF Ends, Types
<1> QED BY <1>4, <1>7, <1>8, <1>9, ClosingKeeps

LEMMA PutsKeeps ==
    ASSUME ClipInv, NEW r \in Requests, Puts(r)
    PROVE  ClipInv'
<1> USE DEF ClipInv
<1>1. PICK e \in Events : e = req[r].on
  BY DEF Puts, Storing
<1>2. puts[e] \in Nat
  BY DEF Types
<1>3. PICK key \in Keys : key = <<e, puts[e] + 1>>
  <2>1. puts[e] + 1 \in Nat \ {0}
    BY <1>2
  <2>2. <<e, puts[e] + 1>> \in Keys
    BY <2>1 DEF Keys
  <2> QED BY <2>2
<1>4. PICK x : x = [req[r] EXCEPT !.step = "store", !.row.key = key]
  OBVIOUS
<1>5. /\ req[r].step = "put" /\ req' = [req EXCEPT ![r] = x]
      /\ video' = video \cup {key}
      /\ puts' = [puts EXCEPT ![e] = puts[e] + 1]
      /\ UNCHANGED <<now, attempt, review, recorded, link, clip, orphans, fresh>>
  BY <1>1, <1>3, <1>4 DEF Puts, Continues, rowVars
<1>6. /\ req[r].op = "upload" /\ req[r].row \in Clip /\ req[r].row.status = "CREATING"
      /\ req[r].holds = {e} /\ DOMAIN req[r].write = {}
      /\ Creating(clip[e]) /\ req[r].row.at = clip[e].at
  BY <1>1, <1>5 DEF Storing, Other
<1>7. /\ x \in Request
      /\ x.op = "upload" /\ x.step = "store" /\ x.on = e /\ x.holds = {e} /\ DOMAIN x.write = {}
      /\ x.row \in Clip /\ x.row.status = "CREATING" /\ x.row.at = clip[e].at /\ x.row.key = key
  <2>1. x.row = [req[r].row EXCEPT !.key = key]
    BY <1>4, <1>6 DEF Types, Request
  <2>2. x.row \in Clip /\ x.row.status = "CREATING" /\ x.row.at = clip[e].at /\ x.row.key = key
    BY <1>6, <2>1 DEF Clip
  <2>3. req[r] \in Request /\ x = [[req[r] EXCEPT !.step = "store"] EXCEPT !.row = x.row]
    BY <1>4, <2>1 DEF Types, Request
  <2>4. x \in Request
    BY <2>2, <2>3 DEF Request, Step
  <2> QED BY <1>1, <1>6, <2>2, <2>3, <2>4 DEF Request
<1>8. req'[r] = x /\ \A q \in Requests \ {r} : req'[q] = req[q]
  BY <1>5 DEF Types
<1>9. \A f \in Events : puts'[f] \in Nat /\ puts'[f] >= puts[f]
  BY <1>5 DEF Types
<1>10. \A f \in Events : 1..puts[f] \subseteq 1..puts'[f]
  BY <1>9 DEF Types
<1>11. Types'
  <2>1. req' \in [Requests -> Request] /\ puts' \in [Events -> Nat]
    BY <1>5, <1>7 DEF Types
  <2>2. ClipTypeOK'
    BY <2>1, <1>5 DEF Types, ClipTypeOK
  <2> QED BY <2>1, <2>2, <1>5 DEF Types
<1>12. RowsInv'
  <2>1. ASSUME NEW f \in Rows, clip[f].key # None
        PROVE  Named(f, clip[f].key)'
    <3>1. PICK n \in 1..puts[f] : clip[f].key = <<f, n>>
      BY <2>1 DEF RowsInv, Named
    <3> QED BY <3>1, <1>5, <1>10 DEF Named, Rows
  <2> QED BY <2>1, <1>5 DEF RowsInv, Rows
<1>13. Apart'
  BY <1>7, <1>8, <1>6 DEF Apart
<1>14. ASSUME NEW q \in Requests
       PROVE  (Writing(q) /\ Storing(q) /\ Reporting(q) /\ Maintaining(q) /\ Other(q))'
  <2>1. CASE q = r
    <3>1. Writing(r)' /\ Reporting(r)' /\ Maintaining(r)' /\ Other(r)'
      BY <1>5, <1>6, <1>7, <1>8, NoneIsNothing DEF Writing, Reporting, Maintaining, Other, Rows, Creating
    <3>2. Storing(r)'
      <4>1. key = <<e, puts'[e]>> /\ puts'[e] \in 1..puts'[e]
        BY <1>2, <1>3, <1>5 DEF Types
      <4>2. \E n \in 1..puts'[e] : key = <<e, n>>
        BY <4>1
      <4> QED BY <4>2, <1>5, <1>6, <1>7, <1>8 DEF Storing, Named
    <3> QED BY <2>1, <3>1, <3>2
  <2>2. CASE q # r
    <3>1. Writing(q) /\ Storing(q) /\ Reporting(q) /\ Maintaining(q) /\ Other(q) /\ req'[q] = req[q]
      BY <2>2, <1>8
    <3>2. Writing(q)'
      BY <3>1, <1>5 DEF Writing, Rows
    <3>3. Storing(q)'
      <4>1. ASSUME req[q].step = "store" PROVE Named(req[q].on, req[q].row.key)'
        <5>1. req[q].on \in Events /\ Named(req[q].on, req[q].row.key)
          BY <3>1, <4>1 DEF Storing
        <5>2. PICK n \in 1..puts[req[q].on] : req[q].row.key = <<req[q].on, n>>
          BY <5>1 DEF Named
        <5> QED BY <3>1, <5>1, <5>2, <1>10 DEF Named
      <4> QED BY <3>1, <4>1, <1>5 DEF Storing
    <3>4. Reporting(q)'
      BY <3>1, <1>5 DEF Reporting, Rows
    <3>5. Maintaining(q)'
      BY <3>1, <1>5 DEF Maintaining
    <3>6. Other(q)'
      BY <3>1 DEF Other
    <3> QED BY <3>2, <3>3, <3>4, <3>5, <3>6
  <2> QED BY <2>1, <2>2
<1>15. VideosNamed'
  <2>1. ASSUME NEW k \in video' \ orphans'
        PROVE  \/ clip'[k[1]] # None /\ clip'[k[1]].key = k
               \/ \E q \in Requests : req'[q].step = "store" /\ req'[q].row.key = k
    <3>1. CASE k = key
      BY <3>1, <1>7, <1>8
    <3>2. CASE k # key /\ \E q \in Requests : req[q].step = "store" /\ req[q].row.key = k
      <4>1. PICK q \in Requests : req[q].step = "store" /\ req[q].row.key = k
        BY <3>2
      <4>2. q # r
        BY <4>1, <1>5
      <4> QED BY <4>1, <4>2, <1>8
    <3> QED BY <2>1, <3>1, <3>2, <1>5 DEF VideosNamed
  <2>2. \A f \in Rows' : clip'[f].status = "READY" => \E n \in 1..puts'[f] : clip'[f].key = <<f, n>>
    <3>1. ASSUME NEW f \in Rows, clip[f].status = "READY"
          PROVE  \E n \in 1..puts'[f] : clip[f].key = <<f, n>>
      BY <3>1, <1>10 DEF VideosNamed, Rows
    <3> QED BY <3>1, <1>5 DEF Rows
  <2> QED BY <2>1, <2>2 DEF VideosNamed
<1>16. ClipsSpaced'
  BY <1>5 DEF ClipsSpaced, Rows
<1> QED BY <1>11, <1>12, <1>13, <1>14, <1>15, <1>16
LEMMA UploadCommitsKeeps ==
    ASSUME ClipInv, NEW r \in Requests, UploadCommits(r)
    PROVE  ClipInv'
<1> USE DEF ClipInv
<1>1. PICK e \in Events : e = req[r].on
  BY DEF UploadCommits, Storing
<1>2. PICK row \in Clip : row = req[r].row
  BY DEF UploadCommits, Storing
<1>3. PICK c : c = [row EXCEPT !.status = "READY", !.retain = now + Retention]
  OBVIOUS
<1>4. /\ req[r].step = "store" /\ clip' = [clip EXCEPT ![e] = c]
      /\ req' = [req EXCEPT ![r] = NoRequest]
      /\ UNCHANGED <<now, attempt, review, recorded, link, video, puts, orphans, fresh>>
  BY <1>1, <1>2, <1>3 DEF UploadCommits, Ends
<1>5. /\ req[r].holds = {e} /\ e \in Rows /\ req[r].op = "upload"
      /\ clip[e] \in Clip /\ clip[e].status = "CREATING" /\ clip[e].key = None
      /\ row.at = clip[e].at /\ Named(e, row.key)
  BY <1>1, <1>2, <1>4 DEF Storing, Creating, Types, Rows, RowsInv
<1>6. c \in Clip /\ c.status = "READY" /\ c.key = row.key /\ c.at = row.at
  <2>1. now + Retention \in Nat
    BY ClipConstants DEF Types, ClipTypeOK
  <2> QED BY <1>3, <2>1 DEF Clip, Status
<1>7. row.key # None
  BY <1>5, NoneIsNothing DEF Named, Keys
<1>8. clip'[e] = c /\ \A f \in Events \ {e} : clip'[f] = clip[f]
  BY <1>4 DEF Types
<1>9. Rows' = Rows
  BY <1>5, <1>6, <1>8, NoneIsNoClip DEF Rows
<1>10. req'[r] = NoRequest /\ \A q \in Requests \ {r} : req'[q] = req[q] /\ e \notin req[q].holds
  BY <1>4, <1>5 DEF Types, Apart, Request
<1>11. Types'
  <2>1. clip' \in [Events -> Clip \cup {None}] /\ req' \in [Requests -> Request]
    BY <1>4, <1>6, NoRequestFits DEF Types
  <2>2. ClipTypeOK'
    BY <2>1, <1>4 DEF Types, ClipTypeOK
  <2> QED BY <2>1, <2>2, <1>4 DEF Types
<1>12. RowsInv'
  <2>1. ASSUME NEW f \in Rows
        PROVE  (/\ recorded[f] # None
                /\ clip[f].at <= now
                /\ clip[f].key # None => Named(f, clip[f].key)
                /\ clip[f].status = "CREATING" => clip[f].key = None
                /\ clip[f].status = "READY" => clip[f].key # None)'
    <3>1. CASE f = e
      <4>1. recorded[e] # None /\ clip[e].at <= now
        BY <1>5 DEF RowsInv
      <4>2. /\ clip'[e].key = row.key /\ clip'[e].status = "READY"
            /\ clip'[e].at = clip[e].at
        BY <1>5, <1>6, <1>8
      <4>3. (\E n \in 1..puts[e] : clip[e].key = <<e, n>>)'
        BY <1>4, <1>5, <4>2 DEF Named
      <4> QED BY <3>1, <4>1, <4>2, <4>3, <1>4, <1>7 DEF Named
    <3>2. CASE f # e
      BY <3>2, <1>4, <1>8 DEF RowsInv, Named, Rows
    <3> QED BY <3>1, <3>2
  <2> QED BY <2>1, <1>9 DEF RowsInv
<1>13. Apart'
  BY <1>10, NoRequestIs, NoneIsNothing DEF Apart
<1>14. ASSUME NEW q \in Requests
       PROVE  (Writing(q) /\ Storing(q) /\ Reporting(q) /\ Maintaining(q) /\ Other(q))'
  <2>1. CASE q = r
    BY <2>1, <1>10, NoRequestIs, NoneIsNothing DEF Writing, Storing, Reporting, Maintaining, Other
  <2>2. CASE q # r
    <3>1. /\ Writing(q) /\ Storing(q) /\ Reporting(q) /\ Maintaining(q) /\ Other(q)
          /\ req'[q] = req[q] /\ \A f \in req[q].holds : clip'[f] = clip[f]
      BY <2>2, <1>8, <1>10 DEF Types, Request
    <3>2. Writing(q)'
      BY <3>1, <1>9 DEF Writing
    <3>3. Storing(q)'
      BY <3>1, <1>4 DEF Storing, Named
    <3>4. Reporting(q)'
      <4>1. \A f \in Rows : clip'[f].at = clip[f].at
        BY <1>5, <1>6, <1>8 DEF Rows
      <4> QED BY <3>1, <4>1, <1>4, <1>9 DEF Reporting
    <3>5. Maintaining(q)'
      BY <3>1, <1>4 DEF Maintaining
    <3>6. Other(q)'
      BY <3>1 DEF Other
    <3> QED BY <3>2, <3>3, <3>4, <3>5, <3>6
  <2> QED BY <2>1, <2>2
<1>15. VideosNamed'
  <2>1. ASSUME NEW k \in video' \ orphans'
        PROVE  \/ clip'[k[1]] # None /\ clip'[k[1]].key = k
               \/ \E q \in Requests : req'[q].step = "store" /\ req'[q].row.key = k
    <3>1. k \in video \ orphans /\ k[1] \in Events /\ k # None
      BY <2>1, <1>4, NoneIsNothing DEF Types, ClipTypeOK, Keys
    <3>2. CASE clip[k[1]] # None /\ clip[k[1]].key = k
      <4>1. k[1] # e
        BY <3>1, <3>2, <1>5
      <4> QED BY <3>1, <3>2, <4>1, <1>8
    <3>3. CASE \E q \in Requests : req[q].step = "store" /\ req[q].row.key = k
      <4>1. PICK q \in Requests : req[q].step = "store" /\ req[q].row.key = k
        BY <3>3
      <4>2. CASE q = r
        <5>1. row.key = k /\ k[1] = e
          BY <4>1, <4>2, <1>2, <1>5, SMTT(60) DEF Named
        <5> QED BY <5>1, <1>6, <1>8, NoneIsNoClip
      <4>3. CASE q # r
        BY <4>1, <4>3, <1>10
      <4> QED BY <4>2, <4>3
    <3> QED BY <3>1, <3>2, <3>3 DEF VideosNamed
  <2>2. ASSUME NEW f \in Rows', clip'[f].status = "READY"
        PROVE  \E n \in 1..puts'[f] : clip'[f].key = <<f, n>>
    <3>1. CASE f = e
      BY <3>1, <1>4, <1>5, <1>6, <1>8 DEF Named
    <3>2. CASE f # e
      <4>1. f \in Rows /\ clip'[f] = clip[f]
        BY <2>2, <3>2, <1>8, <1>9 DEF Rows
      <4>2. \E n \in 1..puts[f] : clip[f].key = <<f, n>>
        BY <2>2, <4>1 DEF VideosNamed
      <4> QED BY <4>1, <4>2, <1>4
    <3> QED BY <3>1, <3>2
  <2> QED BY <2>1, <2>2 DEF VideosNamed
<1>16. ClipsSpaced'
  <2>1. \A f \in Events : clip[f] # None => clip'[f] # None /\ clip'[f].at = clip[f].at
    BY <1>5, <1>6, <1>8, NoneIsNoClip
  <2>2. \A f \in Events : link[f] # None => link[f] \in Events
    BY DEF Types
  <2> QED BY <2>1, <2>2, <1>4, <1>9 DEF ClipsSpaced, Rows
<1> QED BY <1>11, <1>12, <1>13, <1>14, <1>15, <1>16

LEMMA FailureKeeps ==
    ASSUME ClipInv, NEW e \in Events, ReportFailure(e)
    PROVE  ClipInv'
<1> USE DEF ClipInv
<1>1. e \in Rows /\ clip[e] \in Clip
  BY DEF ReportFailure, Creating, Types, Rows
<1>2. /\ Failed(clip[e]) \in Clip /\ Failed(clip[e]).status = "FAILED"
      /\ Failed(clip[e]).key = clip[e].key /\ Failed(clip[e]).at = clip[e].at
  BY <1>1 DEF Failed, Clip, Status
<1>3. clip' = [clip EXCEPT ![e] = Failed(clip[e])]
  BY DEF ReportFailure, Types
<1>4. clip' \in [Events -> Clip \cup {None}] /\ OnlyCloses
  BY <1>1, <1>2, <1>3 DEF OnlyCloses, Closes, Types
<1>5. \A q \in Requests : req'[q] = req[q] /\ \A f \in req[q].holds : clip'[f] = clip[f]
  BY <1>3 DEF ReportFailure, Locked, Types, Request
<1>6. req' \in [Requests -> Request]
  BY DEF ReportFailure, Types
<1> QED BY <1>4, <1>5, <1>6, ClosingKeeps DEF ReportFailure

LEMMA ListKeeps ==
    ASSUME ClipInv, ListClips
    PROVE  ClipInv'
<1> USE DEF ClipInv
<1>1. \A e \in Swept : /\ e \in Rows /\ ~Locked(e) /\ Sweeping[e] \in Clip
                       /\ Sweeping[e].status = "FAILED"
                       /\ Sweeping[e].key = clip[e].key /\ Sweeping[e].at = clip[e].at
  BY SweepingFits DEF Clip
<1>2. clip' = [e \in Events |-> IF e \in Swept THEN Sweeping[e] ELSE clip[e]]
  BY SweepingFits DEF ListClips, Written
<1>3. clip' \in [Events -> Clip \cup {None}] /\ OnlyCloses
  BY <1>1, <1>2 DEF OnlyCloses, Closes, Types
<1>4. \A q \in Requests : req'[q] = req[q] /\ \A f \in req[q].holds : clip'[f] = clip[f]
  BY <1>1, <1>2 DEF ListClips, Locked, Types, Request
<1>5. req' \in [Requests -> Request]
  BY DEF ListClips, Types
<1> QED BY <1>3, <1>4, <1>5, ClosingKeeps DEF ListClips
LEMMA FinalizeKeeps == ASSUME ClipInv, Finalize PROVE ClipInv'
<1> USE DEF ClipInv
<1>1. Types'
  BY DEF Finalize, rowVars, Types, ClipTypeOK
<1>2. \A q \in Requests : req[q].op # "event"
  BY DEF Finalize, AttemptLocked
<1>3. RowsInv' /\ Apart'
  BY DEF Finalize, rowVars, RowsInv, Apart, Rows, Named
<1>4. ASSUME NEW q \in Requests
      PROVE  (Writing(q) /\ Storing(q) /\ Reporting(q) /\ Maintaining(q) /\ Other(q))'
  <2>1. Writing(q) /\ Storing(q) /\ Reporting(q) /\ Maintaining(q) /\ Other(q)
    OBVIOUS
  <2>2. Reporting(q)'
    BY <1>2 DEF Finalize, Reporting
  <2>3. Writing(q)' /\ Storing(q)'
    BY <2>1 DEF Finalize, rowVars, Writing, Storing, Rows, Named
  <2>4. Maintaining(q)' /\ Other(q)'
    BY <2>1 DEF Finalize, rowVars, Maintaining, Other
  <2> QED BY <2>2, <2>3, <2>4
<1>5. VideosNamed' /\ ClipsSpaced'
  BY DEF Finalize, rowVars, VideosNamed, ClipsSpaced, Rows
<1> QED BY <1>1, <1>3, <1>4, <1>5

-----------------------------------------------------------------------------
(* Administrators. *)

LEMMA ReadKeeps ==
    ASSUME ClipInv, NEW r \in Requests, NEW e \in Events, NEW op \in {"view", "delete"},
           ReadClip(r, e, op)
    PROVE  ClipInv'
<1> USE DEF ClipInv
<1>1. clip[e] \in Clip
  BY DEF ReadClip, Types
<1>2. PICK row \in Clip, step \in {"erase", "write"} :
         /\ row.status \in {"FAILED", "DELETED"}
         /\ Opens(r, [NoRequest EXCEPT !.op = op, !.step = step, !.on = e, !.row = row])
  <2>1. CASE op = "view"
    <3>1. Opens(r, [NoRequest EXCEPT !.op = "view", !.step = "write", !.on = e, !.row = Failed(clip[e])])
      BY <2>1 DEF ReadClip
    <3>2. Failed(clip[e]) \in Clip /\ Failed(clip[e]).status = "FAILED"
      BY <1>1 DEF Failed, Clip, Status
    <3> QED BY <2>1, <3>1, <3>2
  <2>2. CASE op = "delete"
    <3>1. PICK step \in {"erase", "write"} : step = IF clip[e].status = "READY" THEN "erase" ELSE "write"
      OBVIOUS
    <3>2. PICK row : row = [clip[e] EXCEPT !.status = "DELETED"]
      OBVIOUS
    <3>3. row \in Clip /\ row.status = "DELETED"
      BY <1>1, <3>2 DEF Clip, Status
    <3>4. Opens(r, [NoRequest EXCEPT !.op = "delete", !.on = e, !.step = step, !.row = row])
      BY <2>2, <3>1, <3>2 DEF ReadClip
    <3>5. [NoRequest EXCEPT !.op = "delete", !.on = e, !.step = step, !.row = row]
            = [NoRequest EXCEPT !.op = op, !.step = step, !.on = e, !.row = row]
      BY <2>2 DEF NoRequest
    <3> QED BY <3>3, <3>4, <3>5
  <2> QED BY <2>1, <2>2
<1>3. PICK x : x = [NoRequest EXCEPT !.op = op, !.step = step, !.on = e, !.row = row]
  OBVIOUS
<1>4. /\ req[r].op = None /\ req' = [req EXCEPT ![r] = x]
      /\ UNCHANGED <<now, attempt, review, recorded, link, clip, video, puts, orphans, fresh>>
  BY <1>2, <1>3 DEF ReadClip, Opens, Busy, rowVars
<1>5. /\ x \in Request
      /\ x.op = op /\ x.step = step /\ x.on = e /\ x.row = row
      /\ x.holds = {} /\ x.left = {} /\ DOMAIN x.write = {}
  BY <1>3, NoRequestFits, NoRequestIs DEF Request, Step
<1>6. req'[r] = x
  BY <1>4 DEF Types
<1>7. (Writing(r) /\ Storing(r) /\ Reporting(r) /\ Maintaining(r) /\ Other(r))'
  BY <1>2, <1>5, <1>6, NoneIsNothing DEF Writing, Storing, Reporting, Maintaining, Other
<1>8. req[r].step # "store"
  BY <1>4, NoRequestIs, NoneIsNothing DEF Other
<1> QED BY <1>4, <1>5, <1>7, <1>8, MovingKeeps DEF Types, ClipTypeOK

LEMMA EraseKeeps ==
    ASSUME ClipInv, NEW r \in Requests, Erases(r)
    PROVE  ClipInv'
<1> USE DEF ClipInv
<1>1. PICK x : x = [req[r] EXCEPT !.step = "write"]
  OBVIOUS
<1>2. /\ req[r].op = "delete" /\ req[r].step = "erase" /\ req' = [req EXCEPT ![r] = x]
      /\ video' \subseteq video
      /\ UNCHANGED <<now, attempt, review, recorded, link, clip, puts, orphans, fresh>>
  BY <1>1 DEF Erases, Continues, rowVars
<1>3. /\ x \in Request
      /\ x.op = "delete" /\ x.step = "write" /\ x.on = req[r].on /\ x.row = req[r].row
      /\ x.holds = req[r].holds /\ x.left = req[r].left /\ x.write = req[r].write
  BY <1>1, <1>2 DEF Types, Request, Step
<1>4. req'[r] = x
  BY <1>2 DEF Types
<1>5. Writing(r) /\ Maintaining(r) /\ Other(r)
  OBVIOUS
<1>6. (Writing(r) /\ Storing(r) /\ Reporting(r) /\ Maintaining(r) /\ Other(r))'
  <2>1. Writing(r)'
    BY <1>2, <1>3, <1>4, <1>5 DEF Writing, Rows
  <2>2. Storing(r)' /\ Reporting(r)' /\ Maintaining(r)'
    BY <1>3, <1>4 DEF Storing, Reporting, Maintaining
  <2>3. Other(r)'
    BY <1>2, <1>3, <1>4, <1>5, NoneIsNothing DEF Other
  <2> QED BY <2>1, <2>2, <2>3
<1>7. \A q \in Requests \ {r} : x.holds \cap req[q].holds = {} /\ ~(x.op = "event" /\ req[q].op = "event")
  BY <1>3 DEF Apart
<1> QED BY <1>2, <1>3, <1>6, <1>7, MovingKeeps DEF Types, ClipTypeOK

LEMMA EraseFailsKeeps ==
    ASSUME ClipInv, NEW r \in Requests, EraseFails(r)
    PROVE  ClipInv'
<1> USE DEF ClipInv
<1>1. req' = [req EXCEPT ![r] = NoRequest] /\ req[r].step # "store"
  BY DEF EraseFails, Ends
<1>2. req' \in [Requests -> Request] /\ \A q \in Requests : req'[q] = IF q = r THEN NoRequest ELSE req[q]
  BY <1>1, NoRequestFits DEF Types
<1>3. clip' \in [Events -> Clip \cup {None}] /\ OnlyCloses
  BY DEF EraseFails, rowVars, OnlyCloses, Types
<1> QED BY <1>1, <1>2, <1>3, ClosingKeeps DEF EraseFails, rowVars

LEMMA WritesStatusKeeps ==
    ASSUME ClipInv, NEW r \in Requests, WritesStatus(r)
    PROVE  ClipInv'
<1> USE DEF ClipInv
<1>1. PICK e \in Events : e = req[r].on
  BY DEF WritesStatus, Other
<1>2. PICK s \in {"FAILED", "DELETED"} : s = req[r].row.status
  BY DEF WritesStatus, Other
<1>3. PICK c : c = IF clip[e] = None THEN None ELSE [clip[e] EXCEPT !.status = s]
  OBVIOUS
<1>4. /\ req[r].step = "write" /\ ~Locked(e) /\ clip' = [clip EXCEPT ![e] = c]
      /\ req' = [req EXCEPT ![r] = NoRequest]
      /\ UNCHANGED <<now, attempt, review, recorded, link, video, puts, orphans, fresh>>
  BY <1>1, <1>2, <1>3 DEF WritesStatus, Ends, Types
<1>5. CASE clip[e] = None
  <2>1. UNCHANGED clip
    BY <1>3, <1>4, <1>5 DEF Types
  <2>2. clip' \in [Events -> Clip \cup {None}] /\ OnlyCloses
    BY <2>1 DEF OnlyCloses, Types
  <2>3. req' \in [Requests -> Request] /\ \A q \in Requests : req'[q] = IF q = r THEN NoRequest ELSE req[q]
    BY <1>4, NoRequestFits DEF Types
  <2> QED BY <1>4, <2>1, <2>2, <2>3, ClosingKeeps
<1>6. CASE clip[e] # None
  <2>1. e \in Rows /\ clip[e] \in Clip
    BY <1>6 DEF Types, Rows
  <2>2. c \in Clip /\ c.status = s /\ c.key = clip[e].key /\ c.at = clip[e].at
    BY <1>3, <1>6, <2>1 DEF Clip, Status
  <2>3. clip' \in [Events -> Clip \cup {None}] /\ OnlyCloses
    BY <1>4, <2>1, <2>2 DEF OnlyCloses, Closes, Types
  <2>4. req' \in [Requests -> Request] /\ \A q \in Requests : req'[q] = IF q = r THEN NoRequest ELSE req[q]
    BY <1>4, NoRequestFits DEF Types
  <2>5. \A q \in Requests : \A f \in req[q].holds : clip'[f] = clip[f]
    BY <1>4 DEF Locked, Types, Request
  <2> QED BY <1>4, <2>3, <2>4, <2>5, ClosingKeeps
<1> QED BY <1>5, <1>6

LEMMA ReviewKeeps ==
    ASSUME ClipInv, StartReview \/ CompleteReview
    PROVE  ClipInv'
<1> USE DEF ClipInv
<1>1. /\ review' \in {"IN_REVIEW", "REVIEWED"} /\ fresh' \subseteq Requests
      /\ review' = "IN_REVIEW" => fresh' = {r \in Requests : req[r].step \in {"delete", "purge"}}
      /\ UNCHANGED <<now, attempt, recorded, link, clip, video, puts, req, orphans>>
  BY DEF StartReview, CompleteReview, rowVars, Types, ClipTypeOK
<1>2. Types'
  BY <1>1 DEF Types, ClipTypeOK
<1>3. RowsInv' /\ Apart'
  BY <1>1 DEF RowsInv, Apart, Rows, Named
<1>4. ASSUME NEW q \in Requests
      PROVE  (Writing(q) /\ Storing(q) /\ Reporting(q) /\ Maintaining(q) /\ Other(q))'
  <2>1. Writing(q) /\ Storing(q) /\ Reporting(q) /\ Maintaining(q) /\ Other(q)
    OBVIOUS
  <2>2. Writing(q)' /\ Storing(q)'
    BY <1>1, <2>1 DEF Writing, Storing, Rows, Named
  <2>3. Reporting(q)' /\ Other(q)'
    BY <1>1, <2>1 DEF Reporting, Other, Rows
  <2>4. Maintaining(q)'
    BY <1>1, <2>1 DEF Maintaining
  <2> QED BY <2>2, <2>3, <2>4
<1>5. VideosNamed' /\ ClipsSpaced'
  BY <1>1 DEF VideosNamed, ClipsSpaced, Rows
<1> QED BY <1>2, <1>3, <1>4, <1>5
-----------------------------------------------------------------------------
(* The maintenance run. *)

LEMMA MaintenanceStartsKeeps ==
    ASSUME ClipInv, NEW r \in Requests, MaintenanceStarts(r)
    PROVE  ClipInv'
<1> USE DEF ClipInv
<1>1. PICK x : x = [NoRequest EXCEPT !.op = "maintain", !.step = "hold", !.holds = Swept \cup Due,
                                     !.write = Sweeping, !.left = {clip[e].key : e \in Due}]
  OBVIOUS
<1>2. /\ req[r].op = None /\ req' = [req EXCEPT ![r] = x] /\ fresh' = fresh \ {r}
      /\ UNCHANGED <<now, attempt, review, recorded, link, clip, video, puts, orphans>>
  BY <1>1 DEF MaintenanceStarts, Opens, Busy, rowVars
<1>3. \A e \in Due : /\ e \in Rows /\ e \in Events /\ ~Locked(e)
                     /\ clip[e].key \in Keys /\ clip[e].key[1] = e
  <2> SUFFICES ASSUME NEW e \in Due
               PROVE  e \in Rows /\ e \in Events /\ ~Locked(e) /\ clip[e].key \in Keys /\ clip[e].key[1] = e
    OBVIOUS
  <2>1. e \in Rows /\ e \in Events /\ ~Locked(e) /\ clip[e].status = "READY"
    BY DEF Due, Rows
  <2>2. PICK n \in 1..puts[e] : clip[e].key = <<e, n>>
    BY <2>1 DEF VideosNamed
  <2>3. n \in Nat \ {0}
    BY <2>1 DEF Types
  <2> QED BY <2>1, <2>2, <2>3 DEF Keys
<1>4. /\ x \in Request
      /\ x.op = "maintain" /\ x.step = "hold" /\ x.holds = Swept \cup Due /\ x.write = Sweeping
      /\ x.left = {clip[e].key : e \in Due}
  <2>1. Swept \cup Due \subseteq Events /\ {clip[e].key : e \in Due} \subseteq Keys
    BY <1>3, SweepingFits DEF Rows
  <2> QED BY <1>1, <2>1, SweepingFits, NoRequestFits, NoRequestIs DEF Request, Step
<1>5. req'[r] = x
  BY <1>2 DEF Types
<1>6. (Writing(r) /\ Storing(r) /\ Reporting(r) /\ Maintaining(r) /\ Other(r))'
  <2>1. Writing(r)'
    <3>1. \A e \in Swept : /\ Sweeping[e].status = "FAILED"
                           /\ Sweeping[e].key = clip[e].key /\ Sweeping[e].at = clip[e].at
      BY SweepingFits DEF Clip
    <3>2. Swept \cup Due \subseteq Rows /\ DOMAIN Sweeping = Swept
      BY <1>3, SweepingFits
    <3> QED BY <1>2, <1>4, <1>5, <3>1, <3>2 DEF Writing, Rows
  <2>2. Storing(r)' /\ Reporting(r)' /\ Other(r)'
    BY <1>4, <1>5, NoneIsNothing DEF Storing, Reporting, Other
  <2>3. Maintaining(r)'
    BY <1>2, <1>3, <1>4, <1>5 DEF Maintaining
  <2> QED BY <2>1, <2>2, <2>3
<1>7. \A q \in Requests \ {r} : x.holds \cap req[q].holds = {} /\ ~(x.op = "event" /\ req[q].op = "event")
  BY <1>3, <1>4, SweepingFits DEF Locked
<1>8. req[r].step # "store"
  BY <1>2, NoRequestIs, NoneIsNothing DEF Other
<1> QED BY <1>2, <1>4, <1>6, <1>7, <1>8, MovingKeeps DEF Types, ClipTypeOK

\* A run that keeps its operation, its locks and its writes.
LEMMA RunMovesKeeps ==
    ASSUME ClipInv, NEW r \in Requests, NEW s \in {"delete", "purge", "commit"}, NEW L \in SUBSET Keys,
           req[r].op = "maintain",
           req' = [req EXCEPT ![r] = [req[r] EXCEPT !.step = s, !.left = L]],
           s = "delete" => req[r].step \in {"hold", "delete"} /\ L \subseteq req[r].left,
           s \in {"delete", "purge"} /\ L # {} /\ review = "IN_REVIEW" => r \in fresh,
           video' \subseteq video,
           UNCHANGED <<now, attempt, review, recorded, link, clip, puts, orphans, fresh>>
    PROVE  ClipInv'
<1> USE DEF ClipInv
<1>1. PICK x : x = [req[r] EXCEPT !.step = s, !.left = L]
  OBVIOUS
<1>2. /\ x \in Request
      /\ x.op = "maintain" /\ x.step = s /\ x.left = L
      /\ x.holds = req[r].holds /\ x.write = req[r].write
  BY <1>1 DEF Types, Request, Step
<1>3. req' = [req EXCEPT ![r] = x] /\ req'[r] = x
  BY <1>1 DEF Types
<1>4. Writing(r) /\ Maintaining(r) /\ Storing(r)
  OBVIOUS
<1>5. (Writing(r) /\ Storing(r) /\ Reporting(r) /\ Maintaining(r) /\ Other(r))'
  <2>1. Writing(r)'
    BY <1>2, <1>3, <1>4 DEF Writing, Rows
  <2>2. Storing(r)' /\ Reporting(r)' /\ Other(r)'
    BY <1>2, <1>3, NoneIsNothing DEF Storing, Reporting, Other
  <2>3. Maintaining(r)'
    BY <1>2, <1>3, <1>4 DEF Maintaining
  <2> QED BY <2>1, <2>2, <2>3
<1>6. \A q \in Requests \ {r} : x.holds \cap req[q].holds = {} /\ ~(x.op = "event" /\ req[q].op = "event")
  BY <1>2 DEF Apart
<1>7. req[r].step # "store"
  BY <1>4 DEF Storing
<1> QED BY <1>2, <1>3, <1>5, <1>6, <1>7, MovingKeeps DEF Types, ClipTypeOK

LEMMA ReadsHoldsKeeps ==
    ASSUME ClipInv, NEW r \in Requests, ReadsHolds(r)
    PROVE  ClipInv'
<1> USE DEF ClipInv
<1>1. PICK L \in SUBSET Keys : L = IF review = "IN_REVIEW" THEN {} ELSE req[r].left
  BY DEF Types, Request
<1>2. req[r].op = "maintain" /\ req[r].step = "hold"
  BY DEF ReadsHolds, Maintaining
<1>3. req' = [req EXCEPT ![r] = [req[r] EXCEPT !.step = "delete", !.left = L]]
  BY <1>1 DEF ReadsHolds, Continues, Held, Types, Request
<1> QED BY <1>1, <1>2, <1>3, RunMovesKeeps DEF ReadsHolds, rowVars

LEMMA DeletesKeeps ==
    ASSUME ClipInv, NEW r \in Requests, NEW k \in req[r].left, DeletesVideo(r, k)
    PROVE  ClipInv'
<1> USE DEF ClipInv
<1>1. /\ req[r].op = "maintain" /\ req[r].step = "delete"
      /\ k \in Keys /\ k[1] \in req[r].holds /\ clip[k[1]].key = k
      /\ k[1] \in Rows /\ k[1] \in Events /\ clip[k[1]] \in Clip
  BY DEF DeletesVideo, Maintaining, Writing, Types, Request, Rows
<1>2. CASE req' = [req EXCEPT ![r] = [req[r] EXCEPT !.left = req[r].left \ {k}]] /\ UNCHANGED video
  <2>1. req[r].left \ {k} \in SUBSET Keys
    BY DEF Types, Request
  <2>2. [req[r] EXCEPT !.left = req[r].left \ {k}] = [req[r] EXCEPT !.step = "delete", !.left = req[r].left \ {k}]
    BY <1>1 DEF Types, Request
  <2>3. review = "IN_REVIEW" => r \in fresh
    BY <1>1 DEF Maintaining
  <2> QED BY <1>1, <1>2, <2>1, <2>2, <2>3, RunMovesKeeps DEF DeletesVideo, rowVars
<1>3. CASE /\ video' = video \ {k}
           /\ req' = [req EXCEPT ![r] = [req[r] EXCEPT
                        !.left = req[r].left \ {k},
                        !.write = Adding(req[r].write, k[1], [clip[k[1]] EXCEPT !.status = "EXPIRED"])]]
  <2>1. PICK c \in Clip : c = [clip[k[1]] EXCEPT !.status = "EXPIRED"]
    BY <1>1 DEF Clip, Status
  <2>2. c.status = "EXPIRED" /\ c.key = clip[k[1]].key /\ c.at = clip[k[1]].at
    BY <1>1, <2>1 DEF Clip, Status
  <2>3. PICK w \in Writes : w = req[r].write
    BY DEF Types, Request
  <2>4. PICK v : v = Adding(w, k[1], c)
    OBVIOUS
  <2>5. /\ v \in Writes /\ DOMAIN v = DOMAIN w \cup {k[1]}
        /\ \A f \in DOMAIN w \cup {k[1]} : v[f] = IF f = k[1] THEN c ELSE w[f]
    <3>1. PICK e \in Events : e = k[1]
      BY <1>1
    <3>2. v = Adding(w, e, c)
      BY <2>4, <3>1
    <3>3. v \in Writes
      BY <3>2, AddingFits
    <3>4. DOMAIN v = DOMAIN w \cup {e} /\ \A f \in DOMAIN w \cup {e} : v[f] = IF f = e THEN c ELSE w[f]
      BY <3>2 DEF Adding
    <3> QED BY <3>1, <3>3, <3>4
  <2>6. PICK x : x = [req[r] EXCEPT !.left = req[r].left \ {k}, !.write = v]
    OBVIOUS
  <2>7. /\ x \in Request
        /\ x.op = "maintain" /\ x.step = "delete" /\ x.left = req[r].left \ {k}
        /\ x.holds = req[r].holds /\ x.write = v
    BY <1>1, <2>5, <2>6, ZenonT(60) DEF Types, Request
  <2>8. req' = [req EXCEPT ![r] = x] /\ req'[r] = x
    BY <1>3, <2>1, <2>3, <2>4, <2>6 DEF Types
  <2>9. UNCHANGED <<now, attempt, review, recorded, link, clip, puts, orphans, fresh>>
    BY DEF DeletesVideo, rowVars
  <2>10. (Writing(r) /\ Storing(r) /\ Reporting(r) /\ Maintaining(r) /\ Other(r))'
    <3>1. ASSUME NEW f \in DOMAIN v
          PROVE  /\ f \in req[r].holds
                 /\ v[f].status \in {"FAILED", "EXPIRED"}
                 /\ v[f].key = clip[f].key /\ v[f].at = clip[f].at
      <4>1. CASE f = k[1]
        BY <4>1, <1>1, <2>2, <2>5
      <4>2. CASE f # k[1]
        BY <4>2, <1>1, <2>3, <2>5 DEF Writing
      <4> QED BY <4>1, <4>2
    <3>2. Writing(r)'
      BY <3>1, <2>7, <2>8, <2>9 DEF Writing, Rows
    <3>3. Storing(r)' /\ Reporting(r)' /\ Other(r)'
      BY <2>7, <2>8, NoneIsNothing DEF Storing, Reporting, Other
    <3>4. Maintaining(r)'
      <4>1. /\ \A j \in req[r].left : j[1] \in req[r].holds /\ clip[j[1]].key = j
            /\ review = "IN_REVIEW" => r \in fresh
        BY <1>1 DEF Maintaining
      <4> QED BY <4>1, <2>7, <2>8, <2>9 DEF Maintaining
    <3> QED BY <3>2, <3>3, <3>4
  <2>11. \A q \in Requests \ {r} : x.holds \cap req[q].holds = {} /\ ~(x.op = "event" /\ req[q].op = "event")
    BY <2>7 DEF Apart
  <2> QED BY <1>1, <1>3, <2>7, <2>8, <2>9, <2>10, <2>11, MovingKeeps DEF Types, ClipTypeOK
<1> QED BY <1>2, <1>3 DEF DeletesVideo, Continues, Types, Request

LEMMA LooksKeeps ==
    ASSUME ClipInv, NEW r \in Requests, LooksForPurge(r)
    PROVE  ClipInv'
<1> USE DEF ClipInv
<1>1. StillReady(r) \subseteq Keys
  <2> SUFFICES ASSUME NEW e \in Rows, Written(req[r].write)[e].status = "READY"
               PROVE  Written(req[r].write)[e].key \in Keys
    BY DEF StillReady
  <2>1. e \in Events
    BY DEF Rows
  <2>2. PICK w \in Writes : w = req[r].write
    BY DEF Types, Request
  <2>3. e \notin DOMAIN w
    <3>1. req[r].op = "maintain"
      BY DEF LooksForPurge
    <3> QED BY <2>1, <2>2, <3>1 DEF Written, Writing
  <2>4. Written(req[r].write)[e] = clip[e] /\ clip[e] \in Clip
    BY <2>1, <2>2, <2>3 DEF Written, Types, Rows
  <2> QED BY <2>4 DEF RowsInv, Clip
<1>2. PICK s \in {"purge", "commit"}, L \in SUBSET Keys :
         /\ s = IF Purgeable THEN "purge" ELSE "commit"
         /\ L = IF Purgeable THEN StillReady(r) ELSE {}
  BY <1>1
<1>3. s = "purge" => review # "IN_REVIEW"
  BY <1>2 DEF Purgeable, Held
<1>4. req' = [req EXCEPT ![r] = [req[r] EXCEPT !.step = s, !.left = L]] /\ req[r].op = "maintain"
  BY <1>2 DEF LooksForPurge, Continues
<1> QED BY <1>3, <1>4, RunMovesKeeps DEF LooksForPurge, rowVars

LEMMA PurgesKeeps ==
    ASSUME ClipInv, NEW r \in Requests, NEW k \in req[r].left, PurgesVideo(r, k)
    PROVE  ClipInv'
<1> USE DEF ClipInv
<1>1. req[r].op = "maintain" /\ req[r].step = "purge" /\ req[r] \in Request
  BY DEF PurgesVideo, Maintaining, Types
<1>2. review = "IN_REVIEW" => r \in fresh
  BY <1>1 DEF Maintaining
<1>3. CASE req' = [req EXCEPT ![r] = [req[r] EXCEPT !.left = req[r].left \ {k}]] /\ video' = video \ {k}
  <2>1. req[r].left \ {k} \in SUBSET Keys
    BY <1>1 DEF Request
  <2>2. [req[r] EXCEPT !.left = req[r].left \ {k}] = [req[r] EXCEPT !.step = "purge", !.left = req[r].left \ {k}]
    BY <1>1 DEF Request
  <2> QED BY <1>1, <1>2, <1>3, <2>1, <2>2, RunMovesKeeps DEF PurgesVideo, rowVars
<1>4. CASE req' = [req EXCEPT ![r] = [req[r] EXCEPT !.step = "commit", !.left = {}]] /\ UNCHANGED video
  <2>1. PICK L \in SUBSET Keys : L = {}
    OBVIOUS
  <2>2. req' = [req EXCEPT ![r] = [req[r] EXCEPT !.step = "commit", !.left = L]] /\ video' \subseteq video
    BY <1>4, <2>1
  <2> QED BY <1>1, <2>1, <2>2, RunMovesKeeps DEF PurgesVideo, rowVars
<1> QED BY <1>3, <1>4 DEF PurgesVideo, Continues, Types, Request
\* The attempt is deleted: no row is left, no other request holds one, and every video is an orphan.
LEMMA PurgeCommitsKeeps ==
    ASSUME ClipInv, NEW r \in Requests, PurgeCommits(r)
    PROVE  ClipInv'
<1> USE DEF ClipInv
<1>1. /\ attempt' = [attempt EXCEPT !.status = "GONE"] /\ review' = None
      /\ clip' = [e \in Events |-> None] /\ link' = [e \in Events |-> None]
      /\ recorded' = [e \in Events |-> None]
      /\ orphans' = orphans \cup video
      /\ req' = [req EXCEPT ![r] = NoRequest]
      /\ UNCHANGED <<now, video, puts, fresh>>
  BY DEF PurgeCommits, Ends
<1>2. \A q \in Requests \ {r} : req'[q] = req[q] /\ req[q].holds = {} /\ req[q].op # "event"
  BY <1>1 DEF PurgeCommits, AttemptLocked, Types
<1>3. req'[r] = NoRequest
  BY <1>1 DEF Types
<1>4. Rows' = {}
  BY <1>1 DEF Rows
<1>5. Types'
  <2>1. req' \in [Requests -> Request]
    BY <1>1, NoRequestFits DEF Types
  <2>2. attempt' \in [status : {"OPEN", "FINAL", "GONE"}, ended : Nat \cup {None}]
    BY <1>1 DEF Types, ClipTypeOK
  <2>3. ClipTypeOK'
    BY <1>1, <2>2 DEF Types, ClipTypeOK
  <2> QED BY <1>1, <2>1, <2>3 DEF Types
<1>6. RowsInv'
  BY <1>4, FS_EmptySet DEF RowsInv
<1>7. Apart'
  BY <1>2, <1>3, NoRequestIs, NoneIsNothing DEF Apart
<1>8. ASSUME NEW q \in Requests
      PROVE  (Writing(q) /\ Storing(q) /\ Reporting(q) /\ Maintaining(q) /\ Other(q))'
  <2>1. CASE q = r
    BY <2>1, <1>3, NoRequestIs, NoneIsNothing DEF Writing, Storing, Reporting, Maintaining, Other
  <2>2. CASE q # r
    <3>1. /\ Writing(q) /\ Storing(q) /\ Reporting(q) /\ Maintaining(q) /\ Other(q)
          /\ req'[q] = req[q] /\ req[q].holds = {} /\ req[q].op # "event"
      BY <2>2, <1>2
    <3>2. Writing(q)' /\ Reporting(q)' /\ Other(q)'
      BY <3>1 DEF Writing, Reporting, Other
    <3>3. Storing(q)'
      BY <3>1 DEF Storing
    <3>4. Maintaining(q)'
      BY <3>1, <1>1, NoneIsNothing DEF Maintaining
    <3> QED BY <3>2, <3>3, <3>4
  <2> QED BY <2>1, <2>2
<1>9. VideosNamed'
  BY <1>1, <1>4 DEF VideosNamed
<1>10. ClipsSpaced'
  BY <1>1, <1>4, FS_EmptySet, ClipConstants DEF ClipsSpaced
<1> QED BY <1>5, <1>6, <1>7, <1>8, <1>9, <1>10

LEMMA MaintenanceCommitsKeeps ==
    ASSUME ClipInv, NEW r \in Requests, MaintenanceCommits(r)
    PROVE  ClipInv'
<1> USE DEF ClipInv
<1>1. PICK w \in Writes : w = req[r].write
  BY DEF Types, Request
<1>2. /\ req[r].op = "maintain" /\ req[r].step = "commit"
      /\ clip' = [e \in Events |-> IF e \in DOMAIN w THEN w[e] ELSE clip[e]]
      /\ req' = [req EXCEPT ![r] = NoRequest]
      /\ UNCHANGED <<now, attempt, review, recorded, link, video, puts, orphans, fresh>>
  BY <1>1 DEF MaintenanceCommits, Ends, Written
<1>3. \A e \in DOMAIN w : /\ e \in Events /\ e \in Rows /\ e \in req[r].holds /\ w[e] \in Clip
                          /\ w[e].status \in {"FAILED", "EXPIRED"}
                          /\ w[e].key = clip[e].key /\ w[e].at = clip[e].at
  BY <1>1, <1>2, WriteIs DEF Writing
<1>4. clip' \in [Events -> Clip \cup {None}] /\ OnlyCloses
  BY <1>2, <1>3 DEF OnlyCloses, Closes, Types
<1>5. req' \in [Requests -> Request]
  BY <1>2, NoRequestFits DEF Types
<1>6. \A q \in Requests : \/ q = r /\ req'[q] = NoRequest
                          \/ q # r /\ req'[q] = req[q] /\ \A f \in req[q].holds : clip'[f] = clip[f]
  BY <1>2, <1>3 DEF Types, Apart, Request
<1> QED BY <1>2, <1>4, <1>5, <1>6, ClosingKeeps

-----------------------------------------------------------------------------
(* Failures and time. *)

LEMMA CrashKeeps ==
    ASSUME ClipInv, NEW r \in Requests, Crash(r)
    PROVE  ClipInv'
<1> USE DEF ClipInv
<1>1. /\ req' = [req EXCEPT ![r] = NoRequest]
      /\ orphans' = IF req[r].step = "store" THEN orphans \cup {req[r].row.key} ELSE orphans
      /\ UNCHANGED <<now, attempt, review, recorded, link, clip, video, puts, fresh>>
  BY DEF Crash, Ends, rowVars
<1>2. req'[r] = NoRequest /\ \A q \in Requests \ {r} : req'[q] = req[q]
  BY <1>1 DEF Types
<1>3. req[r].step = "store" => req[r].row.key \in Keys
  <2> SUFFICES ASSUME req[r].step = "store" PROVE req[r].row.key \in Keys
    OBVIOUS
  <2>1. PICK e \in Events : e = req[r].on /\ Named(e, req[r].row.key)
    BY DEF Storing
  <2>2. PICK n \in 1..puts[e] : req[r].row.key = <<e, n>>
    BY <2>1 DEF Named
  <2>3. n \in Nat \ {0}
    BY DEF Types
  <2> QED BY <2>2, <2>3 DEF Keys
<1>4. Types'
  <2>1. req' \in [Requests -> Request]
    BY <1>1, NoRequestFits DEF Types
  <2>2. ClipTypeOK'
    BY <1>1, <1>3 DEF Types, ClipTypeOK
  <2> QED BY <1>1, <2>1, <2>2 DEF Types
<1>5. RowsInv'
  BY <1>1 DEF RowsInv, Rows, Named
<1>6. Apart'
  BY <1>2, NoRequestIs, NoneIsNothing DEF Apart
<1>7. ASSUME NEW q \in Requests
      PROVE  (Writing(q) /\ Storing(q) /\ Reporting(q) /\ Maintaining(q) /\ Other(q))'
  <2>1. CASE q = r
    BY <2>1, <1>2, NoRequestIs, NoneIsNothing DEF Writing, Storing, Reporting, Maintaining, Other
  <2>2. CASE q # r
    <3>1. /\ Writing(q) /\ Storing(q) /\ Reporting(q) /\ Maintaining(q) /\ Other(q)
          /\ req'[q] = req[q]
      BY <2>2, <1>2
    <3>2. Writing(q)' /\ Storing(q)'
      BY <3>1, <1>1 DEF Writing, Storing, Rows, Named
    <3>3. Reporting(q)' /\ Other(q)'
      BY <3>1, <1>1 DEF Reporting, Other, Rows
    <3>4. Maintaining(q)'
      BY <3>1, <1>1 DEF Maintaining
    <3> QED BY <3>2, <3>3, <3>4
  <2> QED BY <2>1, <2>2
<1>8. VideosNamed'
  <2>1. ASSUME NEW k \in video' \ orphans'
        PROVE  \/ clip'[k[1]] # None /\ clip'[k[1]].key = k
               \/ \E q \in Requests : req'[q].step = "store" /\ req'[q].row.key = k
    <3>1. k \in video \ orphans
      BY <2>1, <1>1
    <3>2. CASE \E q \in Requests : req[q].step = "store" /\ req[q].row.key = k
      <4>1. PICK q \in Requests : req[q].step = "store" /\ req[q].row.key = k
        BY <3>2
      <4>2. q # r
        BY <2>1, <4>1, <1>1
      <4> QED BY <4>1, <4>2, <1>2
    <3> QED BY <3>1, <3>2, <1>1 DEF VideosNamed
  <2> QED BY <2>1, <1>1 DEF VideosNamed, Rows
<1>9. ClipsSpaced'
  BY <1>1 DEF ClipsSpaced, Rows
<1> QED BY <1>4, <1>5, <1>6, <1>7, <1>8, <1>9

LEMMA TickKeeps == ASSUME ClipInv, Tick PROVE ClipInv'
<1> USE DEF ClipInv
<1>1. /\ now \in Nat /\ now' = now + 1 /\ now' \in 0..MaxTime
      /\ UNCHANGED <<attempt, review, recorded, link, clip, video, puts, req, orphans, fresh>>
  BY ClipConstants DEF Tick, Types, ClipTypeOK, rowVars
<1>2. Types'
  BY <1>1 DEF Types, ClipTypeOK
<1>3. RowsInv'
  <2>1. \A e \in Rows : clip[e].at \in Nat
    BY DEF Rows, Types, Clip
  <2> QED BY <1>1, <2>1 DEF RowsInv, Rows, Named
<1>4. Apart'
  BY <1>1 DEF Apart
<1>5. ASSUME NEW q \in Requests
      PROVE  (Writing(q) /\ Storing(q) /\ Reporting(q) /\ Maintaining(q) /\ Other(q))'
  <2>1. Writing(q) /\ Storing(q) /\ Reporting(q) /\ Maintaining(q) /\ Other(q)
    OBVIOUS
  <2>2. Writing(q)' /\ Storing(q)'
    BY <1>1, <2>1 DEF Writing, Storing, Rows, Named
  <2>3. Reporting(q)'
    <3>1. req[q].since \in Nat
      BY DEF Types, Request
    <3> QED BY <1>1, <2>1, <3>1 DEF Reporting, Rows
  <2>4. Maintaining(q)' /\ Other(q)'
    BY <1>1, <2>1 DEF Maintaining, Other
  <2> QED BY <2>2, <2>3, <2>4
<1>6. VideosNamed' /\ ClipsSpaced'
  BY <1>1 DEF VideosNamed, ClipsSpaced, Rows
<1> QED BY <1>2, <1>3, <1>4, <1>5, <1>6

-----------------------------------------------------------------------------
(* The theorems. *)

LEMMA StutterKeeps == ASSUME ClipInv, UNCHANGED clipVars PROVE ClipInv'
<1> USE DEF ClipInv, clipVars, rowVars
<1>1. Types'
  BY DEF Types, ClipTypeOK
<1>2. RowsInv' /\ Apart'
  BY DEF RowsInv, Apart, Rows, Named
<1>3. ASSUME NEW q \in Requests
      PROVE  (Writing(q) /\ Storing(q) /\ Reporting(q) /\ Maintaining(q) /\ Other(q))'
  <2>1. Writing(q) /\ Storing(q) /\ Reporting(q) /\ Maintaining(q) /\ Other(q)
    OBVIOUS
  <2>2. Writing(q)' /\ Storing(q)'
    BY <2>1 DEF Writing, Storing, Rows, Named
  <2>3. Reporting(q)'
    BY <2>1 DEF Reporting, Rows
  <2>4. Maintaining(q)' /\ Other(q)'
    BY <2>1 DEF Maintaining, Other
  <2> QED BY <2>2, <2>3, <2>4
<1>4. VideosNamed' /\ ClipsSpaced'
  BY DEF VideosNamed, ClipsSpaced, Rows
<1> QED BY <1>1, <1>2, <1>3, <1>4

LEMMA StepKeeps == ClipInv /\ [ClipNext]_clipVars => ClipInv'
<1> SUFFICES ASSUME ClipInv, [ClipNext]_clipVars PROVE ClipInv'
  OBVIOUS
<1>1. ASSUME NEW r \in Requests, ClipStep(r) PROVE ClipInv'
  <2>1. CASE \E k \in req[r].left : DeletesVideo(r, k) \/ PurgesVideo(r, k)
    BY <2>1, DeletesKeeps, PurgesKeeps
  <2> QED BY <1>1, <2>1, EventCommitsKeeps, UploadLocksKeeps, PutsKeeps, PutFailsKeeps,
             UploadCommitsKeeps, EraseKeeps, EraseFailsKeeps, WritesStatusKeeps, ReadsHoldsKeeps,
             LooksKeeps, PurgeCommitsKeeps, MaintenanceCommitsKeeps DEF ClipStep
<1>2. ASSUME NEW r \in Requests, NEW e \in Events,
             \/ ReportEvent(r, e) \/ UploadArrives(r, e)
             \/ \E op \in {"view", "delete"} : ReadClip(r, e, op)
      PROVE  ClipInv'
  BY <1>2, ReportKeeps, UploadArrivesKeeps, ReadKeeps
<1> QED BY <1>1, <1>2, MaintenanceStartsKeeps, CrashKeeps, FailureKeeps, FinalizeKeeps, ListKeeps,
           ReviewKeeps, TickKeeps, StutterKeeps DEF ClipNext

\* Every reachable state satisfies the inductive invariant.
THEOREM ClipsSafe == ClipSpec => []ClipInv
BY InitClips, StepKeeps, PTL DEF ClipSpec

\* The types of the rows, the videos and the requests in progress.
THEOREM ClipTypesHold == ClipSpec => []ClipTypeOK
<1>1. ClipInv => ClipTypeOK
  BY DEF ClipInv, Types
<1> QED BY <1>1, ClipsSafe, PTL

\* A video in the store is the one its clip's row names, or is being stored under the row's lock, or
\* was orphaned; a READY clip names a video that was stored.
THEOREM EveryVideoIsNamed == ClipSpec => []VideosNamed
<1>1. ClipInv => VideosNamed
  BY DEF ClipInv
<1> QED BY <1>1, ClipsSafe, PTL

\* Events reported at the same time never make clips beyond the cap or within the cooldown.
THEOREM ClipsStaySpaced == ClipSpec => []ClipsSpaced
<1>1. ClipInv => ClipsSpaced
  BY DEF ClipInv
<1> QED BY <1>1, ClipsSafe, PTL

LEMMA HoldStep ==
    ASSUME ClipInv, [ClipNext]_clipVars, NEW r \in Requests,
           req[r].op = "maintain", req'[r] # req[r], video' # video, review = "IN_REVIEW"
    PROVE  r \in fresh
<1> USE DEF ClipInv
<1>1. PICK q \in Requests : \/ Puts(q) \/ Erases(q)
                            \/ \E k \in req[q].left : DeletesVideo(q, k) \/ PurgesVideo(q, k)
  <2>1. ASSUME NEW q \in Requests, ClipStep(q)
        PROVE  \/ Puts(q) \/ Erases(q)
               \/ \E k \in req[q].left : DeletesVideo(q, k) \/ PurgesVideo(q, k)
    BY <2>1 DEF ClipStep, EventCommits, UploadLocks, PutFails, UploadCommits, EraseFails, WritesStatus,
                ReadsHolds, LooksForPurge, PurgeCommits, MaintenanceCommits
  <2> QED BY <2>1 DEF ClipNext, clipVars, MaintenanceStarts, Crash, ReportEvent, UploadArrives, ReadClip,
                      ReportFailure, Finalize, ListClips, StartReview, CompleteReview, Tick
<1>2. q = r
  <2>1. \E x : req' = [req EXCEPT ![q] = x]
    BY <1>1 DEF Puts, Erases, DeletesVideo, PurgesVideo, Continues
  <2> QED BY <2>1 DEF Types
<1>3. req[r].step \in {"delete", "purge"} /\ req[r].left # {}
  BY <1>1, <1>2 DEF Puts, Erases, DeletesVideo, PurgesVideo, Storing
<1> QED BY <1>3, SMTT(30) DEF Maintaining

\* A maintenance run deletes no video of an attempt in review, unless the review was started after
\* the run had read the reviews.
THEOREM ReviewHolds == ClipSpec => HoldKept
<1>1. ClipInv /\ [ClipNext]_clipVars =>
        [\A r \in Requests :
           req[r].op = "maintain" /\ req'[r] # req[r] /\ video' # video /\ review = "IN_REVIEW"
              => r \in fresh]_clipVars
  BY HoldStep
<1> QED BY <1>1, ClipsSafe, PTL DEF ClipSpec, HoldKept

-----------------------------------------------------------------------------
(***************************************************************************)
(* The order of events (EventPipeline).                                    *)
(***************************************************************************)
LogRow ==
    [id : Nat, type : Pipeline!Types \cup {"SESSION_ENDED"},
     phase : {"started", "resolved", None}, episode : Nat, at : Nat]

Message == [report : Pipeline!Report, connection : Nat]

PipelineTypes ==
    /\ clock \in Nat
    /\ app \in Pipeline!App /\ app.next > 0
    /\ queue \in Seq(Pipeline!Report)
    /\ wire \subseteq Message /\ serving \in Message \cup {None}
    /\ log \in Seq(LogRow)

\* What waits in the app is in the order in which it was observed, and older than what comes next.
Queues(q, next) ==
    /\ \A k \in DOMAIN q : q[k].id > 0 /\ q[k].id < next
    /\ \A j, k \in DOMAIN q : j <= k => q[j].id <= q[k].id

\* A report on its way is not newer than any that waits.
Carried(m, q, next) ==
    /\ m.report.id > 0 /\ m.report.id < next
    /\ \A k \in DOMAIN q : m.report.id <= q[k].id

CarriedInOrder ==
    /\ \A m \in wire : Carried(m, queue, app.next)
    /\ serving # None => Carried(serving, queue, app.next)

\* A report that waits is in the log, or newer than all of it.
InLine(q) ==
    \A k \in DOMAIN q :
        \/ \E i \in DOMAIN log : log[i].id = q[k].id
        \/ \A i \in DOMAIN log : log[i].id < q[k].id

OrderInv ==
    /\ PipelineTypes
    /\ Queues(queue, app.next)
    /\ CarriedInOrder
    /\ \A i \in DOMAIN log : log[i].id < app.next
    /\ \A i, j \in DOMAIN log : log[i].id = log[j].id => i = j \/ log[i].id = 0
    /\ InLine(queue)

\* Numbers of the pipeline.
LEMMA Numbers == Deadline \in Nat /\ RepeatWindow \in Nat /\ MaxPending \in Nat
BY PolicyFits

LEMMA InitOrder == ASSUME Pipeline!Init PROVE OrderInv
<1>1. app.next = 1 /\ app \in Pipeline!App
  <2>1. -RepeatWindow \in Int
    BY Numbers
  <2>2. [t \in {"FOCUS_LOST", "PASTE_ATTEMPT"} |-> -RepeatWindow]
            \in [{"FOCUS_LOST", "PASTE_ATTEMPT"} -> Int]
    BY <2>1
  <2> QED
    BY <2>2 DEF Pipeline!Init, Pipeline!App
<1>2. queue = <<>> /\ log = <<>> /\ wire = {} /\ serving = None /\ clock = 0
  BY DEF Pipeline!Init
<1>3. queue \in Seq(Pipeline!Report) /\ log \in Seq(LogRow)
  BY <1>2
<1>4. DOMAIN queue = {} /\ DOMAIN log = {}
  BY <1>2
<1>5. PipelineTypes
  BY <1>1, <1>2, <1>3 DEF PipelineTypes
<1>6. QED
  BY <1>1, <1>2, <1>4, <1>5 DEF OrderInv, Queues, CarriedInOrder, InLine

\* What a step of the app may do: the log stays, what waits is some of what waited, in order, and
\* at most one newer report.
QueueStep ==
    /\ clock' \in Nat
    /\ app' \in Pipeline!App
    /\ app'.next >= app.next
    /\ queue' \in Seq(Pipeline!Report)
    /\ Queues(queue', app'.next)
    /\ \A k \in DOMAIN queue' : queue'[k].id >= app.next \/ \E j \in DOMAIN queue : queue[j] = queue'[k]

LEMMA AppKeeps ==
  ASSUME OrderInv, QueueStep, log' = log, serving' = serving,
         wire' \subseteq Message, \A m \in wire' \ wire : Carried(m, queue', app'.next)
  PROVE  OrderInv'
<1>1. /\ app.next \in Nat /\ app'.next \in Nat /\ app'.next >= app.next
      /\ \A k \in DOMAIN queue : queue[k].id \in Nat
      /\ \A k \in DOMAIN queue' : queue'[k].id \in Nat
      /\ \A i \in DOMAIN log : log[i].id \in Nat
  <2>1. \A k \in DOMAIN queue : queue[k] \in Pipeline!Report
    BY DEF OrderInv, PipelineTypes
  <2>2. \A k \in DOMAIN queue' : queue'[k] \in Pipeline!Report
    BY DEF QueueStep
  <2>3. \A i \in DOMAIN log : log[i] \in LogRow
    BY DEF OrderInv, PipelineTypes
  <2> QED
    BY <2>1, <2>2, <2>3 DEF OrderInv, PipelineTypes, QueueStep, Pipeline!App, Pipeline!Report, LogRow
<1>2. ASSUME NEW m \in Message, Carried(m, queue, app.next)
      PROVE  Carried(m, queue', app'.next)
  <2>1. m.report.id \in Nat
    BY DEF Message, Pipeline!Report
  <2> QED
    BY <1>1, <1>2, <2>1 DEF Carried, QueueStep
<1>3. \A m \in wire' : Carried(m, queue', app'.next)
  <2> SUFFICES ASSUME NEW m \in wire'
               PROVE  Carried(m, queue', app'.next)
    OBVIOUS
  <2>1. CASE m \in wire
    BY <1>2, <2>1 DEF OrderInv, PipelineTypes, CarriedInOrder
  <2> QED
    BY <2>1
<1>4. serving # None => Carried(serving, queue', app'.next)
  BY <1>2 DEF OrderInv, PipelineTypes, CarriedInOrder
<1>5. InLine(queue)'
  BY <1>1 DEF OrderInv, QueueStep, InLine
<1>6. PipelineTypes'
  BY <1>1 DEF OrderInv, PipelineTypes, QueueStep
<1>7. \A i \in DOMAIN log : log[i].id < app'.next
  BY <1>1 DEF OrderInv
<1>8. QED
  BY <1>3, <1>4, <1>5, <1>6, <1>7 DEF OrderInv, CarriedInOrder, QueueStep

\* A queue that loses its oldest reports, and one that only takes a report.
LEMMA QueuedIs ==
  ASSUME OrderInv, NEW report \in Pipeline!Report, report.id = app.next
  PROVE  /\ Pipeline!Queued(report) \in Seq(Pipeline!Report)
         /\ Queues(Pipeline!Queued(report), app.next + 1)
         /\ \A k \in DOMAIN Pipeline!Queued(report) :
               \/ Pipeline!Queued(report)[k].id >= app.next
               \/ \E j \in DOMAIN queue : queue[j] = Pipeline!Queued(report)[k]
<1> DEFINE all == Append(queue, report)
           from == Pipeline!Greater(1, Len(all) - MaxPending + 1)
           q == Pipeline!Queued(report)
<1>1. /\ queue \in Seq(Pipeline!Report) /\ app.next \in Nat /\ app.next > 0
      /\ \A k \in DOMAIN queue : queue[k].id \in Nat
      /\ \A k \in DOMAIN queue : queue[k].id > 0 /\ queue[k].id < app.next
      /\ \A j, k \in DOMAIN queue : j <= k => queue[j].id <= queue[k].id
  <2>1. \A k \in DOMAIN queue : queue[k] \in Pipeline!Report
    BY DEF OrderInv, PipelineTypes
  <2> QED
    BY <2>1 DEF OrderInv, PipelineTypes, Queues, Pipeline!App, Pipeline!Report
<1>2. /\ all \in Seq(Pipeline!Report) /\ Len(all) = Len(queue) + 1 /\ Len(queue) \in Nat
      /\ \A k \in 1..Len(queue) : all[k] = queue[k]
      /\ all[Len(queue) + 1] = report
  BY <1>1
<1>3. from \in Nat /\ from >= 1
  <2>1. Len(all) - MaxPending + 1 \in Int
    BY <1>2, Numbers
  <2> HIDE DEF all
  <2> QED
    BY <2>1 DEF Pipeline!Greater
<1>4. q = SubSeq(all, from, Len(all))
  BY DEF Pipeline!Queued
<1> HIDE DEF all, from, q
<1>5. /\ q \in Seq(Pipeline!Report)
      /\ \A k \in DOMAIN q : from + k - 1 \in 1..Len(all) /\ q[k] = all[from + k - 1]
  BY <1>2, <1>3, <1>4
<1>6. \A j \in 1..Len(all) : \/ j \in DOMAIN queue /\ all[j] = queue[j]
                             \/ j = Len(queue) + 1 /\ all[j] = report
  BY <1>1, <1>2
<1>7. /\ \A j \in 1..Len(all) : all[j].id \in Nat /\ all[j].id > 0 /\ all[j].id < app.next + 1
      /\ \A j, k \in 1..Len(all) : j <= k => all[j].id <= all[k].id
  <2>1. \A j \in 1..Len(all) : all[j].id \in Nat /\ all[j].id > 0 /\ all[j].id < app.next + 1
    BY <1>1, <1>6
  <2>2. ASSUME NEW j \in 1..Len(all), NEW k \in 1..Len(all), j <= k
        PROVE  all[j].id <= all[k].id
    <3>1. CASE k \in DOMAIN queue /\ all[k] = queue[k]
      <4>1. j \in DOMAIN queue /\ all[j] = queue[j]
        BY <1>1, <1>2, <1>6, <2>2, <3>1
      <4> QED
        BY <1>1, <2>2, <3>1, <4>1
    <3>2. CASE all[k] = report
      BY <1>1, <2>1, <3>2
    <3> QED
      BY <1>6, <3>1, <3>2
  <2> QED
    BY <2>1, <2>2
<1>8. Queues(q, app.next + 1)
  <2>1. \A j, k \in DOMAIN q : j \in Nat /\ k \in Nat /\ (j <= k => from + j - 1 <= from + k - 1)
    BY <1>3, <1>5
  <2> QED
    BY <1>5, <1>7, <2>1 DEF Queues
<1>9. \A k \in DOMAIN q : q[k].id >= app.next \/ \E j \in DOMAIN queue : queue[j] = q[k]
  BY <1>1, <1>5, <1>6
<1>10. QED
  BY <1>5, <1>8, <1>9 DEF q

\* The queue as it was, or without its head.
LEMMA QueueShrinks ==
  ASSUME OrderInv, queue' \in {queue, <<>>} \/ (queue # <<>> /\ queue' = Tail(queue))
  PROVE  /\ queue' \in Seq(Pipeline!Report) /\ Queues(queue', app.next)
         /\ \A k \in DOMAIN queue' : \E j \in DOMAIN queue : queue[j] = queue'[k]
<1>1. queue \in Seq(Pipeline!Report) /\ Queues(queue, app.next)
  BY DEF OrderInv, PipelineTypes
<1>2. CASE queue' = queue
  BY <1>1, <1>2
<1>3. CASE queue' = <<>>
  BY <1>3 DEF Queues
<1>4. CASE queue # <<>> /\ queue' = Tail(queue)
  <2>1. /\ queue' \in Seq(Pipeline!Report)
        /\ \A k \in DOMAIN queue' : k \in Nat /\ k + 1 \in DOMAIN queue /\ queue'[k] = queue[k + 1]
    BY <1>1, <1>4
  <2>2. \A j, k \in DOMAIN queue' : j <= k => j + 1 <= k + 1
    BY <2>1
  <2> QED
    BY <1>1, <2>1, <2>2 DEF Queues
<1>5. QED
  BY <1>2, <1>3, <1>4

\* What a step of the server may do: the log grows by rows that are no reports, and by the one
\* that is served, if it is not there yet.
LogStep ==
    /\ log' \in Seq(LogRow)
    /\ DOMAIN log \subseteq DOMAIN log'
    /\ \A i \in DOMAIN log : log'[i] = log[i]
    /\ \A i \in DOMAIN log' \ DOMAIN log :
          \/ log'[i].id = 0
          \/ /\ serving # None /\ log'[i].id = serving.report.id
             /\ \A j \in DOMAIN log : log[j].id # serving.report.id
    /\ \A i, j \in DOMAIN log' \ DOMAIN log : log'[i].id = log'[j].id => i = j \/ log'[i].id = 0

LEMMA LogKeeps ==
  ASSUME OrderInv, LogStep, UNCHANGED <<clock, app, queue>>,
         wire' \subseteq wire, serving' \in {serving, None} \cup wire
  PROVE  OrderInv'
<1>1. /\ app.next \in Nat /\ app.next > 0
      /\ \A k \in DOMAIN queue : queue[k].id \in Nat /\ queue[k].id > 0
      /\ \A i \in DOMAIN log' : log'[i].id \in Nat
      /\ \A i \in DOMAIN log : log[i].id \in Nat /\ log[i].id < app.next /\ i \in DOMAIN log'
  <2>1. \A k \in DOMAIN queue : queue[k] \in Pipeline!Report
    BY DEF OrderInv, PipelineTypes
  <2>2. \A i \in DOMAIN log' : log'[i] \in LogRow
    BY DEF LogStep
  <2>3. \A i \in DOMAIN log : log[i] \in LogRow /\ i \in DOMAIN log'
    BY DEF OrderInv, PipelineTypes, LogStep
  <2> QED
    BY <2>1, <2>2, <2>3 DEF OrderInv, PipelineTypes, Queues, Pipeline!App, Pipeline!Report, LogRow
<1>2. serving # None => /\ serving.report.id \in Nat
                        /\ serving.report.id > 0 /\ serving.report.id < app.next
                        /\ \A k \in DOMAIN queue : serving.report.id <= queue[k].id
  BY DEF OrderInv, PipelineTypes, CarriedInOrder, Carried, Message, Pipeline!Report
<1>3. PipelineTypes'
  BY DEF OrderInv, PipelineTypes, LogStep
<1>4. CarriedInOrder'
  BY DEF OrderInv, CarriedInOrder, Carried
<1>5. \A i \in DOMAIN log' : log'[i].id < app.next
  BY <1>1, <1>2 DEF LogStep
<1>6. ASSUME NEW i \in DOMAIN log', NEW j \in DOMAIN log', log'[i].id = log'[j].id
      PROVE  i = j \/ log'[i].id = 0
  <2>1. CASE i \in DOMAIN log /\ j \in DOMAIN log
    BY <1>6, <2>1 DEF OrderInv, LogStep
  <2>2. CASE i \in DOMAIN log /\ j \notin DOMAIN log
    BY <1>6, <2>2 DEF LogStep
  <2>3. CASE i \notin DOMAIN log /\ j \in DOMAIN log
    BY <1>6, <2>3 DEF LogStep
  <2>4. CASE i \notin DOMAIN log /\ j \notin DOMAIN log
    BY <1>6, <2>4 DEF LogStep
  <2> QED
    BY <2>1, <2>2, <2>3, <2>4
<1>7. InLine(queue)'
  <2> SUFFICES ASSUME NEW k \in DOMAIN queue
               PROVE  \/ \E i \in DOMAIN log' : log'[i].id = queue[k].id
                      \/ \A i \in DOMAIN log' : log'[i].id < queue[k].id
    BY DEF InLine
  <2>1. CASE \E i \in DOMAIN log : log[i].id = queue[k].id
    BY <1>1, <2>1 DEF LogStep
  <2>2. CASE \A i \in DOMAIN log : log[i].id < queue[k].id
    <3>1. CASE \E i \in DOMAIN log' \ DOMAIN log : log'[i].id = queue[k].id
      BY <3>1
    <3>2. CASE \A i \in DOMAIN log' \ DOMAIN log : log'[i].id # queue[k].id
      <4>1. \A i \in DOMAIN log' \ DOMAIN log : log'[i].id < queue[k].id
        BY <1>1, <1>2, <3>2 DEF LogStep
      <4> QED
        BY <2>2, <4>1 DEF LogStep
    <3> QED
      BY <3>1, <3>2
  <2> QED
    BY <2>1, <2>2 DEF OrderInv, InLine
<1>8. QED
  BY <1>3, <1>4, <1>5, <1>6, <1>7 DEF OrderInv

\* The rows that close episodes, and those that end a session.
LEMMA ClosingIs ==
  ASSUME NEW rows \in Seq(LogRow), NEW at \in Nat
  PROVE  /\ Pipeline!Closing(rows, at) \in Seq(LogRow)
         /\ \A i \in DOMAIN Pipeline!Closing(rows, at) : Pipeline!Closing(rows, at)[i].id = 0
<1> DEFINE E == Pipeline!OpenEpisodes(rows)
           S == {Pipeline!Resolution(e, at) : e \in E}
           I == {i \in 1..Len(rows) : rows[i].episode \in E}
           f == [i \in I |-> Pipeline!Resolution(rows[i].episode, at)]
<1>1. E \subseteq Nat /\ \A e \in E : \E i \in I : rows[i].episode = e
  <2>1. \A i \in DOMAIN rows : rows[i] \in LogRow
    OBVIOUS
  <2>2. \A i \in DOMAIN rows : rows[i].episode \in Nat
    BY <2>1 DEF LogRow
  <2> QED
    BY <2>2 DEF Pipeline!OpenEpisodes
<1>2. \A s \in S : s \in LogRow /\ s.id = 0
  BY <1>1 DEF Pipeline!Resolution, Pipeline!ServerRow, LogRow, Pipeline!Types
<1> HIDE DEF E
<1>3. f \in Surjection(I, S)
  <2>1. f \in [I -> S]
    OBVIOUS
  <2>2. \A s \in S : \E i \in I : f[i] = s
    BY <1>1
  <2> QED
    BY <2>1, <2>2 DEF Surjection
<1>4. IsFiniteSet(I)
  <2>1. Len(rows) \in Nat
    OBVIOUS
  <2>2. IsFiniteSet(1..Len(rows)) /\ I \in SUBSET (1..Len(rows))
    BY <2>1, FS_Interval
  <2> HIDE DEF I
  <2> QED
    BY <2>2, FS_Subset
<1> HIDE DEF f, I, S
<1>5. IsFiniteSet(S)
  BY <1>3, <1>4, FS_Surjection
<1>6. Cardinality(S) \in Nat /\ ExistsBijection(1..Cardinality(S), S)
  BY <1>5, FS_CardinalityType
<1>7. \E g \in [1..Cardinality(S) -> S] : Pipeline!IsInjective(g)
  <2>1. PICK g : g \in Bijection(1..Cardinality(S), S)
    BY <1>6 DEF ExistsBijection
  <2> QED
    BY <2>1 DEF Bijection, Injection, IsInjective, Pipeline!IsInjective
<1>8. Pipeline!SetToSeq(S) \in [1..Cardinality(S) -> S]
  <2>1. Pipeline!SetToSeq(S) = CHOOSE g \in [1..Cardinality(S) -> S] : Pipeline!IsInjective(g)
    BY DEF Pipeline!SetToSeq, Pipeline!Cardinality, Cardinality
  <2> QED
    BY <1>7, <2>1
<1>9. Pipeline!Closing(rows, at) = Pipeline!SetToSeq(S)
  BY DEF Pipeline!Closing, S, E
<1>10. Pipeline!SetToSeq(S) \in Seq(LogRow)
  BY <1>2, <1>6, <1>8
<1>11. QED
  BY <1>2, <1>8, <1>9, <1>10

LEMMA Joined ==
  ASSUME NEW S, NEW a \in Seq(S), NEW b \in Seq(S)
  PROVE  /\ a \o b \in Seq(S)
         /\ DOMAIN a \subseteq DOMAIN (a \o b)
         /\ \A i \in DOMAIN a : (a \o b)[i] = a[i]
         /\ \A i \in DOMAIN (a \o b) \ DOMAIN a : i - Len(a) \in DOMAIN b /\ (a \o b)[i] = b[i - Len(a)]
OBVIOUS

LEMMA LogGrows ==
  ASSUME OrderInv, NEW at \in Nat, NEW row \in LogRow,
         \/ row.id = 0
         \/ /\ serving # None /\ row.id = serving.report.id
            /\ \A j \in DOMAIN log : log[j].id # serving.report.id,
         NEW closing \in {Pipeline!Closing(log, at), <<>>},
         log' = log \o closing \o <<row>>
  PROVE  LogStep
<1>1. log \in Seq(LogRow)
  BY DEF OrderInv, PipelineTypes
<1>2. closing \in Seq(LogRow) /\ \A i \in DOMAIN closing : closing[i].id = 0
  <2>1. CASE closing = <<>>
    BY <2>1
  <2> QED
    BY <1>1, <2>1, ClosingIs
<1> DEFINE half == log \o closing
<1>3. /\ half \in Seq(LogRow)
      /\ DOMAIN log \subseteq DOMAIN half
      /\ \A i \in DOMAIN log : half[i] = log[i]
      /\ \A i \in DOMAIN half \ DOMAIN log : half[i].id = 0
  BY <1>1, <1>2, Joined
<1>4. <<row>> \in Seq(LogRow) /\ DOMAIN <<row>> = {1} /\ <<row>>[1] = row
  OBVIOUS
<1>5. log' = half \o <<row>>
  OBVIOUS
<1> HIDE DEF half
<1>6. /\ log' \in Seq(LogRow)
      /\ DOMAIN half \subseteq DOMAIN log'
      /\ \A i \in DOMAIN half : log'[i] = half[i]
      /\ \A i \in DOMAIN log' \ DOMAIN half : i = Len(half) + 1 /\ log'[i] = row
  <2>1. /\ half \o <<row>> \in Seq(LogRow)
        /\ DOMAIN half \subseteq DOMAIN (half \o <<row>>)
        /\ \A i \in DOMAIN half : (half \o <<row>>)[i] = half[i]
        /\ \A i \in DOMAIN (half \o <<row>>) \ DOMAIN half :
              i - Len(half) \in DOMAIN <<row>> /\ (half \o <<row>>)[i] = <<row>>[i - Len(half)]
    BY ONLY <1>3, <1>4, Joined
  <2>2. Len(half) \in Nat /\ DOMAIN (half \o <<row>>) \subseteq Int
    BY <1>3, <2>1
  <2>3. \A i \in DOMAIN (half \o <<row>>) \ DOMAIN half :
           i = Len(half) + 1 /\ (half \o <<row>>)[i] = row
    BY <1>4, <2>1, <2>2
  <2> QED
    BY ONLY <1>5, <2>1, <2>3
<1>7. \A i \in DOMAIN log' \ DOMAIN log :
         log'[i].id = 0 \/ (i = Len(half) + 1 /\ log'[i] = row)
  BY <1>3, <1>6
<1>8. QED
  BY <1>3, <1>6, <1>7 DEF LogStep

\* The app observes something: it is reported, or not.
LEMMA ReportsKeep ==
  ASSUME OrderInv, NEW type \in Pipeline!Types, NEW phase \in {"started", "resolved", None},
         NEW episode \in Nat, NEW changed \in Pipeline!App, changed.next = app.next,
         Pipeline!Reports(type, phase, episode, changed)
  PROVE  OrderInv'
<1> DEFINE noted == IF type \in DOMAIN app.last
                    THEN [changed EXCEPT !.last[type] = clock] ELSE changed
           report == Pipeline!NewReport(type, phase, episode)
<1>1. /\ log' = log /\ serving' = serving /\ wire' = wire /\ clock' = clock
      /\ \/ app' \in {changed, noted} /\ queue' = queue
         \/ app' = [noted EXCEPT !.next = @ + 1] /\ queue' = Pipeline!Queued(report)
  BY DEF Pipeline!Reports, Pipeline!serverVars
<1>2. clock \in Nat /\ app \in Pipeline!App /\ app.next \in Nat /\ wire \subseteq Message
  BY DEF OrderInv, PipelineTypes, Pipeline!App
<1>3. noted \in Pipeline!App /\ noted.next = app.next
  <2>1. CASE type \in DOMAIN app.last
    <3>1. type \in {"FOCUS_LOST", "PASTE_ATTEMPT"} /\ clock \in Int
      BY <1>2, <2>1 DEF Pipeline!App
    <3>2. [changed.last EXCEPT ![type] = clock] \in [{"FOCUS_LOST", "PASTE_ATTEMPT"} -> Int]
      BY <3>1 DEF Pipeline!App
    <3>3. noted = [changed EXCEPT !.last = [changed.last EXCEPT ![type] = clock]]
      BY <2>1
    <3> QED
      BY <3>2, <3>3 DEF Pipeline!App
  <2> QED
    BY <2>1
<1>4. report \in Pipeline!Report /\ report.id = app.next
  BY <1>2 DEF Pipeline!NewReport, Pipeline!Report
<1> HIDE DEF noted, report
<1>5. CASE app' \in {changed, noted} /\ queue' = queue
  <2>1. app' \in Pipeline!App /\ app'.next = app.next
    BY <1>3, <1>5
  <2>2. QueueStep
    BY <1>1, <1>2, <1>5, <2>1, QueueShrinks DEF QueueStep
  <2> QED
    BY <1>1, <1>2, <2>2, AppKeeps
<1>6. CASE app' = [noted EXCEPT !.next = @ + 1] /\ queue' = Pipeline!Queued(report)
  <2>1. app' \in Pipeline!App /\ app'.next = app.next + 1
    BY <1>2, <1>3, <1>6 DEF Pipeline!App
  <2>2. QueueStep
    BY <1>1, <1>2, <1>4, <1>6, <2>1, QueuedIs DEF QueueStep
  <2> QED
    BY <1>1, <1>2, <2>2, AppKeeps
<1>7. QED
  BY <1>1, <1>5, <1>6

LEMMA ObservationKeeps ==
  ASSUME OrderInv,
         \/ Pipeline!LoseFocus \/ Pipeline!RegainFocus \/ Pipeline!Paste
         \/ Pipeline!FaceLost \/ Pipeline!FaceSeen
  PROVE  OrderInv'
<1>1. app \in Pipeline!App /\ app.next \in Nat /\ app.episode \in Nat
  BY DEF OrderInv, PipelineTypes, Pipeline!App
<1>2. \A b \in BOOLEAN : /\ [app EXCEPT !.away = b] \in Pipeline!App
                         /\ [app EXCEPT !.away = b].next = app.next
  BY <1>1 DEF Pipeline!App
<1>3. \A e \in Nat : /\ [app EXCEPT !.episode = e] \in Pipeline!App
                     /\ [app EXCEPT !.episode = e].next = app.next
  BY <1>1 DEF Pipeline!App
<1>4. {"FOCUS_LOST", "FOCUS_REGAINED", "PASTE_ATTEMPT", "FACE_NOT_DETECTED"} = Pipeline!Types
  BY DEF Pipeline!Types
<1>5. CASE Pipeline!LoseFocus
  BY <1>2, <1>4, <1>5, ReportsKeep DEF Pipeline!LoseFocus
<1>6. CASE Pipeline!RegainFocus
  BY <1>2, <1>4, <1>6, ReportsKeep DEF Pipeline!RegainFocus
<1>7. CASE Pipeline!Paste
  BY <1>1, <1>4, <1>7, ReportsKeep DEF Pipeline!Paste
<1>8. CASE Pipeline!FaceLost
  BY <1>1, <1>3, <1>4, <1>8, ReportsKeep DEF Pipeline!FaceLost
<1>9. CASE Pipeline!FaceSeen
  BY <1>1, <1>3, <1>4, <1>9, ReportsKeep DEF Pipeline!FaceSeen
<1>10. QED
  BY <1>5, <1>6, <1>7, <1>8, <1>9

\* Only the newest report that the app still has is sent.
LEMMA SendKeeps == ASSUME OrderInv, Pipeline!Send PROVE OrderInv'
<1> DEFINE m == [report |-> Head(queue), connection |-> app.connection]
<1>1. /\ queue # <<>> /\ app' = [app EXCEPT !.sending = TRUE]
      /\ wire' = wire \cup {m} /\ UNCHANGED <<clock, queue, serving, log>>
  BY DEF Pipeline!Send, Pipeline!serverVars
<1>2. /\ app \in Pipeline!App /\ clock \in Nat /\ wire \subseteq Message
      /\ queue \in Seq(Pipeline!Report) /\ Queues(queue, app.next)
  BY DEF OrderInv, PipelineTypes
<1>3. app' \in Pipeline!App /\ app'.next = app.next /\ app.next \in Nat
  BY <1>1, <1>2 DEF Pipeline!App
<1>4. 1 \in DOMAIN queue /\ Head(queue) = queue[1] /\ \A k \in DOMAIN queue : 1 <= k
  BY <1>1, <1>2
<1>5. m \in Message /\ m.report = queue[1]
  BY <1>2, <1>4 DEF Message, Pipeline!App
<1> HIDE DEF m
<1>6. QueueStep
  BY <1>1, <1>2, <1>3, QueueShrinks DEF QueueStep
<1>7. Carried(m, queue', app'.next)
  BY <1>1, <1>2, <1>3, <1>4, <1>5 DEF Carried, Queues
<1>8. QED
  BY <1>1, <1>2, <1>5, <1>6, <1>7, AppKeeps

LEMMA BreakKeeps == ASSUME OrderInv, Pipeline!Break PROVE OrderInv'
<1>1. /\ app' = [app EXCEPT !.sending = FALSE, !.connection = @ + 1]
      /\ UNCHANGED <<clock, queue, wire, serving, log>>
  BY DEF Pipeline!Break, Pipeline!serverVars
<1>2. app \in Pipeline!App /\ clock \in Nat /\ wire \subseteq Message
  BY DEF OrderInv, PipelineTypes
<1>3. app' \in Pipeline!App /\ app'.next = app.next /\ app.next \in Nat
  <2> DEFINE c == app.connection + 1
  <2>1. c \in Nat /\ app' = [app EXCEPT !.sending = FALSE, !.connection = c]
    BY <1>1, <1>2 DEF Pipeline!App
  <2> HIDE DEF c
  <2> QED
    BY <1>2, <2>1 DEF Pipeline!App
<1>4. QueueStep
  BY <1>1, <1>2, <1>3, QueueShrinks DEF QueueStep
<1>5. QED
  BY <1>1, <1>2, <1>4, AppKeeps

LEMMA ReceiveKeeps == ASSUME OrderInv, Pipeline!Receive PROVE OrderInv'
<1> DEFINE stops == reply.code = "stop"
<1>1. /\ app' = [app EXCEPT !.sending = FALSE, !.stopped = stops]
      /\ stops \in BOOLEAN
      /\ queue' = <<>> \/ (queue # <<>> /\ queue' = Tail(queue))
      /\ UNCHANGED <<clock, wire, serving, log>>
  BY DEF Pipeline!Receive, Pipeline!serverVars
<1> HIDE DEF stops
<1>2. app \in Pipeline!App /\ clock \in Nat /\ wire \subseteq Message
  BY DEF OrderInv, PipelineTypes
<1>3. app' \in Pipeline!App /\ app'.next = app.next /\ app.next \in Nat
  BY <1>1, <1>2 DEF Pipeline!App
<1>4. QueueStep
  BY <1>1, <1>2, <1>3, QueueShrinks DEF QueueStep
<1>5. QED
  BY <1>1, <1>2, <1>4, AppKeeps

LEMMA RestartKeeps == ASSUME OrderInv, Pipeline!Restart PROVE OrderInv'
<1> DEFINE report == Pipeline!NewReport("FACE_NOT_DETECTED", "resolved", app.episode)
           last == [t \in DOMAIN app.last |-> -RepeatWindow]
           next == IF app.episode = 0 THEN app.next ELSE app.next + 1
<1>1. /\ app' = [app EXCEPT !.away = FALSE, !.episode = 0, !.sending = FALSE, !.stopped = FALSE,
                            !.last = last, !.connection = @ + 1, !.restarts = @ + 1, !.next = next]
      /\ queue' = IF app.episode = 0 THEN queue ELSE Pipeline!Queued(report)
      /\ UNCHANGED <<clock, wire, serving, log>>
  BY DEF Pipeline!Restart, Pipeline!serverVars
<1>2. /\ app \in Pipeline!App /\ clock \in Nat /\ wire \subseteq Message
      /\ app.next \in Nat /\ app.episode \in Nat
  BY DEF OrderInv, PipelineTypes, Pipeline!App
<1>3. last \in [{"FOCUS_LOST", "PASTE_ATTEMPT"} -> Int]
  <2>1. -RepeatWindow \in Int /\ DOMAIN app.last = {"FOCUS_LOST", "PASTE_ATTEMPT"}
    BY <1>2, Numbers DEF Pipeline!App
  <2> QED
    BY <2>1
<1>4. next \in Nat /\ next >= app.next
  BY <1>2
<1> HIDE DEF last, next
<1>5. app' \in Pipeline!App /\ app'.next = next
  <2> DEFINE c == app.connection + 1
             r == app.restarts + 1
  <2>1. c \in Nat /\ r \in Nat
    BY <1>2 DEF Pipeline!App
  <2>2. app' = [app EXCEPT !.away = FALSE, !.episode = 0, !.sending = FALSE, !.stopped = FALSE,
                           !.last = last, !.connection = c, !.restarts = r, !.next = next]
    BY <1>1
  <2> HIDE DEF c, r
  <2> DEFINE a == [app EXCEPT !.away = FALSE, !.episode = 0, !.sending = FALSE, !.stopped = FALSE]
             b == [a EXCEPT !.last = last, !.next = next]
  <2>3. a \in Pipeline!App
    BY <1>2 DEF Pipeline!App
  <2>4. app' = [b EXCEPT !.connection = c, !.restarts = r]
    BY <2>2, <1>2 DEF Pipeline!App
  <2> HIDE DEF a
  <2>5. b \in Pipeline!App /\ b.next = next
    BY <1>3, <1>4, <2>3 DEF Pipeline!App
  <2> HIDE DEF b
  <2> QED
    BY <2>1, <2>4, <2>5 DEF Pipeline!App
<1>6. report \in Pipeline!Report /\ report.id = app.next
  BY <1>2 DEF Pipeline!NewReport, Pipeline!Report, Pipeline!Types
<1> HIDE DEF report
<1>7. QueueStep
  <2>1. CASE app.episode = 0
    <3>1. queue' = queue /\ next = app.next
      BY <1>1, <2>1 DEF next
    <3> QED
      BY <1>1, <1>2, <1>4, <1>5, <3>1, QueueShrinks DEF QueueStep
  <2>2. CASE app.episode # 0
    <3>1. queue' = Pipeline!Queued(report) /\ next = app.next + 1
      BY <1>1, <2>2 DEF next
    <3> QED
      BY <1>1, <1>2, <1>4, <1>5, <1>6, <3>1, QueuedIs DEF QueueStep
  <2> QED
    BY <2>1, <2>2
<1>8. QED
  BY <1>1, <1>2, <1>7, AppKeeps

\* The end of the attempt adds rows of the server only.
LEMMA FinishLogs ==
  ASSUME OrderInv, NEW status, NEW at \in Nat, Pipeline!Finish(status, at)
  PROVE  LogStep
<1> DEFINE row == Pipeline!ServerRow("SESSION_ENDED", None, 0, at)
<1>1. \/ log' = log \o Pipeline!Closing(log, at) \o <<row>>
      \/ log' = log
  BY DEF Pipeline!Finish
<1>2. row \in LogRow /\ row.id = 0
  BY DEF Pipeline!ServerRow, LogRow
<1> HIDE DEF row
<1>3. CASE log' = log \o Pipeline!Closing(log, at) \o <<row>>
  BY <1>2, <1>3, LogGrows
<1>4. CASE log' = log
  BY <1>4 DEF LogStep, OrderInv, PipelineTypes
<1>5. QED
  BY <1>1, <1>3, <1>4

LEMMA UnloggedKeeps ==
  ASSUME OrderInv, UNCHANGED <<clock, app, queue, log>>,
         wire' \subseteq wire, serving' \in {serving, None} \cup wire
  PROVE  OrderInv'
<1>1. LogStep
  BY DEF LogStep, OrderInv, PipelineTypes
<1>2. QED
  BY <1>1, LogKeeps

LEMMA StampIsTime == ASSUME OrderInv PROVE Pipeline!Stamp \in Nat
BY DEF OrderInv, PipelineTypes, Pipeline!Stamp

LEMMA TakeKeeps == ASSUME OrderInv, NEW m \in wire, Pipeline!Take(m) PROVE OrderInv'
<1>1. /\ UNCHANGED <<clock, app, queue>> /\ wire' \subseteq wire /\ serving' \in {serving, m}
      /\ log' = log \/ Pipeline!Finish("TIME_EXPIRED", Deadline)
  BY DEF Pipeline!Take
<1>2. CASE log' = log
  BY <1>1, <1>2, UnloggedKeeps
<1>3. CASE Pipeline!Finish("TIME_EXPIRED", Deadline)
  BY <1>1, <1>3, FinishLogs, LogKeeps, Numbers
<1>4. QED
  BY <1>1, <1>2, <1>3

\* A report is recorded only if it is not there yet.
LEMMA RecordKeeps == ASSUME OrderInv, Pipeline!Record PROVE OrderInv'
<1> DEFINE report == serving.report
           row == Pipeline!Row(report, Pipeline!Stamp)
           closing == Pipeline!Superseded(report)
<1>1. /\ serving # None /\ serving' = None /\ UNCHANGED <<clock, app, queue, wire>>
      /\ \/ log' = log
         \/ ~Pipeline!Known(report) /\ log' = log \o closing \o <<row>>
  BY DEF Pipeline!Record
<1>2. CASE log' = log
  BY <1>1, <1>2, UnloggedKeeps
<1>3. CASE ~Pipeline!Known(report) /\ log' = log \o closing \o <<row>>
  <2>1. serving.report \in Pipeline!Report
    BY <1>1 DEF OrderInv, PipelineTypes, Message
  <2>2. row \in LogRow /\ row.id = serving.report.id
    BY <2>1, StampIsTime DEF Pipeline!Row, LogRow, Pipeline!Report
  <2>3. \A j \in DOMAIN log : log[j].id # serving.report.id
    BY <1>3 DEF Pipeline!Known
  <2>4. closing \in {Pipeline!Closing(log, Pipeline!Stamp), <<>>}
    BY DEF Pipeline!Superseded
  <2> HIDE DEF row, closing
  <2>5. LogStep
    BY <1>1, <1>3, <2>2, <2>3, <2>4, StampIsTime, LogGrows
  <2> QED
    BY <1>1, <2>5, LogKeeps
<1>4. QED
  BY <1>1, <1>2, <1>3

LEMMA EndKeeps ==
  ASSUME OrderInv, Pipeline!Submit \/ Pipeline!PollReads \/ Pipeline!PollWrites
  PROVE  OrderInv'
<1>1. CASE Pipeline!PollReads
  BY <1>1, UnloggedKeeps DEF Pipeline!PollReads
<1>2. CASE Pipeline!Submit
  <2>1. \E status : \E at \in Nat : Pipeline!Finish(status, at)
    BY <1>2, Numbers, StampIsTime DEF Pipeline!Submit
  <2>2. LogStep
    BY <2>1, FinishLogs
  <2> QED
    BY <1>2, <2>2, LogKeeps DEF Pipeline!Submit
<1>3. CASE Pipeline!PollWrites
  BY <1>3, FinishLogs, LogKeeps, Numbers DEF Pipeline!PollWrites
<1>4. QED
  BY <1>1, <1>2, <1>3

LEMMA TimeKeeps == ASSUME OrderInv, Pipeline!Tick PROVE OrderInv'
<1>1. clock' = clock + 1 /\ UNCHANGED <<app, queue, wire, serving, log>>
  BY DEF Pipeline!Tick
<1>2. app \in Pipeline!App /\ app.next \in Nat /\ clock' \in Nat /\ wire \subseteq Message
  BY <1>1 DEF OrderInv, PipelineTypes, Pipeline!App
<1>3. QueueStep
  BY <1>1, <1>2, QueueShrinks DEF QueueStep
<1>4. QED
  BY <1>1, <1>2, <1>3, AppKeeps

LEMMA OrderStep == ASSUME OrderInv, [AllNext]_allVars PROVE OrderInv'
<1>1. CASE UNCHANGED eventVars
  BY <1>1, UnloggedKeeps DEF eventVars, OrderInv, PipelineTypes
<1>2. CASE Pipeline!Next
  <2>1. CASE \E m \in wire : Pipeline!Take(m)
    BY <2>1, TakeKeeps
  <2> QED
    BY <1>2, <2>1, TimeKeeps, ObservationKeeps, SendKeeps, BreakKeeps, ReceiveKeeps, RestartKeeps,
       RecordKeeps, EndKeeps DEF Pipeline!Next
<1>3. QED
  BY <1>1, <1>2 DEF AllNext, ClipScene, EventScene, allVars, eventVars

\* An event is recorded once, however often it was sent and whichever request arrives first, and
\* nothing newer is recorded before one that still waits in the app.
THEOREM EventsStayInOrder == EvidenceSpec => []EventsInOrder
<1>1. AllInit => OrderInv
  BY InitOrder DEF AllInit
<1>2. OrderInv => EventsInOrder
  BY DEF OrderInv, InLine, EventsInOrder, Pipeline!EventsInOrder
<1>3. QED
  BY <1>1, <1>2, OrderStep, PTL DEF EvidenceSpec
=============================================================================
