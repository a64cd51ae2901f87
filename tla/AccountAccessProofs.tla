-------------------------- MODULE AccountAccessProofs --------------------------
(***************************************************************************)
(* The safety properties of AttemptStart and of AccountAccess, for any     *)
(* number of requests, sign-ins, attempts, codes, sockets, events and      *)
(* subjects and for any times.                                             *)
(*                                                                         *)
(* In each part what a request relies on is said of its transaction alone  *)
(* (Sound, RequestFits, RecFits), so that a step of one request concerns   *)
(* another only through the rows it commits and the locks it holds.        *)
(***************************************************************************)
EXTENDS AccountAccess, FiniteSetTheorems, WellFoundedInduction, TLAPS


\* The request keeps the number and the deadline of the row it read and never opens it.
ImageSound(t) ==
    t.id # 0 =>
        /\ t.read \in Row /\ t.img \in Row
        /\ t.img.number = t.read.number /\ t.read.number = rows[t.id].number
        /\ t.img.expires = t.read.expires /\ t.read.expires = rows[t.id].expires
        /\ IsOpen(t.img) => IsOpen(t.read)

\* A start past its own attempt has locked it only to finish it.
StartSound(t) ==
    t.at \in {"startable", "numbered", "exhausted", "lost", "inserted"} =>
        /\ t.op = "start"
        /\ t.by \in Sessions
        /\ t.locked => IsOpen(t.read) /\ ~IsOpen(t.img)

\* The new row's number may be taken by now, but it is within the maximum and leaves no gap.
NewSound(t) ==
    t.at \in {"numbered", "lost", "inserted"} =>
        /\ t.new \in Row /\ IsOpen(t.new)
        /\ t.new.number <= MaxAttempts
        /\ t.new.number <= Len(rows) + 1

\* What the unique indexes have checked stays true until the commit.
InsertSound(t) ==
    t.at = "inserted" =>
        /\ t.new.number = Len(rows) + 1
        /\ \A i \in DOMAIN rows : IsOpen(rows[i]) => t.locked /\ t.id = i

\* The attempt is the submitter's to finish.
Submits(t) ==
    \/ t.at = "claimed"
    \/ t.at = "done" /\ t.img.status = "SUBMITTED" /\ IsOpen(t.read)

\* A submission works on the committed row, which nobody else can write.
SubmitSound(t) ==
    t.op = "submit" =>
        /\ t.locked
        /\ t.read = rows[t.id]
        /\ Submits(t) => /\ IsOpen(t.read)
                         /\ (rows[t.id].owner = t.by \/ ~OwnerActive(rows[t.id]))

Sound(t) ==
    /\ t.at = "idle" => t = NoTx
    /\ t.at \in {"read", "claimed"} => t.id # 0 /\ t.by \in Sessions
    /\ t.at = "read" => t.img = t.read
    /\ t.at = "claimed" => t.op = "submit"
    /\ t.id \in 0 .. Len(rows)
    /\ t.locked => t.id # 0
    /\ ImageSound(t) /\ StartSound(t) /\ NewSound(t) /\ InsertSound(t) /\ SubmitSound(t)

\* Row locks and pending inserts exclude each other.
Apart ==
    \A p, q \in Requests : p # q =>
        /\ ~(tx[p].locked /\ tx[q].locked /\ tx[p].id = tx[q].id)
        /\ ~(tx[p].at = "inserted" /\ tx[q].at = "inserted")

IInv ==
    /\ TypeOK
    /\ \A r \in Requests : Sound(tx[r])
    /\ Apart
    /\ OneOpenAttempt
    /\ AttemptsNumbered

-----------------------------------------------------------------------------
\* The part of a row that a step may not touch, and how its status may go.
Kept(row, other) ==
    /\ other.number = row.number
    /\ other.expires = row.expires
    /\ IsOpen(other) => IsOpen(row)

LEMMA MergeRow ==
    ASSUME NEW row \in Row, NEW read \in Row, NEW img \in Row,
           img.number = read.number, img.expires = read.expires,
           IsOpen(img) => IsOpen(read)
    PROVE  /\ Merge(row, read, img) \in Row
           /\ Kept(row, Merge(row, read, img))
           /\ read = img => Merge(row, read, img) = row
           /\ ~IsOpen(img) /\ IsOpen(read) => ~IsOpen(Merge(row, read, img))
           /\ row = read => Merge(row, read, img) = img
  BY DEF Row, Merge, Kept, IsOpen

\* A step that only moves the transaction of r, to t.
LEMMA LocalStep ==
    ASSUME IInv, NEW r \in Requests, NEW t \in Tx,
           tx' = [tx EXCEPT ![r] = t],
           UNCHANGED <<now, rows, valid>>,
           Sound(t),
           t.locked => (tx[r].locked /\ tx[r].id = t.id) \/ Free(r, t.id),
           t.at = "inserted" => \A p \in Requests \ {r} : tx[p].at # "inserted"
    PROVE  IInv'
<1> USE DEF IInv
<1>1. tx'[r] = t /\ \A p \in Requests \ {r} : tx'[p] = tx[p]
  BY DEF TypeOK
<1>2. TypeOK'
  BY DEF TypeOK
<1>3. ASSUME NEW p \in Requests PROVE Sound(tx[p])'
  <2>1. Sound(tx'[p])
    BY <1>1
  <2> QED
    BY <2>1 DEF Sound, ImageSound, StartSound, NewSound, InsertSound, SubmitSound,
              Submits, OwnerActive
<1>4. Apart'
  BY <1>1 DEF Apart, Free
<1>5. OneOpenAttempt' /\ AttemptsNumbered'
  BY DEF OneOpenAttempt, AttemptsNumbered
<1> QED
  BY <1>2, <1>3, <1>4, <1>5

LEMMA CrashStep ==
    ASSUME IInv, NEW r \in Requests,
           tx' = [tx EXCEPT ![r] = NoTx],
           UNCHANGED <<now, rows, valid>>
    PROVE  IInv'
<1>1. NoTx \in Tx
  BY DEF NoTx, Tx, Places, Ops
<1>2. Sound(NoTx)
  BY DEF NoTx, Sound, ImageSound, StartSound, NewSound, InsertSound, SubmitSound,
              Submits, IInv, TypeOK
<1> QED
  BY <1>1, <1>2, LocalStep DEF NoTx

-----------------------------------------------------------------------------
LEMMA InitSound == Init => IInv
<1> SUFFICES ASSUME Init PROVE IInv
  OBVIOUS
<1>1. TypeOK
  BY DEF Init, TypeOK, NoTx, Tx, Places, Ops
<1>2. \A r \in Requests : tx[r] = NoTx
  BY DEF Init
<1>3. Sound(NoTx)
  BY DEF Init, NoTx, Sound, ImageSound, StartSound, NewSound, InsertSound, SubmitSound
<1>4. Apart /\ OneOpenAttempt /\ AttemptsNumbered
  BY <1>2 DEF Init, NoTx, Apart, OneOpenAttempt, AttemptsNumbered
<1> QED
  BY <1>1, <1>2, <1>3, <1>4 DEF IInv

\* Time and the end of a sign-in only make an owner less active.
LEMMA TimeStep ==
    ASSUME IInv, Tick \/ \E s \in Sessions : SignOut(s)
    PROVE  IInv'
<1>1. /\ rows' = rows /\ tx' = tx
      /\ valid' \subseteq valid
      /\ now' \in Nat /\ now' >= now
  BY DEF Tick, SignOut, IInv, TypeOK
<1>2. \A row \in Row : OwnerActive(row)' => OwnerActive(row)
  <2>1. TakeoverAfter \in Nat
    BY ConstantsAssumption
  <2>2. now \in Nat
    BY DEF IInv, TypeOK
  <2> QED
    BY <1>1, <2>1, <2>2 DEF OwnerActive, Row
<1>3. TypeOK'
  BY <1>1 DEF IInv, TypeOK
<1>4. ASSUME NEW r \in Requests PROVE Sound(tx[r])'
  <2> DEFINE t == tx[r]
  <2>1. Sound(t) /\ t.locked => t.id \in 1 .. Len(rows)
    BY DEF Sound, IInv, TypeOK
  <2>2. t.locked => rows[t.id] \in Row
    BY <2>1 DEF IInv, TypeOK, Sound
  <2>3. SubmitSound(t)'
    BY <1>1, <1>2, <2>2 DEF SubmitSound, Submits, Sound, IInv, IsOpen
  <2> QED
    BY <1>1, <2>3 DEF IInv, Sound, ImageSound, StartSound, NewSound, InsertSound, IsOpen
<1>5. Apart' /\ OneOpenAttempt' /\ AttemptsNumbered'
  BY <1>1 DEF IInv, Apart, OneOpenAttempt, AttemptsNumbered, IsOpen
<1> QED
  BY <1>3, <1>4, <1>5 DEF IInv

-----------------------------------------------------------------------------
\* What a request that has read an attempt knows of its image.
LEMMA ImageOf ==
    ASSUME IInv, NEW r \in Requests, tx[r].id # 0
    PROVE  /\ tx[r] \in Tx
           /\ tx[r].id \in 1 .. Len(rows)
           /\ rows[tx[r].id] \in Row
           /\ tx[r].read \in Row /\ tx[r].img \in Row
           /\ ImageSound(tx[r])
  BY DEF IInv, TypeOK, Sound, ImageSound

LEMMA StartStep ==
    ASSUME IInv, NEW r \in Requests, NEW s \in Sessions, Start(r, s)
    PROVE  IInv'
<1>1. CASE \E i \in DOMAIN rows : IsOpen(rows[i]) /\ Seen(r, s, "start", i)
  <2>1. PICK i \in DOMAIN rows : IsOpen(rows[i]) /\ Seen(r, s, "start", i)
    BY <1>1
  <2> DEFINE t == [NoTx EXCEPT !.at = "read", !.op = "start", !.by = s, !.id = i,
                               !.locked = FALSE, !.read = rows[i], !.img = rows[i]]
  <2>2. i \in 1 .. Len(rows) /\ i \in Nat /\ rows[i] \in Row
    BY DEF IInv, TypeOK
  <2>3. t \in Tx
    BY <2>2 DEF NoTx, Tx, Places, Ops
  <2>4. Sound(t)
    BY <2>2 DEF NoTx, Sound, ImageSound, StartSound, NewSound, InsertSound, SubmitSound
  <2>5. tx' = [tx EXCEPT ![r] = t]
    BY <2>1 DEF Seen, TakesLock
  <2> QED
    BY <2>3, <2>4, <2>5, LocalStep DEF Start, NoTx
<1>2. CASE tx' = [tx EXCEPT ![r] = [NoTx EXCEPT !.at = "startable", !.op = "start", !.by = s]]
  <2> DEFINE t == [NoTx EXCEPT !.at = "startable", !.op = "start", !.by = s]
  <2>1. t \in Tx
    BY DEF NoTx, Tx, Places, Ops
  <2>2. Sound(t)
    BY DEF IInv, TypeOK, NoTx, Sound, ImageSound, StartSound, NewSound, InsertSound, SubmitSound
  <2> QED
    BY <1>2, <2>1, <2>2, LocalStep DEF Start, NoTx
<1> QED
  BY <1>1, <1>2 DEF Start

LEMMA AccessStep ==
    ASSUME IInv, NEW r \in Requests, NEW s \in Sessions, Access(r, s)
    PROVE  IInv'
<1>1. PICK o \in Ops \ {"start"}, i \in DOMAIN rows :
          (TakesLock(o) => Free(r, i)) /\ Seen(r, s, o, i)
  BY DEF Access
<1> DEFINE t == [NoTx EXCEPT !.at = "read", !.op = o, !.by = s, !.id = i,
                             !.locked = TakesLock(o), !.read = rows[i], !.img = rows[i]]
<1>2. i \in 1 .. Len(rows) /\ i \in Nat /\ rows[i] \in Row
  BY DEF IInv, TypeOK
<1>3. t \in Tx
  <2>1. TakesLock(o) \in BOOLEAN
    BY DEF TakesLock
  <2> QED
    BY <1>2, <2>1 DEF NoTx, Tx, Places, Ops
<1>4. Sound(t)
  <2>1. /\ t.at = "read" /\ t.op = o /\ t.by = s /\ t.id = i
        /\ t.read = rows[i] /\ t.img = rows[i]
    BY DEF NoTx
  <2>2. o = "submit" => t.locked
    BY DEF NoTx, TakesLock
  <2> HIDE DEF t
  <2> QED
    BY <1>2, <2>1, <2>2 DEF Sound, ImageSound, StartSound, NewSound, InsertSound,
       SubmitSound, Submits
<1>5. tx' = [tx EXCEPT ![r] = t]
  BY <1>1 DEF Seen
<1> QED
  BY <1>1, <1>3, <1>4, <1>5, LocalStep DEF Access, NoTx

LEMMA SettleStep ==
    ASSUME IInv, NEW r \in Requests, Settle(r)
    PROVE  IInv'
<1> DEFINE img == [tx[r].img EXCEPT !.status = "TIME_EXPIRED"]
           place == IF tx[r].op = "start" THEN "startable" ELSE "done"
           t == [tx[r] EXCEPT !.at = place, !.locked = TRUE, !.img = img]
<1>1. tx[r].id # 0 /\ tx[r].by \in Sessions /\ Sound(tx[r]) /\ tx[r] \in Tx
  BY DEF Settle, IInv, Sound, TypeOK
<1>2. /\ img \in Row /\ img.status = "TIME_EXPIRED"
      /\ img.number = tx[r].img.number /\ img.expires = tx[r].img.expires
  BY <1>1, ImageOf DEF Row, Statuses
<1>3. t \in Tx
  <2> HIDE DEF img
  <2> QED
    BY <1>1, <1>2 DEF Tx, Places
<1>4. /\ t.at = place /\ t.locked /\ t.img = img /\ t.id = tx[r].id
      /\ t.read = tx[r].read /\ t.op = tx[r].op /\ t.by = tx[r].by
  BY <1>1 DEF Tx
<1>5. Sound(t)
  <2> HIDE DEF img, t
  <2> QED
    BY <1>1, <1>2, <1>4, ImageOf DEF Settle, Sound, ImageSound, StartSound, NewSound,
       InsertSound, SubmitSound, Submits, IsOpen
<1>6. tx' = [tx EXCEPT ![r] = t]
  BY <1>1 DEF Settle, IInv, TypeOK, Tx
<1>7. Free(r, t.id)
  BY <1>4 DEF Settle
<1>8. t.at # "inserted"
  BY <1>4
<1> HIDE DEF t
<1> QED
  BY <1>3, <1>5, <1>6, <1>7, <1>8, LocalStep DEF Settle

LEMMA ClaimStep ==
    ASSUME IInv, NEW r \in Requests, Claim(r)
    PROVE  IInv'
<1> DEFINE mine == tx[r].img.owner = tx[r].by
           img == Claimed(tx[r].img, tx[r].by)
           place == IF tx[r].op = "submit" THEN "claimed" ELSE "done"
           t == [tx[r] EXCEPT !.at = place, !.img = img]
<1>1. tx[r].id # 0 /\ tx[r].by \in Sessions /\ Sound(tx[r]) /\ tx[r] \in Tx
  BY DEF Claim, IInv, Sound, TypeOK
<1>2. now \in Nat
  BY DEF IInv, TypeOK
<1>3. /\ img \in Row /\ img.status = tx[r].img.status
      /\ img.number = tx[r].img.number /\ img.expires = tx[r].img.expires
  BY <1>1, <1>2, ImageOf DEF Row, Claimed
<1>4. t \in Tx
  <2> HIDE DEF img
  <2> QED
    BY <1>1, <1>3 DEF Tx, Places
<1>5. /\ t.at = place /\ t.locked = tx[r].locked /\ t.img = img /\ t.id = tx[r].id
      /\ t.read = tx[r].read /\ t.op = tx[r].op /\ t.by = tx[r].by
  BY <1>1 DEF Tx
<1>6. Sound(t)
  <2>1. IsOpen(tx[r].img) /\ (mine \/ ~OwnerActive(tx[r].img)) /\ tx[r].at = "read"
    BY DEF Claim
  <2>2. tx[r].op = "submit" => tx[r].img.owner = rows[tx[r].id].owner
                                /\ tx[r].img.seen = rows[tx[r].id].seen
    BY <1>1, <2>1 DEF Sound, SubmitSound
  <2> HIDE DEF img, t
  <2> QED
    BY <1>1, <1>3, <1>5, <2>1, <2>2, ImageOf DEF Sound, ImageSound, StartSound, NewSound,
       InsertSound, SubmitSound, Submits, IsOpen, OwnerActive
<1>7. tx' = [tx EXCEPT ![r] = t]
  BY <1>1 DEF Claim, IInv, TypeOK, Tx
<1>8. t.at # "inserted"
  BY <1>5
<1> HIDE DEF t
<1> QED
  BY <1>4, <1>5, <1>6, <1>7, <1>8, LocalStep DEF Claim

\* A step of r that only goes on to another place, where less or as much is asked of it.
LEMMA GoStep ==
    ASSUME IInv, NEW r \in Requests, NEW place \in Places \ {"idle", "read", "claimed"},
           Go(r, place), UNCHANGED <<now, rows, valid>>,
           place = "done" => tx[r].at \in {"read", "claimed", "startable", "lost"},
           place = "exhausted" => tx[r].at = "startable",
           place \in {"lost", "inserted"} => tx[r].at = "numbered",
           place \notin {"startable", "numbered"},
           place = "inserted" =>
               /\ ~Duplicate(r)
               /\ \A p \in Requests \ {r} : tx[p].at # "inserted"
    PROVE  IInv'
<1> DEFINE t == [tx[r] EXCEPT !.at = place]
<1>1. tx[r] \in Tx /\ Sound(tx[r]) /\ rows \in Seq(Row)
  BY DEF IInv, TypeOK
<1>2. t \in Tx
  BY <1>1 DEF Tx
<1>3. /\ t.at = place /\ t.locked = tx[r].locked /\ t.img = tx[r].img /\ t.id = tx[r].id
      /\ t.read = tx[r].read /\ t.op = tx[r].op /\ t.by = tx[r].by /\ t.new = tx[r].new
  BY <1>1 DEF Tx
<1>4. place = "inserted" => InsertSound(t)
  <2> HIDE DEF t
  <2> SUFFICES ASSUME place = "inserted" PROVE InsertSound(t)
    OBVIOUS
  <2>1. \A i \in DOMAIN rows : rows[i].number # t.new.number
    BY <1>3 DEF Duplicate, NumberTaken
  <2>2. t.new \in Row /\ t.new.number <= Len(rows) + 1
    BY <1>1, <1>3 DEF Sound, NewSound
  <2>3. t.new.number \in Nat \ {0} /\ Len(rows) \in Nat /\ DOMAIN rows = 1 .. Len(rows)
    BY <1>1, <2>2 DEF Row
  <2>4. t.new.number = Len(rows) + 1
    BY <2>1, <2>2, <2>3 DEF IInv, AttemptsNumbered
  <2>5. \A i \in DOMAIN rows : IsOpen(rows[i]) => t.locked /\ t.id = i
    BY <1>3 DEF Duplicate, OpenTaken, OpenFor
  <2> QED
    BY <2>4, <2>5 DEF InsertSound
<1>5. Sound(t)
  <2> HIDE DEF t
  <2> QED
    BY <1>1, <1>3, <1>4 DEF Places, Sound, ImageSound, StartSound, NewSound, InsertSound,
       SubmitSound, Submits, IsOpen
<1>6. tx' = [tx EXCEPT ![r] = t]
  BY DEF Go, IInv, TypeOK, Tx
<1> HIDE DEF t
<1> QED
  BY <1>2, <1>3, <1>5, <1>6, LocalStep

LEMMA SubmitStep ==
    ASSUME IInv, NEW r \in Requests, Submit(r)
    PROVE  IInv'
<1>1. CASE Go(r, "done")
  BY <1>1, GoStep DEF Submit, Places
<1>2. CASE tx' = [tx EXCEPT ![r].at = "done", ![r].img.status = "SUBMITTED"]
  <2> DEFINE img == [tx[r].img EXCEPT !.status = "SUBMITTED"]
             t == [tx[r] EXCEPT !.at = "done", !.img = img]
  <2>1. tx[r].at = "claimed" /\ tx[r].id # 0 /\ tx[r].op = "submit"
        /\ Sound(tx[r]) /\ tx[r] \in Tx
    BY DEF Submit, IInv, Sound, TypeOK
  <2>2. /\ img \in Row /\ img.status = "SUBMITTED"
        /\ img.number = tx[r].img.number /\ img.expires = tx[r].img.expires
    BY <2>1, ImageOf DEF Row, Statuses
  <2>3. t \in Tx
    <3> HIDE DEF img
    <3> QED
      BY <2>1, <2>2 DEF Tx, Places
  <2>4. /\ t.at = "done" /\ t.locked = tx[r].locked /\ t.img = img /\ t.id = tx[r].id
        /\ t.read = tx[r].read /\ t.op = tx[r].op /\ t.by = tx[r].by
    BY <2>1 DEF Tx
  <2>5. Sound(t)
    <3> HIDE DEF img, t
    <3> QED
      BY <2>1, <2>2, <2>4, ImageOf DEF Sound, ImageSound, StartSound, NewSound,
         InsertSound, SubmitSound, Submits, IsOpen
  <2>6. tx' = [tx EXCEPT ![r] = t]
    BY <1>2, <2>1 DEF IInv, TypeOK, Tx
  <2>7. UNCHANGED <<now, rows, valid>>
    BY DEF Submit
  <2> HIDE DEF t
  <2> QED
    BY <2>3, <2>4, <2>5, <2>6, <2>7, LocalStep
<1> QED
  BY <1>1, <1>2 DEF Submit

LEMMA CountStep ==
    ASSUME IInv, NEW r \in Requests, CountAttempts(r)
    PROVE  IInv'
<1>1. CASE Len(rows) >= MaxAttempts
  BY <1>1, GoStep DEF CountAttempts, Places
<1>2. CASE ~(Len(rows) >= MaxAttempts)
  <2> DEFINE new == NewRow(Len(rows), tx[r].by)
             t == [tx[r] EXCEPT !.at = "numbered", !.new = new]
  <2>1. tx[r].at = "startable" /\ Sound(tx[r]) /\ tx[r] \in Tx /\ tx[r].by \in Sessions
    BY DEF CountAttempts, IInv, TypeOK, Sound, StartSound
  <2>2. Len(rows) \in Nat /\ MaxAttempts \in Nat /\ now + Duration \in Nat /\ now \in Nat
    BY ConstantsAssumption DEF IInv, TypeOK
  <2>3. new \in Row /\ IsOpen(new) /\ new.number = Len(rows) + 1
    BY <2>1, <2>2 DEF NewRow, Row, Statuses, IsOpen
  <2>4. t \in Tx
    <3> HIDE DEF new
    <3> QED
      BY <2>1, <2>3 DEF Tx, Places
  <2>5. /\ t.at = "numbered" /\ t.locked = tx[r].locked /\ t.img = tx[r].img
        /\ t.id = tx[r].id /\ t.read = tx[r].read /\ t.op = tx[r].op /\ t.by = tx[r].by
        /\ t.new = new
    BY <2>1 DEF Tx
  <2>6. Sound(t)
    <3> HIDE DEF new, t
    <3> QED
      BY <1>2, <2>1, <2>2, <2>3, <2>5 DEF Sound, ImageSound, StartSound, NewSound,
         InsertSound, SubmitSound, Submits
  <2>7. tx' = [tx EXCEPT ![r] = t] /\ UNCHANGED <<now, rows, valid>>
    BY <1>2, <2>1 DEF CountAttempts, IInv, TypeOK, Tx
  <2> HIDE DEF t
  <2> QED
    BY <2>4, <2>5, <2>6, <2>7, LocalStep
<1> QED
  BY <1>1, <1>2

LEMMA InsertStep ==
    ASSUME IInv, NEW r \in Requests, Insert(r)
    PROVE  IInv'
<1>1. CASE Duplicate(r)
  BY <1>1, GoStep DEF Insert, Places
<1>2. CASE ~Duplicate(r)
  BY <1>2, GoStep DEF Insert, Places, MustWait
<1> QED
  BY <1>1, <1>2

-----------------------------------------------------------------------------
\* What a commit makes of the rows that were there.
LEMMA WrittenRows ==
    ASSUME IInv, NEW r \in Requests
    PROVE  /\ Written(r) \in Seq(Row)
           /\ Len(Written(r)) = Len(rows)
           /\ \A i \in 1 .. Len(rows) :
                 /\ Kept(rows[i], Written(r)[i])
                 /\ i # tx[r].id \/ tx[r].read = tx[r].img => Written(r)[i] = rows[i]
                 /\ i = tx[r].id /\ IsOpen(tx[r].read) /\ ~IsOpen(tx[r].img)
                       => ~IsOpen(Written(r)[i])
<1>1. rows \in Seq(Row)
  BY DEF IInv, TypeOK
<1>2. CASE tx[r].id = 0
  BY <1>1, <1>2 DEF Written, Kept
<1>3. CASE tx[r].id # 0
  <2> DEFINE k == tx[r].id
             new == Merge(rows[k], tx[r].read, tx[r].img)
  <2>1. k \in 1 .. Len(rows) /\ ImageSound(tx[r]) /\ rows[k] \in Row
    BY <1>3, ImageOf
  <2>2. /\ new \in Row /\ Kept(rows[k], new)
        /\ tx[r].read = tx[r].img => new = rows[k]
        /\ ~IsOpen(tx[r].img) /\ IsOpen(tx[r].read) => ~IsOpen(new)
    BY <1>3, <2>1, MergeRow DEF ImageSound
  <2>3. Written(r) = [rows EXCEPT ![k] = new]
    BY <1>3 DEF Written
  <2>4. \A i \in 1 .. Len(rows) : Kept(rows[i], rows[i])
    BY DEF Kept
  <2> HIDE DEF new
  <2> QED
    BY <1>1, <2>1, <2>2, <2>3, <2>4
<1> QED
  BY <1>2, <1>3

LEMMA CommitStep ==
    ASSUME IInv, NEW r \in Requests, Commit(r)
    PROVE  IInv'
<1> DEFINE adds == tx[r].at = "inserted"
           w == Written(r)
<1>1. /\ rows \in Seq(Row) /\ Len(rows) \in Nat
      /\ Sound(tx[r]) /\ tx[r] \in Tx
  BY DEF IInv, TypeOK
<1>2. /\ w \in Seq(Row) /\ Len(w) = Len(rows)
      /\ rows' = IF adds THEN Append(w, tx[r].new) ELSE w
      /\ adds => tx[r].new \in Row
  BY <1>1, WrittenRows DEF Commit, Sound, NewSound
<1>3. /\ rows' \in Seq(Row)
      /\ Len(rows') = IF adds THEN Len(rows) + 1 ELSE Len(rows)
      /\ adds => rows'[Len(rows) + 1] = tx[r].new
      /\ \A i \in 1 .. Len(rows) : rows'[i] = w[i]
  <2> HIDE DEF w
  <2> QED
    BY <1>1, <1>2
<1>4. \A i \in 1 .. Len(rows) :
          /\ Kept(rows[i], rows'[i])
          /\ i # tx[r].id \/ tx[r].read = tx[r].img => rows'[i] = rows[i]
          /\ i = tx[r].id /\ IsOpen(tx[r].read) /\ ~IsOpen(tx[r].img) => ~IsOpen(rows'[i])
  BY <1>3, WrittenRows
<1> HIDE DEF w
<1>5. tx' = [tx EXCEPT ![r] = NoTx] /\ UNCHANGED <<now, valid>>
  BY DEF Commit
<1>6. tx'[r] = NoTx /\ \A p \in Requests \ {r} : tx'[p] = tx[p]
  BY <1>5 DEF IInv, TypeOK
<1>7. TypeOK'
  <2>1. NoTx \in Tx
    BY DEF NoTx, Tx, Places, Ops
  <2> QED
    BY <1>3, <1>5, <2>1 DEF IInv, TypeOK
<1>8. Sound(tx[r])'
  BY <1>3, <1>6 DEF NoTx, Sound, ImageSound, StartSound, NewSound, InsertSound, SubmitSound
<1>9. ASSUME NEW p \in Requests \ {r} PROVE Sound(tx[p])'
  <2> DEFINE t == tx[p]
  <2>1. Sound(t) /\ t \in Tx
    BY DEF IInv, TypeOK
  <2>2. t.locked => t.id \in 1 .. Len(rows) /\ rows'[t.id] = rows[t.id]
    <3> SUFFICES ASSUME t.locked
                 PROVE  t.id \in 1 .. Len(rows) /\ rows'[t.id] = rows[t.id]
      OBVIOUS
    <3>1. t.id \in 1 .. Len(rows)
      BY <1>1, <2>1 DEF Sound
    <3>2. t.id # tx[r].id \/ tx[r].read = tx[r].img
      BY DEF Commit, Free
    <3> QED
      BY <1>4, <3>1, <3>2
  <2>3. ImageSound(t)'
    <3>1. t.id # 0 => t.id \in 1 .. Len(rows)
      BY <2>1 DEF Sound
    <3> QED
      BY <1>4, <1>6, <2>1, <3>1 DEF Sound, ImageSound, Kept, IsOpen
  <2>4. t.at = "inserted" => ~adds
    BY DEF IInv, Apart
  <2>5. InsertSound(t)'
    BY <1>1, <1>3, <1>4, <1>6, <2>1, <2>4 DEF Sound, InsertSound, Kept, IsOpen
  <2>6. NewSound(t)' /\ StartSound(t)'
    <3>1. t.new \in Row => t.new.number \in Nat
      BY DEF Row
    <3>2. Len(rows) <= Len(rows') /\ Len(rows') \in Nat
      BY <1>1, <1>3
    <3>3. NewSound(t)'
      BY <1>1, <1>6, <2>1, <3>1, <3>2 DEF Sound, NewSound, IsOpen
    <3>4. StartSound(t)'
      BY <1>6, <2>1 DEF Sound, StartSound, IsOpen
    <3> QED
      BY <3>3, <3>4
  <2>7. SubmitSound(t)'
    BY <1>5, <1>6, <2>1, <2>2 DEF Sound, SubmitSound, Submits, OwnerActive, IsOpen
  <2>8. (t.id \in 0 .. Len(rows))'
    BY <1>1, <1>3, <1>6, <2>1 DEF Sound
  <2>9. Sound(t)'
    BY <1>6, <2>1, <2>3, <2>5, <2>6, <2>7, <2>8 DEF Sound, NoTx
  <2> QED
    BY <2>9
<1>10. Apart'
  BY <1>6 DEF IInv, Apart, NoTx
<1>11. OneOpenAttempt'
  <2>1. CASE ~adds
    BY <1>1, <1>3, <1>4, <2>1 DEF IInv, OneOpenAttempt, Kept
  <2>2. CASE adds
    <3>1. \A i \in 1 .. Len(rows) : ~IsOpen(rows'[i])
      <4> SUFFICES ASSUME NEW i \in 1 .. Len(rows), IsOpen(rows'[i]) PROVE FALSE
        OBVIOUS
      <4>1. IsOpen(rows[i]) /\ tx[r].locked /\ tx[r].id = i
        BY <1>1, <1>4, <2>2 DEF Sound, InsertSound, Kept
      <4>2. IsOpen(tx[r].read) /\ ~IsOpen(tx[r].img)
        BY <1>1, <2>2, <4>1 DEF Sound, StartSound
      <4> QED
        BY <1>4, <4>1, <4>2
    <3> QED
      BY <1>1, <1>3, <2>2, <3>1 DEF OneOpenAttempt
  <2> QED
    BY <2>1, <2>2
<1>12. AttemptsNumbered'
  BY <1>1, <1>3, <1>4 DEF IInv, AttemptsNumbered, Kept, Sound, NewSound, InsertSound
<1> QED
  BY <1>7, <1>8, <1>9, <1>10, <1>11, <1>12 DEF IInv

-----------------------------------------------------------------------------
LEMMA Invariance == IInv /\ [Next]_vars => IInv'
<1> SUFFICES ASSUME IInv, [Next]_vars PROVE IInv'
  OBVIOUS
<1>1. CASE UNCHANGED vars
  <2>1. \A r \in Requests : Sound(tx[r])'
    BY <1>1 DEF vars, IInv, Sound, ImageSound, StartSound, NewSound, InsertSound, SubmitSound,
       Submits, OwnerActive, IsOpen
  <2> QED
    BY <1>1, <2>1 DEF vars, IInv, TypeOK, Apart, OneOpenAttempt, AttemptsNumbered, IsOpen
<1>2. CASE Tick \/ \E s \in Sessions : SignOut(s)
  BY <1>2, TimeStep
<1>3. ASSUME NEW r \in Requests, Step(r) PROVE IInv'
  <2>1. CASE \E s \in Sessions : Start(r, s)
    BY <2>1, StartStep
  <2>2. CASE \E s \in Sessions : Access(r, s)
    BY <2>2, AccessStep
  <2>3. CASE Settle(r)
    BY <2>3, SettleStep
  <2>4. CASE Finished(r) \/ InUseElsewhere(r) \/ NotStartable(r) \/ ResumeWinner(r)
    BY <2>4, GoStep DEF Finished, InUseElsewhere, NotStartable, ResumeWinner, Places
  <2>5. CASE Claim(r)
    BY <2>5, ClaimStep
  <2>6. CASE Submit(r)
    BY <2>6, SubmitStep
  <2>7. CASE CountAttempts(r)
    BY <2>7, CountStep
  <2>8. CASE Insert(r)
    BY <2>8, InsertStep
  <2>9. CASE NoWinner(r) \/ Crash(r)
    BY <2>9, CrashStep DEF NoWinner, Crash
  <2>10. CASE Commit(r)
    BY <2>10, CommitStep
  <2> QED
    BY <1>3, <2>1, <2>2, <2>3, <2>4, <2>5, <2>6, <2>7, <2>8, <2>9, <2>10 DEF Step
<1> QED
  BY <1>1, <1>2, <1>3 DEF Next

\* The inductive invariant: what each transaction relies on, the locks, and the rows.
THEOREM InvariantHolds == Spec => []IInv
  BY InitSound, Invariance, PTL DEF Spec

\* Rows and transactions keep their types, for any number of requests and sign-ins.
THEOREM TypeCorrect == Spec => []TypeOK
<1>1. IInv => TypeOK
  BY DEF IInv
<1> QED
  BY <1>1, InvariantHolds, PTL

\* At most one attempt of a candidate at an assessment is open (start_or_resume).
THEOREM OneIsOpen == Spec => []OneOpenAttempt
<1>1. IInv => OneOpenAttempt
  BY DEF IInv
<1> QED
  BY <1>1, InvariantHolds, PTL

\* No race of starts exceeds the maximum of attempts or leaves a gap in their numbers.
THEOREM MaximumIsKept == Spec => []AttemptsNumbered
<1>1. IInv => AttemptsNumbered
  BY DEF IInv
<1> QED
  BY <1>1, InvariantHolds, PTL

\* A submission commits on an open attempt, for its owner or after the owner's silence.
THEOREM SubmissionIsTheOwners == Spec => []SubmittedByUser
<1>1. IInv => SubmittedByUser
  BY DEF IInv, SubmittedByUser, Sound, SubmitSound, Submits
<1> QED
  BY <1>1, InvariantHolds, PTL

\* Stale writes never reopen, renumber or prolong an attempt (Merge: only changed columns).
THEOREM FinishedForGood == Spec => NeverReopened
<1>1. IInv /\ [Next]_vars =>
        [\A i \in DOMAIN rows :
          /\ i \in DOMAIN rows'
          /\ rows'[i].number = rows[i].number
          /\ rows'[i].expires = rows[i].expires
          /\ IsOpen(rows'[i]) => IsOpen(rows[i])]_vars
  <2> SUFFICES ASSUME IInv, Next, NEW i \in DOMAIN rows
               PROVE  i \in DOMAIN rows' /\ Kept(rows[i], rows'[i])
    BY DEF Kept
  <2>1. rows \in Seq(Row) /\ i \in 1 .. Len(rows)
    BY DEF IInv, TypeOK
  <2>2. CASE rows' = rows
    BY <2>1, <2>2 DEF Kept
  <2>3. ASSUME NEW r \in Requests, Commit(r)
        PROVE  i \in DOMAIN rows' /\ Kept(rows[i], rows'[i])
    <3>1. /\ Written(r) \in Seq(Row) /\ Len(Written(r)) = Len(rows)
          /\ Kept(rows[i], Written(r)[i])
      BY <2>1, WrittenRows
    <3>2. rows' = Written(r) \/ rows' = Append(Written(r), tx[r].new)
      BY <2>3 DEF Commit
    <3> HIDE DEF Written
    <3>3. i \in DOMAIN rows' /\ rows'[i] = Written(r)[i]
      BY <2>1, <3>1, <3>2, SMTT(30)
    <3> QED
      BY <3>1, <3>3
  <2>4. (\E r \in Requests : Commit(r)) \/ rows' = rows
    BY DEF Next, Step, Tick, SignOut, Start, Access, Settle, Finished, InUseElsewhere, Claim,
       Submit, NotStartable, CountAttempts, Insert, ResumeWinner, NoWinner, Crash
  <2> QED
    BY <2>2, <2>3, <2>4
<1> QED
  BY <1>1, InvariantHolds, PTL DEF Spec, NeverReopened

-----------------------------------------------------------------------------
(* Sign-ins and reset codes. *)

\* What a sign-in under way relies on: its password is still the account's or the one set last, or
\* it knows of the change beside it.  A hash to be written again is of the password that has an
\* outdated one, and of the only password that another such sign-in can have brought back.
OpeningFits(q) ==
    q.at # "idle" /\ q.op \in SignIns!Opens =>
       /\ q.beside \/ (q.with \in {account.password, account.last} /\ account.active)
       /\ q.op = "rehash" /\ (account.outdated \/ account.password # account.last)
             => q.with = account.password

\* What a request relies on until it commits: the sessions it ends and the codes it voids are all
\* there are, or it knows that something goes on beside it.
RequestFits(q) ==
    /\ q.at = "locked" => q.op \in SignIns!Writes
    /\ q.op \in {"reset", "deactivate"} => q.by = None
    /\ OpeningFits(q)
    /\ q.at # "idle" /\ q.op \in SignIns!Opens /\ SignIns!Changing => q.beside
    /\ q.at = "locked" /\ q.op \in {"password", "reset", "deactivate"} =>
          \A s \in Sessions : SignIns!IsValid(s) => s \in q.ends \/ session[s].beside \/ s = q.by
    /\ q.at # "idle" /\ q.op = "issue" => q.beside \/ SignIns!OpenCodes \subseteq q.voids

\* The row lock excludes; hashes to be written again are of one password; codes issued side by side
\* know of each other.
RequestsApart(p, q) ==
    /\ ~(p.at = "locked" /\ q.at = "locked")
    /\ p.at # "idle" /\ q.at # "idle" /\ p.op = "rehash" /\ q.op = "rehash" => p.with = q.with
    /\ p.at # "idle" /\ q.at # "idle" /\ p.op = "issue" /\ q.op = "issue" => p.beside

SignInInv ==
    /\ SignIns!TypeOK
    /\ SignIns!AccessFollows
    /\ \A r \in Requests : RequestFits(req[r])
    /\ \A r, p \in Requests : r # p => RequestsApart(req[r], req[p])

\* The transaction of another request, which a step may mark as served beside it.
Marked(q, t) ==
    /\ t.at = q.at /\ t.op = q.op /\ t.by = q.by /\ t.with = q.with
    /\ t.ends = q.ends /\ t.voids = q.voids
    /\ q.beside => t.beside

LEMMA MoveKeeps ==
    ASSUME SignInInv, NEW r \in Requests,
           UNCHANGED <<account, session, code>>,
           req' \in [Requests -> SignIns!Req],
           \A p \in Requests \ {r} : Marked(req[p], req'[p]),
           RequestFits(req[r])',
           SignIns!Changing' => \/ SignIns!Changing
                                \/ \A p \in Requests \ {r} : req[p].at # "idle" /\ req[p].op \in SignIns!Opens => req'[p].beside,
           \A p \in Requests \ {r} : RequestsApart(req'[r], req'[p]) /\ RequestsApart(req'[p], req'[r])
    PROVE  SignInInv'
<1>1. SignIns!TypeOK'
  BY DEF SignInInv, SignIns!TypeOK
<1>2. SignIns!AccessFollows'
  BY DEF SignInInv, SignIns!AccessFollows, SignIns!IsValid, SignIns!OpenCodes
<1>3. ASSUME NEW p \in Requests \ {r} PROVE RequestFits(req[p])'
  <2>1. RequestFits(req[p]) /\ Marked(req[p], req'[p])
    BY DEF SignInInv
  <2>2. (SignIns!OpenCodes)' = SignIns!OpenCodes /\ \A s \in Sessions : SignIns!IsValid(s)' <=> SignIns!IsValid(s)
    BY DEF SignIns!OpenCodes, SignIns!IsValid
  <2>3. req'[p].at # "idle" /\ req'[p].op \in SignIns!Opens /\ SignIns!Changing' => req'[p].beside
    BY <2>1 DEF RequestFits, Marked
  <2>4. OpeningFits(req[p])'
    BY <2>1 DEF RequestFits, OpeningFits, Marked
  <2> QED
    BY <2>1, <2>2, <2>3, <2>4 DEF RequestFits, Marked
<1>4. ASSUME NEW p \in Requests, NEW q \in Requests, p # q PROVE RequestsApart(req[p], req[q])'
  <2>1. CASE p # r /\ q # r
    <3>1. RequestsApart(req[p], req[q]) /\ Marked(req[p], req'[p]) /\ Marked(req[q], req'[q])
      BY <1>4, <2>1 DEF SignInInv
    <3> QED
      BY <3>1 DEF RequestsApart, Marked
  <2> QED
    BY <1>4, <2>1 DEF RequestsApart
<1> QED
  BY <1>1, <1>2, <1>3, <1>4 DEF SignInInv

\* A step of r alone that changes no row and takes no lock.
LEMMA LocalKeeps ==
    ASSUME SignInInv, NEW r \in Requests, NEW t \in SignIns!Req,
           UNCHANGED <<account, session, code>>,
           req' = [req EXCEPT ![r] = t],
           t.at # "locked", t.at # "idle" => t.op # "issue",
           t.at # "idle" /\ t.op = "rehash" => account.outdated /\ t.with = account.password,
           RequestFits(t)
    PROVE  SignInInv'
<1>1. req \in [Requests -> SignIns!Req]
  BY DEF SignInInv, SignIns!TypeOK
<1>2. req' \in [Requests -> SignIns!Req] /\ req'[r] = t /\ \A p \in Requests \ {r} : req'[p] = req[p]
  BY <1>1
<1>3. \A p \in Requests \ {r} : Marked(req[p], req'[p])
  BY <1>2 DEF Marked
<1>4. SignIns!Changing' => SignIns!Changing
  BY <1>2 DEF SignIns!Changing
<1>5. RequestFits(t)'
  <2>1. (SignIns!OpenCodes)' = SignIns!OpenCodes /\ \A s \in Sessions : SignIns!IsValid(s)' <=> SignIns!IsValid(s)
    BY DEF SignIns!OpenCodes, SignIns!IsValid
  <2> QED
    BY <1>4, <2>1 DEF RequestFits, OpeningFits
<1>6. RequestFits(req[r])'
  BY <1>2, <1>5 DEF RequestFits
<1>7. ASSUME NEW p \in Requests \ {r}
      PROVE  RequestsApart(req'[r], req'[p]) /\ RequestsApart(req'[p], req'[r])
  <2>1. OpeningFits(req[p])
    BY DEF SignInInv, RequestFits
  <2>2. req[p].at # "idle" /\ req[p].op = "rehash" /\ account.outdated => req[p].with = account.password
    BY <2>1 DEF OpeningFits, SignIns!Opens
  <2> QED
    BY <1>2, <2>2 DEF RequestsApart
<1> QED
  BY <1>2, <1>3, <1>4, <1>6, <1>7, MoveKeeps

LEMMA NoReqIs ==
    /\ SignIns!NoReq \in SignIns!Req
    /\ SignIns!NoReq.at = "idle" /\ SignIns!NoReq.op = "sign in"
    /\ SignIns!NoReq.by = None /\ SignIns!NoReq.ref = None
    /\ SignIns!NoReq.ends = {} /\ SignIns!NoReq.voids = {} /\ ~SignIns!NoReq.beside
  BY DEF SignIns!NoReq, SignIns!Req, SignIns!Operations

LEMMA ReadingIs ==
    ASSUME NEW o \in SignIns!Operations
    PROVE  /\ SignIns!Reading(o) \in SignIns!Req
           /\ SignIns!Reading(o).at = "read" /\ SignIns!Reading(o).op = o
           /\ SignIns!Reading(o).by = None /\ SignIns!Reading(o).ref = None
  BY NoReqIs DEF SignIns!Reading, SignIns!Req

LEMMA BeginsSignIn == ASSUME SignInInv, NEW r \in Requests, SignIns!SignIn(r) PROVE SignInInv'
<1> DEFINE o == IF account.outdated THEN "rehash" ELSE "sign in"
           l == SignIns!Changing
<1>1. PICK s \in Sessions :
         req' = [req EXCEPT ![r] = [SignIns!Reading(o) EXCEPT !.by = s, !.with = account.password, !.beside = l]]
  BY DEF SignIns!SignIn, SignIns!Begin
<1> DEFINE t == [SignIns!Reading(o) EXCEPT !.by = s, !.with = account.password, !.beside = l]
<1>2. /\ account \in SignIns!Account /\ account.active
      /\ UNCHANGED <<account, session, code>>
  BY DEF SignInInv, SignIns!TypeOK, SignIns!SignIn
<1>3. /\ l \in BOOLEAN /\ o \in SignIns!Operations
      /\ o \in SignIns!Opens /\ o \notin {"reset", "deactivate", "issue"}
      /\ o = "rehash" => account.outdated
  BY DEF SignIns!Changing, SignIns!Operations, SignIns!Writes, SignIns!Opens
<1>4. /\ t \in SignIns!Req /\ t.at = "read" /\ t.op = o
      /\ t.with = account.password /\ t.beside = l
  <2> DEFINE read == SignIns!Reading(o)
  <2>1. read \in SignIns!Req /\ read.at = "read" /\ read.op = o
    BY <1>3, ReadingIs
  <2> HIDE DEF l, o, read
  <2>2. account.password \in Nat
    BY <1>2 DEF SignIns!Account
  <2>3. [read EXCEPT !.by = s, !.with = account.password, !.beside = l] \in SignIns!Req
    BY <1>3, <2>1, <2>2 DEF SignIns!Req
  <2> QED
    BY <1>3, <2>1, <2>2, <2>3 DEF SignIns!Req, read
<1>5. req' = [req EXCEPT ![r] = t]
  BY <1>1
<1> HIDE DEF t, o
<1>6. RequestFits(t)
  BY <1>2, <1>3, <1>4 DEF RequestFits, OpeningFits
<1> QED
  BY <1>2, <1>3, <1>4, <1>5, <1>6, LocalKeeps

\* A request that has only read the rows, whatever it is but a sign-in or a new code.
LEMMA ReadKeeps ==
    ASSUME SignInInv, NEW r \in Requests, NEW t \in SignIns!Req,
           UNCHANGED <<account, session, code>>,
           req' = [req EXCEPT ![r] = t],
           t.at = "read", t.op \notin SignIns!Opens \cup {"issue"},
           t.op \in {"reset", "deactivate"} => t.by = None
    PROVE  SignInInv'
<1>1. RequestFits(t)
  BY DEF RequestFits, OpeningFits
<1>2. t.op \notin {"issue", "rehash"}
  BY DEF SignIns!Opens
<1> QED
  BY <1>1, <1>2, LocalKeeps

LEMMA BeginsOther ==
    ASSUME SignInInv, NEW r \in Requests,
           SignIns!BySession(r) \/ SignIns!Everywhere(r) \/ SignIns!Redeem(r) \/ SignIns!SetActive(r)
    PROVE  SignInInv'
<1>1. CASE SignIns!BySession(r)
  <2>1. PICK s \in Sessions, o \in {"sign out", "password"} :
            req' = [req EXCEPT ![r] = [SignIns!Reading(o) EXCEPT !.by = s]]
    BY <1>1 DEF SignIns!BySession, SignIns!Begin
  <2> DEFINE t == [SignIns!Reading(o) EXCEPT !.by = s]
  <2>2. o \in SignIns!Operations
    BY DEF SignIns!Operations, SignIns!Writes, SignIns!Changes
  <2>3. SignIns!Reading(o) \in SignIns!Req /\ SignIns!Reading(o).at = "read" /\ SignIns!Reading(o).op = o
    BY <2>2, ReadingIs
  <2>4. t \in SignIns!Req /\ t.at = "read" /\ t.op = o
    BY <2>3 DEF SignIns!Req
  <2>5. t.op \notin SignIns!Opens \cup {"issue"} /\ t.op \notin {"reset", "deactivate"}
    BY <2>4 DEF SignIns!Opens
  <2>6. req' = [req EXCEPT ![r] = t] /\ UNCHANGED <<account, session, code>>
    BY <1>1, <2>1 DEF SignIns!BySession
  <2> HIDE DEF t
  <2> QED
    BY <2>4, <2>5, <2>6, ReadKeeps
<1>2. CASE SignIns!Everywhere(r)
  <2> DEFINE t == [SignIns!Reading("everywhere") EXCEPT !.ends = SignIns!ToEnd(None)]
  <2>1. "everywhere" \in SignIns!Operations /\ SignIns!ToEnd(None) \subseteq Sessions
    BY DEF SignIns!Operations, SignIns!ToEnd
  <2>3. t \in SignIns!Req /\ t.at = "read" /\ t.op = "everywhere"
    BY <2>1, ReadingIs DEF SignIns!Req
  <2>4. req' = [req EXCEPT ![r] = t] /\ UNCHANGED <<account, session, code>>
    BY <1>2 DEF SignIns!Everywhere, SignIns!Begin
  <2> HIDE DEF t
  <2> QED
    BY <2>3, <2>4, ReadKeeps DEF SignIns!Opens
<1>3. CASE SignIns!Redeem(r)
  <2>1. PICK c \in Codes : req' = [req EXCEPT ![r] = [SignIns!Reading("reset") EXCEPT !.ref = c]]
    BY <1>3 DEF SignIns!Redeem, SignIns!Begin, SignIns!OpenCodes
  <2> DEFINE t == [SignIns!Reading("reset") EXCEPT !.ref = c]
  <2>2. "reset" \in SignIns!Operations
    BY DEF SignIns!Operations, SignIns!Writes, SignIns!Changes
  <2>4. t \in SignIns!Req /\ t.at = "read" /\ t.op = "reset" /\ t.by = None
    BY <2>2, ReadingIs DEF SignIns!Req
  <2> HIDE DEF t
  <2> QED
    BY <1>3, <2>1, <2>4, ReadKeeps DEF SignIns!Redeem, SignIns!Opens, t
<1>4. CASE SignIns!SetActive(r)
  <2>1. PICK o \in {"deactivate", "reactivate"} : req' = [req EXCEPT ![r] = SignIns!Reading(o)]
    BY <1>4 DEF SignIns!SetActive, SignIns!Begin
  <2> DEFINE t == SignIns!Reading(o)
  <2>2. o \in SignIns!Operations
    BY DEF SignIns!Operations, SignIns!Writes, SignIns!Changes
  <2>4. t \in SignIns!Req /\ t.at = "read" /\ t.op = o /\ t.by = None
    BY <2>2, ReadingIs DEF SignIns!Req
  <2> HIDE DEF t
  <2> QED
    BY <1>4, <2>1, <2>4, ReadKeeps DEF SignIns!SetActive, SignIns!Opens, t
<1> QED
  BY <1>1, <1>2, <1>3, <1>4

LEMMA RollsBack ==
    ASSUME SignInInv, NEW r \in Requests, SignIns!Rollback(r) PROVE SignInInv'
<1>1. RequestFits(SignIns!NoReq)
  BY NoReqIs DEF RequestFits, OpeningFits
<1> QED
  BY <1>1, NoReqIs, LocalKeeps DEF SignIns!Rollback

\* A code issued beside another, and the other, know of each other.
LEMMA Issues == ASSUME SignInInv, NEW r \in Requests, SignIns!Issue(r) PROVE SignInInv'
<1> DEFINE others == {p \in Requests : req[p].at # "idle" /\ req[p].op = "issue"}
<1>1. req \in [Requests -> SignIns!Req]
  BY SMTT(30) DEF SignInInv, SignIns!TypeOK
<1>2. PICK c \in Codes :
         req' = [p \in Requests |->
                   IF p = r
                   THEN [SignIns!Reading("issue") EXCEPT !.ref = c, !.voids = SignIns!OpenCodes,
                                                 !.beside = others # {}]
                   ELSE [req[p] EXCEPT !.beside = @ \/ p \in others]]
  BY DEF SignIns!Issue
<1> DEFINE t == [SignIns!Reading("issue") EXCEPT !.ref = c, !.voids = SignIns!OpenCodes, !.beside = others # {}]
<1>3. "issue" \in SignIns!Operations /\ SignIns!OpenCodes \subseteq Codes
  BY DEF SignIns!Operations, SignIns!OpenCodes
<1>4. (others # {}) \in BOOLEAN
  OBVIOUS
<1>5. t \in SignIns!Req /\ t.at = "read" /\ t.op = "issue" /\ t.voids = SignIns!OpenCodes
      /\ (t.beside = (others # {}))
  <2> DEFINE b == others # {}
             read == SignIns!Reading("issue")
  <2>1. read \in SignIns!Req /\ read.at = "read" /\ read.op = "issue"
    BY <1>3, ReadingIs
  <2>2. b \in BOOLEAN
    OBVIOUS
  <2> HIDE DEF b, read
  <2>3. [read EXCEPT !.ref = c, !.voids = SignIns!OpenCodes, !.beside = b] \in SignIns!Req
    BY <1>3, <2>1, <2>2 DEF SignIns!Req
  <2> QED
    BY <1>3, <2>1, <2>2, <2>3 DEF SignIns!Req, b, read
<1>6. req'[r] = t
  BY <1>2
<1> HIDE DEF t
<1>7. ASSUME NEW p \in Requests \ {r}
      PROVE  /\ req'[p] \in SignIns!Req /\ Marked(req[p], req'[p])
             /\ p \in others => req'[p].beside
  <2>1. req'[p] = [req[p] EXCEPT !.beside = @ \/ p \in others] /\ req[p] \in SignIns!Req
    BY <1>1, <1>2
  <2> HIDE DEF others
  <2>2. (req[p].beside \/ p \in others) \in BOOLEAN
    OBVIOUS
  <2> QED
    BY <2>1, <2>2 DEF SignIns!Req, Marked
<1>8. req' \in [Requests -> SignIns!Req]
  <2>1. req' = [p \in Requests |-> req'[p]]
    BY <1>2
  <2> QED
    BY <1>5, <1>6, <1>7, <2>1
<1>9. RequestFits(req[r])'
  <2>1. (SignIns!OpenCodes)' = SignIns!OpenCodes
    BY DEF SignIns!OpenCodes, SignIns!Issue
  <2> QED
    BY <1>5, <1>6, <2>1 DEF RequestFits, OpeningFits, SignIns!Opens
<1>10. \A p \in Requests \ {r} : RequestsApart(req'[r], req'[p]) /\ RequestsApart(req'[p], req'[r])
  BY <1>5, <1>6, <1>7 DEF RequestsApart, Marked
<1>11. SignIns!Changing' => SignIns!Changing
  BY <1>5, <1>6, <1>7 DEF SignIns!Changing, Marked
<1>12. UNCHANGED <<account, session, code>>
  BY DEF SignIns!Issue
<1> QED
  BY <1>7, <1>8, <1>9, <1>10, <1>11, <1>12, MoveKeeps

\* The lock: the sessions that end are all that are valid, and sign-ins under way know of it.
LEMMA Locks == ASSUME SignInInv, NEW r \in Requests, SignIns!Lock(r) PROVE SignInInv'
<1> DEFINE in(p) == req[r].op \in SignIns!Changes /\ req[p].at # "idle" /\ req[p].op \in SignIns!Opens
           ends == IF req[r].op \in {"reactivate", "rehash"} THEN {} ELSE SignIns!ToEnd(req[r].by)
           t == [req[r] EXCEPT !.at = "locked", !.ends = ends]
<1>1. req \in [Requests -> SignIns!Req] /\ req[r] \in SignIns!Req
  BY DEF SignInInv, SignIns!TypeOK
<1>2. req' = [p \in Requests |-> IF p = r THEN t ELSE [req[p] EXCEPT !.beside = @ \/ in(p)]]
  BY DEF SignIns!Lock
<1>3. ends \subseteq Sessions
  BY DEF SignIns!ToEnd
<1>4. /\ t \in SignIns!Req /\ t.at = "locked" /\ t.op = req[r].op /\ t.by = req[r].by
      /\ t.ends = ends /\ t.beside = req[r].beside /\ t.with = req[r].with
  <2> HIDE DEF ends
  <2> QED
    BY <1>1, <1>3 DEF SignIns!Req
<1>5. req'[r] = t
  BY <1>2
<1> HIDE DEF t
<1>6. ASSUME NEW p \in Requests \ {r}
      PROVE  /\ req'[p] \in SignIns!Req /\ Marked(req[p], req'[p])
             /\ in(p) => req'[p].beside
  <2>1. req'[p] = [req[p] EXCEPT !.beside = @ \/ in(p)] /\ req[p] \in SignIns!Req
    BY <1>1, <1>2
  <2>2. (req[p].beside \/ in(p)) \in BOOLEAN
    OBVIOUS
  <2> HIDE DEF in
  <2> QED
    BY <2>1, <2>2 DEF SignIns!Req, Marked
<1>7. req' \in [Requests -> SignIns!Req]
  <2>1. req' = [p \in Requests |-> req'[p]]
    BY <1>2
  <2> QED
    BY <1>4, <1>5, <1>6, <2>1
<1>8. req[r].op \in SignIns!Writes /\ ~SignIns!Locked /\ req[r].at = "read" /\ UNCHANGED <<account, session, code>>
  BY DEF SignIns!Lock
<1>9. ASSUME NEW p \in Requests \ {r} PROVE req'[p].at # "locked"
  BY <1>6, <1>8 DEF Marked, SignIns!Locked
<1>10. (SignIns!Changing)' => req[r].op \in SignIns!Changes
  BY <1>4, <1>5, <1>9 DEF SignIns!Changing
<1>11. RequestFits(req[r])'
  <2>1. RequestFits(req[r])
    BY DEF SignInInv
  <2>2. \A s \in Sessions : SignIns!IsValid(s)' <=> SignIns!IsValid(s)
    BY <1>8 DEF SignIns!IsValid
  <2>3. req[r].op \in {"password", "reset", "deactivate"} =>
           \A s \in Sessions : SignIns!IsValid(s) => s \in ends \/ s = req[r].by
    BY DEF SignIns!ToEnd
  <2>4. req[r].op # "issue" /\ (req[r].op \in SignIns!Opens => req[r].op \notin SignIns!Changes)
    BY <1>8 DEF SignIns!Writes, SignIns!Changes, SignIns!Opens
  <2>5. OpeningFits(req[r])'
    BY <1>4, <1>5, <1>8, <2>1 DEF RequestFits, OpeningFits
  <2> HIDE DEF ends
  <2> QED
    BY <1>4, <1>5, <1>8, <1>10, <2>1, <2>2, <2>3, <2>4, <2>5 DEF RequestFits
<1>12. ASSUME NEW p \in Requests \ {r}
       PROVE  RequestsApart(req'[r], req'[p]) /\ RequestsApart(req'[p], req'[r])
  <2>1. t.op # "issue"
    BY <1>4, <1>8 DEF SignIns!Writes, SignIns!Changes
  <2>2. RequestsApart(req[r], req[p])
    BY DEF SignInInv
  <2> QED
    BY <1>4, <1>5, <1>6, <1>8, <1>9, <2>1, <2>2 DEF RequestsApart, Marked
<1>13. (SignIns!Changing)' => \A p \in Requests \ {r} : req[p].at # "idle" /\ req[p].op \in SignIns!Opens => req'[p].beside
  BY <1>6, <1>10
<1> QED
  BY <1>6, <1>7, <1>8, <1>11, <1>12, <1>13, MoveKeeps

-----------------------------------------------------------------------------
\* A step that changes rows and leaves every other request alone: what it may do to them.
LEMMA RowsKeep ==
    ASSUME SignInInv, NEW R \in SUBSET Requests,
           req' \in [Requests -> SignIns!Req],
           SignIns!TypeOK', SignIns!AccessFollows',
           \A p \in Requests \ R : req'[p] = req[p],
           \A p \in R : req'[p] = SignIns!NoReq,
           \A p \in Requests \ R : OpeningFits(req[p])',
           \A p \in Requests \ R, s \in Sessions :
               req[p].at = "locked" /\ req[p].op \in SignIns!Changes /\ SignIns!IsValid(s)' =>
                  (SignIns!IsValid(s) /\ session'[s].beside = session[s].beside) \/ session'[s].beside,
           \A p \in Requests \ R : req[p].at # "idle" /\ req[p].op = "issue" =>
                  req[p].beside \/ (SignIns!OpenCodes)' \subseteq SignIns!OpenCodes
    PROVE  SignInInv'
<1>1. SignIns!Changing' => SignIns!Changing
  BY NoReqIs DEF SignIns!Changing
<1>2. ASSUME NEW p \in Requests PROVE RequestFits(req[p])'
  <2>1. CASE p \in R
    <3>1. req'[p] = SignIns!NoReq
      BY <2>1
    <3> QED
      BY <3>1, NoReqIs DEF RequestFits, OpeningFits
  <2>2. CASE p \notin R
    <3>1. req'[p] = req[p] /\ RequestFits(req[p])
      BY <2>2 DEF SignInInv
    <3>2. /\ OpeningFits(req[p])'
          /\ req[p].at # "idle" /\ req[p].op \in SignIns!Opens /\ SignIns!Changing' => req[p].beside
      BY <1>1, <2>2, <3>1 DEF RequestFits
    <3>3. req[p].at = "locked" /\ req[p].op \in {"password", "reset", "deactivate"} =>
             \A s \in Sessions : SignIns!IsValid(s)' => s \in req[p].ends \/ session'[s].beside \/ s = req[p].by
      BY <2>2, <3>1 DEF RequestFits, SignIns!Changes
    <3>4. req[p].at # "idle" /\ req[p].op = "issue" => req[p].beside \/ (SignIns!OpenCodes)' \subseteq req[p].voids
      BY <2>2, <3>1 DEF RequestFits
    <3> QED
      BY <3>1, <3>2, <3>3, <3>4 DEF RequestFits
  <2> QED
    BY <2>1, <2>2
<1>3. ASSUME NEW p \in Requests, NEW q \in Requests, p # q PROVE RequestsApart(req[p], req[q])'
  <2>1. RequestsApart(req[p], req[q])
    BY <1>3 DEF SignInInv
  <2> QED
    BY <2>1, NoReqIs DEF RequestsApart
<1> QED
  BY <1>2, <1>3 DEF SignInInv

LEMMA Expires == ASSUME SignInInv, SignIns!Expire \/ SignIns!Retention PROVE SignInInv'
<1>1. /\ session \in [Sessions -> SignIns!Session \cup {None}] /\ code \in [Codes -> SignIns!Code \cup {None}]
      /\ req \in [Requests -> SignIns!Req] /\ account \in SignIns!Account
  BY DEF SignInInv, SignIns!TypeOK
<1>2. UNCHANGED <<account, req>>
  BY DEF SignIns!Expire, SignIns!Retention
<1>3. /\ session' \in [Sessions -> SignIns!Session \cup {None}]
      /\ \A s \in Sessions : SignIns!IsValid(s)' => SignIns!IsValid(s) /\ session'[s] = session[s]
  <2>1. CASE session' = session
    BY <1>1, <2>1 DEF SignIns!IsValid
  <2>2. ASSUME NEW x \in Sessions, SignIns!IsValid(x), session' = [session EXCEPT ![x].over = TRUE]
        PROVE  /\ session' \in [Sessions -> SignIns!Session \cup {None}]
               /\ \A s \in Sessions : SignIns!IsValid(s)' => SignIns!IsValid(s) /\ session'[s] = session[s]
    <3>1. session[x] \in SignIns!Session
      BY <1>1, <2>2 DEF SignIns!IsValid
    <3>2. [session[x] EXCEPT !.over = TRUE] \in SignIns!Session /\ [session[x] EXCEPT !.over = TRUE].over
      BY <3>1 DEF SignIns!Session
    <3> DEFINE y == [session[x] EXCEPT !.over = TRUE]
    <3>3. session' = [session EXCEPT ![x] = y]
      BY <2>2
    <3> HIDE DEF y
    <3> QED
      BY <1>1, <3>2, <3>3 DEF SignIns!IsValid, y
  <2>3. ASSUME NEW x \in Sessions, session' = [session EXCEPT ![x] = None]
        PROVE  /\ session' \in [Sessions -> SignIns!Session \cup {None}]
               /\ \A s \in Sessions : SignIns!IsValid(s)' => SignIns!IsValid(s) /\ session'[s] = session[s]
    BY <1>1, <2>3 DEF SignIns!IsValid
  <2> QED
    BY <2>1, <2>2, <2>3 DEF SignIns!Expire, SignIns!Retention
<1>4. /\ code' \in [Codes -> SignIns!Code \cup {None}]
      /\ \A c \in (SignIns!OpenCodes)' : c \in SignIns!OpenCodes /\ code'[c] = code[c]
  <2>1. CASE code' = code
    BY <1>1, <2>1 DEF SignIns!OpenCodes
  <2>2. ASSUME NEW x \in SignIns!OpenCodes, code' = [code EXCEPT ![x].open = FALSE]
        PROVE  /\ code' \in [Codes -> SignIns!Code \cup {None}]
               /\ \A c \in (SignIns!OpenCodes)' : c \in SignIns!OpenCodes /\ code'[c] = code[c]
    <3>1. code[x] \in SignIns!Code /\ x \in Codes
      BY <1>1, <2>2 DEF SignIns!OpenCodes
    <3> DEFINE y == [code[x] EXCEPT !.open = FALSE]
    <3>2. y \in SignIns!Code /\ ~y.open
      BY <3>1 DEF SignIns!Code
    <3>3. code' = [code EXCEPT ![x] = y]
      BY <2>2
    <3> HIDE DEF y
    <3> QED
      BY <1>1, <3>1, <3>2, <3>3 DEF SignIns!OpenCodes
  <2>3. ASSUME NEW x \in Codes, code' = [code EXCEPT ![x] = None]
        PROVE  /\ code' \in [Codes -> SignIns!Code \cup {None}]
               /\ \A c \in (SignIns!OpenCodes)' : c \in SignIns!OpenCodes /\ code'[c] = code[c]
    BY <1>1, <2>3 DEF SignIns!OpenCodes
  <2> QED
    BY <2>1, <2>2, <2>3 DEF SignIns!Expire, SignIns!Retention
<1>5. SignIns!TypeOK'
  BY <1>1, <1>2, <1>3, <1>4 DEF SignIns!TypeOK
<1>6. SignIns!AccessFollows'
  BY <1>2, <1>3, <1>4 DEF SignInInv, SignIns!AccessFollows
<1>7. req' \in [Requests -> SignIns!Req] /\ \A p \in Requests : req'[p] = req[p]
  BY <1>1, <1>2
<1>8. (SignIns!OpenCodes)' \subseteq SignIns!OpenCodes
  BY <1>4
<1>9. \A s \in Sessions : SignIns!IsValid(s)' => SignIns!IsValid(s) /\ session'[s].beside = session[s].beside
  BY <1>3
<1>11. ASSUME NEW p \in Requests PROVE OpeningFits(req[p])'
  <2>1. OpeningFits(req[p])
    BY DEF SignInInv, RequestFits
  <2> QED
    BY <1>2, <2>1 DEF OpeningFits
<1> DEFINE R == {}
<1>12. R \in SUBSET Requests /\ \A p \in R : req'[p] = SignIns!NoReq
  OBVIOUS
<1>13. \A p \in Requests \ R : req'[p] = req[p]
  BY <1>7
<1> HIDE DEF R
<1> QED
  BY <1>5, <1>6, <1>7, <1>8, <1>9, <1>11, <1>12, <1>13, RowsKeep

LEMMA Upgrades == ASSUME SignInInv, SignIns!Upgrade PROVE SignInInv'
<1>1. /\ session \in [Sessions -> SignIns!Session \cup {None}] /\ code \in [Codes -> SignIns!Code \cup {None}]
      /\ account \in SignIns!Account
  BY DEF SignInInv, SignIns!TypeOK
<1>2. /\ account' = [account EXCEPT !.outdated = TRUE] /\ UNCHANGED <<session, code>>
      /\ req' = [r \in Requests |-> SignIns!NoReq]
  BY DEF SignIns!Upgrade
<1>3. /\ account' \in SignIns!Account /\ account'.active = account.active
      /\ account'.password = account.password /\ account'.last = account.last
  BY <1>1, <1>2 DEF SignIns!Account
<1>4. req' \in [Requests -> SignIns!Req]
  BY <1>2, NoReqIs
<1>5. SignIns!TypeOK'
  BY <1>1, <1>2, <1>3, <1>4 DEF SignIns!TypeOK
<1>6. SignIns!AccessFollows'
  BY <1>2, <1>3 DEF SignInInv, SignIns!AccessFollows, SignIns!IsValid, SignIns!OpenCodes
<1> DEFINE R == Requests
<1>7. R \in SUBSET Requests /\ \A p \in R : req'[p] = SignIns!NoReq
  BY <1>2
<1>8. Requests \ R = {}
  OBVIOUS
<1> HIDE DEF R
<1> QED
  BY <1>4, <1>5, <1>6, <1>7, <1>8, RowsKeep

\* What a commit writes: every row that is left alone, ended, changed or new.
LEMMA Writes ==
    ASSUME SignInInv, NEW r \in Requests, SignIns!Commit(r)
    PROVE  /\ account' \in SignIns!Account
           /\ session' \in [Sessions -> SignIns!Session \cup {None}]
           /\ code' \in [Codes -> SignIns!Code \cup {None}]
           /\ req' \in [Requests -> SignIns!Req]
           /\ req'[r] = SignIns!NoReq /\ \A p \in Requests \ {r} : req'[p] = req[p]
           /\ req[r] \in SignIns!Req /\ req[r].at # "idle" /\ RequestFits(req[r])
           /\ None \notin Sessions
           /\ \A s \in Sessions : session'[s] = SignIns!Written(r, s)
           /\ \A c \in Codes : code'[c] = SignIns!WrittenCode(r, c)
<1>1. /\ session \in [Sessions -> SignIns!Session \cup {None}] /\ code \in [Codes -> SignIns!Code \cup {None}]
      /\ req \in [Requests -> SignIns!Req] /\ account \in SignIns!Account /\ req[r] \in SignIns!Req
      /\ RequestFits(req[r])
  BY DEF SignInInv, SignIns!TypeOK
<1>2. req' = [req EXCEPT ![r] = SignIns!NoReq]
  BY DEF SignIns!Commit
<1>3. account' \in SignIns!Account
  <2>1. account.last + 1 \in Nat /\ req[r].with \in Nat /\ account' = SignIns!Changed(r)
    BY <1>1 DEF SignIns!Commit, SignIns!Account, SignIns!Req
  <2>2. CASE req[r].op \in SignIns!Writes
    BY <1>1, <2>1, <2>2 DEF SignIns!Changed, SignIns!Account, SignIns!Writes, SignIns!Changes
  <2>3. CASE req[r].op \notin SignIns!Writes
    BY <1>1, <2>1, <2>3 DEF SignIns!Changed, SignIns!Writes, SignIns!Changes
  <2> QED
    BY <2>2, <2>3
<1>4. ASSUME NEW s \in Sessions PROVE SignIns!Written(r, s) \in SignIns!Session \cup {None}
  <2>1. session[s] \in SignIns!Session \cup {None} /\ account.last + 1 \in Nat
    BY <1>1 DEF SignIns!Account
  <2>2. SignIns!NewSession(r) \in SignIns!Session
    BY <1>1 DEF SignIns!NewSession, SignIns!Session, SignIns!Req
  <2> QED
    BY <2>1, <2>2 DEF SignIns!Written, SignIns!Session
<1>5. ASSUME NEW c \in Codes PROVE SignIns!WrittenCode(r, c) \in SignIns!Code \cup {None}
  <2>1. code[c] \in SignIns!Code \cup {None} /\ req[r].beside \in BOOLEAN
    BY <1>1 DEF SignIns!Req
  <2> QED
    BY <2>1 DEF SignIns!WrittenCode, SignIns!Code
<1>6. /\ session' = [s \in Sessions |-> SignIns!Written(r, s)]
      /\ code' = [c \in Codes |-> SignIns!WrittenCode(r, c)]
  BY DEF SignIns!Commit
<1>7. req[r].at # "idle"
  BY DEF SignIns!Commit
<1>8. req' \in [Requests -> SignIns!Req] /\ req'[r] = SignIns!NoReq /\ \A p \in Requests \ {r} : req'[p] = req[p]
  BY <1>1, <1>2, NoReqIs
<1> QED
  BY <1>1, <1>3, <1>4, <1>5, <1>6, <1>7, <1>8, AccessConstants

\* A session that is valid after a commit is the new one, or was valid before and is not one
\* that ends.
LEMMA StaysValid ==
    ASSUME SignInInv, NEW r \in Requests, SignIns!Commit(r), NEW s \in Sessions, SignIns!IsValid(s)'
    PROVE  \/ /\ req[r].op \in SignIns!Opens /\ s = req[r].by
              /\ session'[s].password = req[r].with /\ session'[s].beside = req[r].beside
           \/ /\ SignIns!IsValid(s) /\ s \notin req[r].ends
              /\ ~(req[r].op = "sign out" /\ s = req[r].by)
              /\ session'[s].beside = session[s].beside
              /\ session'[s].password = IF req[r].op = "password" /\ s = req[r].by
                                        THEN account.last + 1 ELSE session[s].password
<1>1. session'[s] = SignIns!Written(r, s) /\ session[s] \in SignIns!Session \cup {None} /\ account.last + 1 \in Nat
  BY Writes DEF SignInInv, SignIns!TypeOK, SignIns!Account
<1>2. session'[s] # None /\ ~session'[s].over
  BY DEF SignIns!IsValid
<1>3. CASE req[r].op \in SignIns!Opens /\ s = req[r].by
  <2> DEFINE b == req[r].beside
  <2>1. session'[s] = SignIns!NewSession(r)
    BY <1>1, <1>3 DEF SignIns!Written
  <2>2. b \in BOOLEAN
    BY Writes DEF SignIns!Req
  <2>3. SignIns!NewSession(r) = [over |-> FALSE, password |-> req[r].with, beside |-> b]
    BY DEF SignIns!NewSession
  <2> HIDE DEF b
  <2>4. session'[s].password = req[r].with /\ session'[s].beside = b
    BY <2>1, <2>2, <2>3
  <2> QED
    BY <1>3, <2>4 DEF b
<1>4. CASE ~(req[r].op \in SignIns!Opens /\ s = req[r].by)
  <2>1. session[s] # None => session[s] \in SignIns!Session
    BY <1>1
  <2>2. CASE session[s] # None /\ s \in req[r].ends
    <3>1. session'[s] = [session[s] EXCEPT !.over = TRUE]
      BY <1>1, <1>4, <2>2 DEF SignIns!Written
    <3> QED
      BY <1>2, <2>1, <2>2, <3>1 DEF SignIns!Session
  <2>3. CASE session[s] # None /\ s \notin req[r].ends /\ s = req[r].by /\ req[r].op = "sign out"
    <3>1. session'[s] = [session[s] EXCEPT !.over = TRUE]
      BY <1>1, <1>4, <2>3 DEF SignIns!Written
    <3> QED
      BY <1>2, <2>1, <2>3, <3>1 DEF SignIns!Session
  <2>4. CASE session[s] # None /\ s \notin req[r].ends /\ s = req[r].by /\ req[r].op = "password"
    <3>1. session'[s] = [session[s] EXCEPT !.password = account.last + 1]
      BY <1>1, <1>4, <2>4 DEF SignIns!Written
    <3>2. session'[s].over = session[s].over /\ session'[s].beside = session[s].beside /\ session'[s].password = account.last + 1
      BY <2>1, <2>4, <3>1 DEF SignIns!Session
    <3> QED
      BY <1>2, <2>4, <3>2 DEF SignIns!IsValid
  <2>5. CASE session[s] = None \/ (s \notin req[r].ends /\ ~(s = req[r].by /\ req[r].op \in {"sign out", "password"}))
    <3>1. session'[s] = session[s]
      BY <1>1, <1>4, <2>5 DEF SignIns!Written
    <3> QED
      BY <1>2, <2>5, <3>1 DEF SignIns!IsValid
  <2> QED
    BY <2>2, <2>3, <2>4, <2>5
<1> QED
  BY <1>3, <1>4

\* A code that is open after a commit is the new one, or was open before and is not voided.
LEMMA StaysOpen ==
    ASSUME SignInInv, NEW r \in Requests, SignIns!Commit(r), NEW c \in (SignIns!OpenCodes)'
    PROVE  \/ req[r].op = "issue" /\ c = req[r].ref /\ code'[c].beside = req[r].beside
           \/ c \in SignIns!OpenCodes /\ c \notin req[r].voids /\ code'[c] = code[c]
<1>1. c \in Codes /\ code'[c] # None /\ code'[c].open
  BY DEF SignIns!OpenCodes
<1>2. code'[c] = SignIns!WrittenCode(r, c) /\ code[c] \in SignIns!Code \cup {None}
  BY <1>1, Writes DEF SignInInv, SignIns!TypeOK
<1>3. CASE c = req[r].ref /\ req[r].op = "issue"
  BY <1>2, <1>3 DEF SignIns!WrittenCode
<1>4. CASE ~(c = req[r].ref /\ req[r].op = "issue") /\ code[c] # None /\ (c = req[r].ref \/ c \in req[r].voids)
  <2>1. code'[c] = [code[c] EXCEPT !.open = FALSE] /\ code[c] \in SignIns!Code
    BY <1>2, <1>4 DEF SignIns!WrittenCode
  <2> QED
    BY <1>1, <2>1 DEF SignIns!Code
<1>5. CASE ~(c = req[r].ref /\ req[r].op = "issue") /\ ~(code[c] # None /\ (c = req[r].ref \/ c \in req[r].voids))
  <2>1. code'[c] = code[c]
    BY <1>2, <1>5 DEF SignIns!WrittenCode
  <2> QED
    BY <1>1, <1>5, <2>1 DEF SignIns!OpenCodes
<1> QED
  BY <1>3, <1>4, <1>5

LEMMA Commits == ASSUME SignInInv, NEW r \in Requests, SignIns!Commit(r) PROVE SignInInv'
<1> DEFINE q == req[r]
<1>1. /\ q \in SignIns!Req /\ q.at # "idle" /\ RequestFits(q) /\ account \in SignIns!Account
      /\ q.at = IF q.op \in SignIns!Writes THEN "locked" ELSE "read"
  BY Writes DEF SignInInv, SignIns!TypeOK, SignIns!Commit
<1>2. SignIns!TypeOK'
  BY Writes DEF SignIns!TypeOK
<1>3. /\ account' = SignIns!Changed(r)
      /\ q.op \notin SignIns!Writes => account' = account
  BY DEF SignIns!Commit, SignIns!Changed, SignIns!Writes, SignIns!Changes
<1>4. /\ q.op \in {"password", "reset"} =>
            /\ account'.password = account.last + 1 /\ account'.last = account.last + 1
            /\ ~account'.outdated /\ account'.active = account.active
      /\ q.op = "rehash" =>
            /\ account'.password = q.with /\ account'.last = account.last
            /\ ~account'.outdated /\ account'.active = account.active
      /\ q.op \in {"deactivate", "reactivate"} =>
            /\ account'.password = account.password /\ account'.last = account.last
            /\ account'.outdated = account.outdated
      /\ q.op = "reactivate" => account'.active
  BY <1>1, <1>3 DEF SignIns!Changed, SignIns!Account
\* A hash written again is of the account's password, or of another beside the one set last.
<1>14. q.op = "rehash" /\ account.password # account.last => q.with = account.password
  BY <1>1 DEF RequestFits, OpeningFits, SignIns!Opens
<1>5. ASSUME NEW s \in Sessions, SignIns!IsValid(s)'
      PROVE  session'[s].beside \/ (session'[s].password \in {account'.password, account'.last} /\ account'.active)
  <2>1. CASE /\ q.op \in SignIns!Opens /\ s = q.by
             /\ session'[s].password = q.with /\ session'[s].beside = q.beside
    <3>1. q.beside \/ (q.with \in {account.password, account.last} /\ account.active)
      BY <1>1, <2>1 DEF RequestFits, OpeningFits
    <3>2. CASE q.op = "rehash"
      BY <1>4, <2>1, <3>1, <3>2
    <3>3. CASE q.op = "sign in"
      <4>1. account' = account
        BY <1>3, <3>3 DEF SignIns!Writes, SignIns!Changes
      <4> QED
        BY <2>1, <3>1, <4>1
    <3> QED
      BY <2>1, <3>2, <3>3 DEF SignIns!Opens
  <2>2. CASE /\ SignIns!IsValid(s) /\ s \notin q.ends
             /\ session'[s].beside = session[s].beside
             /\ session'[s].password = IF q.op = "password" /\ s = q.by
                                       THEN account.last + 1 ELSE session[s].password
    <3>1. session[s].beside \/ (session[s].password \in {account.password, account.last} /\ account.active)
      BY <2>2 DEF SignInInv, SignIns!AccessFollows
    <3>2. CASE q.op = "password"
      <4>1. session[s].beside \/ s = q.by
        BY <1>1, <2>2, <3>2 DEF RequestFits, SignIns!Writes, SignIns!Changes
      <4> QED
        BY <1>4, <2>2, <3>1, <3>2, <4>1
    <3>3. CASE q.op \in {"reset", "deactivate"}
      <4>1. session[s].beside \/ s = q.by
        BY <1>1, <2>2, <3>3 DEF RequestFits, SignIns!Writes, SignIns!Changes
      <4>2. s # q.by
        BY <1>1, <3>3, Writes DEF RequestFits
      <4> QED
        BY <2>2, <4>1, <4>2
    <3>4. CASE q.op = "reactivate"
      BY <1>4, <2>2, <3>1, <3>4
    <3>5. CASE q.op = "rehash"
      BY <1>4, <1>14, <2>2, <3>1, <3>5
    <3>6. CASE q.op \notin SignIns!Writes
      <4>1. account' = account /\ q.op # "password"
        BY <1>3, <3>6 DEF SignIns!Writes, SignIns!Changes
      <4> QED
        BY <2>2, <3>1, <4>1
    <3> QED
      BY <3>2, <3>3, <3>4, <3>5, <3>6 DEF SignIns!Writes, SignIns!Changes
  <2> QED
    BY <1>5, <2>1, <2>2, StaysValid
<1>6. ASSUME NEW c \in (SignIns!OpenCodes)', NEW d \in (SignIns!OpenCodes)', c # d
      PROVE  code'[c].beside \/ code'[d].beside
  <2>1. q.op = "issue" => q.beside \/ SignIns!OpenCodes \subseteq q.voids
    BY <1>1 DEF RequestFits
  <2>2. c \in SignIns!OpenCodes /\ d \in SignIns!OpenCodes => code[c].beside \/ code[d].beside
    BY <1>6 DEF SignInInv, SignIns!AccessFollows
  <2>3. \/ q.op = "issue" /\ c = q.ref /\ code'[c].beside = q.beside
        \/ c \in SignIns!OpenCodes /\ c \notin q.voids /\ code'[c] = code[c]
    BY StaysOpen
  <2>4. \/ q.op = "issue" /\ d = q.ref /\ code'[d].beside = q.beside
        \/ d \in SignIns!OpenCodes /\ d \notin q.voids /\ code'[d] = code[d]
    BY StaysOpen
  <2> QED
    BY <1>6, <2>1, <2>2, <2>3, <2>4
<1>7. SignIns!AccessFollows'
  BY <1>5, <1>6 DEF SignIns!AccessFollows
<1>8. ASSUME NEW p \in Requests \ {r}
      PROVE  /\ OpeningFits(req[p])'
             /\ req[p].at # "idle" /\ req[p].op = "issue" =>
                  req[p].beside \/ (SignIns!OpenCodes)' \subseteq SignIns!OpenCodes
             /\ req[p].at = "locked" /\ req[p].op \in SignIns!Changes => q.op \notin SignIns!Opens \/ q.beside
  <2>1. /\ RequestFits(req[p]) /\ RequestsApart(req[p], q) /\ req'[p] = req[p]
    BY Writes DEF SignInInv
  <2>2. q.op \in SignIns!Changes => SignIns!Changing
    BY <1>1 DEF SignIns!Changing, SignIns!Writes
  <2>3. req[p].at = "locked" /\ req[p].op \in SignIns!Changes => SignIns!Changing
    BY DEF SignIns!Changing
  <2>4. q.op # "issue" => (SignIns!OpenCodes)' \subseteq SignIns!OpenCodes
    BY StaysOpen
  <2>5. OpeningFits(req[p])'
    <3> SUFFICES ASSUME req[p].at # "idle", req[p].op \in SignIns!Opens PROVE OpeningFits(req[p])'
      BY <2>1 DEF OpeningFits
    <3>1. /\ req[p].beside \/ (req[p].with \in {account.password, account.last} /\ account.active)
          /\ req[p].op = "rehash" /\ (account.outdated \/ account.password # account.last)
                => req[p].with = account.password
          /\ SignIns!Changing => req[p].beside
      BY <2>1 DEF RequestFits, OpeningFits
    <3>2. CASE q.op \in {"password", "reset"}
      <4>1. req[p].beside
        BY <2>2, <3>1, <3>2 DEF SignIns!Changes
      <4> QED
        BY <1>4, <2>1, <3>2, <4>1 DEF OpeningFits
    <3>3. CASE q.op \in {"deactivate", "reactivate"}
      <4>1. req[p].beside
        BY <2>2, <3>1, <3>3 DEF SignIns!Changes
      <4> QED
        BY <1>4, <2>1, <3>1, <3>3, <4>1 DEF OpeningFits
    <3>4. CASE q.op = "rehash"
      <4>1. req[p].op = "rehash" => req[p].with = q.with
        BY <1>1, <2>1, <3>4 DEF RequestsApart
      <4> QED
        BY <1>4, <1>14, <2>1, <3>1, <3>4, <4>1 DEF OpeningFits
    <3>5. CASE q.op \notin SignIns!Writes
      <4>1. account' = account
        BY <1>3, <3>5
      <4> QED
        BY <2>1, <3>1, <4>1 DEF OpeningFits
    <3> QED
      BY <3>2, <3>3, <3>4, <3>5 DEF SignIns!Writes, SignIns!Changes
  <2> HIDE DEF q
  <2> QED
    BY <1>1, <2>1, <2>2, <2>3, <2>4, <2>5 DEF RequestFits, RequestsApart
<1>9. \A p \in Requests \ {r}, s \in Sessions :
          req[p].at = "locked" /\ req[p].op \in SignIns!Changes /\ SignIns!IsValid(s)' =>
             (SignIns!IsValid(s) /\ session'[s].beside = session[s].beside) \/ session'[s].beside
  BY <1>8, StaysValid
<1> DEFINE R == {r}
<1>10. /\ R \in SUBSET Requests /\ req' \in [Requests -> SignIns!Req]
       /\ \A p \in R : req'[p] = SignIns!NoReq
       /\ \A p \in Requests \ R : req'[p] = req[p]
  BY Writes
<1>11. /\ \A p \in Requests \ R : OpeningFits(req[p])'
       /\ \A p \in Requests \ R : req[p].at # "idle" /\ req[p].op = "issue" =>
                  req[p].beside \/ (SignIns!OpenCodes)' \subseteq SignIns!OpenCodes
       /\ \A p \in Requests \ R, s \in Sessions :
             req[p].at = "locked" /\ req[p].op \in SignIns!Changes /\ SignIns!IsValid(s)' =>
             (SignIns!IsValid(s) /\ session'[s].beside = session[s].beside) \/ session'[s].beside
  BY <1>8, <1>9
<1> HIDE DEF R
<1> QED
  BY <1>2, <1>7, <1>10, <1>11, RowsKeep

LEMMA SignInInit == SignIns!Init => SignInInv
<1> SUFFICES ASSUME SignIns!Init PROVE SignInInv
  OBVIOUS
<1>1. \A r \in Requests : req[r] = SignIns!NoReq
  BY DEF SignIns!Init
<1>2. RequestFits(SignIns!NoReq)
  BY NoReqIs DEF RequestFits, OpeningFits
<1>3. SignIns!TypeOK
  BY NoReqIs DEF SignIns!Init, SignIns!TypeOK, SignIns!Account
<1>4. SignIns!AccessFollows
  BY DEF SignIns!Init, SignIns!AccessFollows, SignIns!IsValid, SignIns!OpenCodes
<1>5. \A r, p \in Requests : RequestsApart(req[r], req[p])
  BY <1>1, NoReqIs DEF RequestsApart
<1>6. \A r \in Requests : RequestFits(req[r])
  BY <1>1, <1>2
<1> QED
  BY <1>3, <1>4, <1>5, <1>6 DEF SignInInv

LEMMA SignInKept == SignInInv /\ [SignIns!Next]_signInVars => SignInInv'
<1> SUFFICES ASSUME SignInInv, [SignIns!Next]_signInVars PROVE SignInInv'
  OBVIOUS
<1>1. CASE UNCHANGED signInVars
  <2>1. /\ SignIns!TypeOK' /\ SignIns!AccessFollows'
        /\ SignIns!Changing' = SignIns!Changing /\ (SignIns!OpenCodes)' = SignIns!OpenCodes
        /\ \A s \in Sessions : SignIns!IsValid(s)' = SignIns!IsValid(s)
    BY <1>1 DEF signInVars, SignInInv, SignIns!TypeOK, SignIns!AccessFollows, SignIns!IsValid,
       SignIns!OpenCodes, SignIns!Changing
  <2>2. ASSUME NEW r \in Requests PROVE RequestFits(req[r])'
    <3>1. RequestFits(req[r]) /\ req' = req /\ session' = session /\ account' = account
      BY <1>1 DEF SignInInv, signInVars
    <3> QED
      BY <2>1, <3>1 DEF RequestFits, OpeningFits
  <2> QED
    BY <1>1, <2>1, <2>2 DEF SignInInv, signInVars, RequestsApart
<1>2. CASE SignIns!Next
  BY <1>2, BeginsSignIn, BeginsOther, Issues, Locks, Commits, RollsBack, Expires, Upgrades
     DEF SignIns!Next, SignIns!Serve
<1> QED
  BY <1>1, <1>2

-----------------------------------------------------------------------------
(* Web sockets. *)

\* How long a socket is open without its session is less than what its interval has run.
SocketFits(k) ==
    /\ k.at # "open" => k.late = 0
    /\ k.at = "open" => k.late <= Recheck - k.due
    /\ k.late > 0 => k.session \notin live \cup {None}

SocketInv ==
    /\ Connections!TypeOK
    /\ IsFiniteSet(Connections!Held)
    /\ Cardinality(Connections!Held) <= slots /\ slots <= MaxSockets
    /\ \A k \in Sockets : SocketFits(socket[k])

LEMMA SocketConstants == Recheck \in Nat \ {0} /\ MaxSockets \in Nat /\ None \notin Sessions
  BY AccessConstants DEF Connections!SocketsFit

LEMMA SameHeld == ASSUME NEW S PROVE Connections!Cardinality(S) = Cardinality(S)
  BY DEF Connections!Cardinality, Cardinality

LEMMA ClosedIs ==
    /\ Connections!Closed \in Connections!Socket
    /\ Connections!Closed.at = "closed" /\ Connections!Closed.late = 0 /\ Connections!Closed.session = None
    /\ Connections!Closed.due = 0
  BY SocketConstants DEF Connections!Closed, Connections!Socket

\* A handler that only goes on: the same sockets are held as before.
LEMMA SameSockets ==
    ASSUME SocketInv,
           Connections!TypeOK',
           \A k \in Sockets : socket'[k].at # "closed" <=> socket[k].at # "closed",
           slots' = slots,
           \A k \in Sockets : SocketFits(socket[k])'
    PROVE  SocketInv'
<1>1. Connections!Held' = Connections!Held
  BY DEF Connections!Held
<1> QED
  BY <1>1 DEF SocketInv

\* A handler that starts, with a slot.
LEMMA OneMore ==
    ASSUME SocketInv, NEW k \in Sockets,
           Connections!TypeOK',
           socket[k].at = "closed", socket'[k].at # "closed",
           \A j \in Sockets \ {k} : socket'[j] = socket[j],
           slots' = slots + 1, slots < MaxSockets,
           \A j \in Sockets : SocketFits(socket[j])'
    PROVE  SocketInv'
<1>1. Connections!Held' = Connections!Held \cup {k} /\ k \notin Connections!Held
  BY DEF Connections!Held
<1>2. IsFiniteSet(Connections!Held') /\ Cardinality(Connections!Held') = Cardinality(Connections!Held) + 1
  BY <1>1, FS_AddElement DEF SocketInv
<1>3. Cardinality(Connections!Held) \in Nat /\ slots \in Nat
  BY FS_CardinalityType DEF SocketInv, Connections!TypeOK
<1>4. Cardinality(Connections!Held') <= slots' /\ slots' <= MaxSockets
  BY <1>2, <1>3, SocketConstants DEF SocketInv
<1> QED
  BY <1>2, <1>4 DEF SocketInv

\* A handler that ends, with its slot or without.
LEMMA OneLess ==
    ASSUME SocketInv, NEW k \in Sockets,
           Connections!TypeOK',
           socket[k].at # "closed", socket' = [socket EXCEPT ![k] = Connections!Closed],
           slots' \in {slots, Connections!Released},
           live' = live
    PROVE  SocketInv'
<1>1. socket \in [Sockets -> Connections!Socket]
  BY DEF SocketInv, Connections!TypeOK
<1>2. socket'[k] = Connections!Closed /\ \A j \in Sockets \ {k} : socket'[j] = socket[j]
  BY <1>1
<1>3. Connections!Held' = Connections!Held \ {k} /\ k \in Connections!Held
  BY <1>2, ClosedIs DEF Connections!Held
<1>4. IsFiniteSet(Connections!Held') /\ Cardinality(Connections!Held') = Cardinality(Connections!Held) - 1
  BY <1>3, FS_RemoveElement DEF SocketInv
<1>5. /\ Cardinality(Connections!Held) \in Nat /\ Cardinality(Connections!Held') \in Nat
      /\ slots \in Nat
  BY <1>4, FS_CardinalityType DEF SocketInv, Connections!TypeOK
<1>6. Cardinality(Connections!Held') <= slots' /\ slots' <= MaxSockets
  BY <1>4, <1>5, SocketConstants DEF SocketInv, Connections!Released
<1>7. \A j \in Sockets : SocketFits(socket[j])'
  <2> TAKE j \in Sockets
  <2>1. SocketFits(socket[j])
    BY DEF SocketInv
  <2>2. CASE j = k
    BY <1>2, <2>2, ClosedIs DEF SocketFits
  <2>3. CASE j # k
    BY <1>2, <2>1, <2>3 DEF SocketFits
  <2> QED
    BY <2>2, <2>3
<1> QED
  BY <1>4, <1>6, <1>7 DEF SocketInv

LEMMA EndsSession ==
    ASSUME SocketInv, NEW s \in Sessions,
           Connections!SignsIn(s) \/ Connections!Ends(s) \/ Connections!IssueTicket(s) \/ Connections!TicketExpires(s)
    PROVE  SocketInv'
<1>1. /\ live' \subseteq Sessions /\ UNCHANGED <<socket, slots>>
      /\ ticket' \in [Sessions -> {"none", "issued", "used"}]
  BY DEF SocketInv, Connections!TypeOK, Connections!SignsIn, Connections!Ends, Connections!IssueTicket,
         Connections!TicketExpires
<1>2. Connections!TypeOK'
  BY <1>1 DEF SocketInv, Connections!TypeOK
<1>3. live' \subseteq live \/ (live' = live \cup {s} /\ \A k \in Sockets : socket[k].session # s)
  BY DEF Connections!SignsIn, Connections!Ends, Connections!IssueTicket, Connections!TicketExpires
<1>4. ASSUME NEW k \in Sockets PROVE SocketFits(socket[k])'
  <2>1. SocketFits(socket[k])
    BY DEF SocketInv
  <2> QED
    BY <1>1, <1>3, <2>1 DEF SocketFits
<1>5. \A k \in Sockets : SocketFits(socket[k])'
  BY <1>4
<1> QED
  BY <1>1, <1>2, <1>5, SameSockets

LEMMA Connects == ASSUME SocketInv, NEW k \in Sockets, Connections!Connect(k) PROVE SocketInv'
<1>1. /\ socket \in [Sockets -> Connections!Socket] /\ slots \in Nat /\ live' = live
      /\ socket[k].at = "closed"
  BY DEF SocketInv, Connections!TypeOK, Connections!Connect
<1>2. ticket' \in [Sessions -> {"none", "issued", "used"}]
  BY DEF SocketInv, Connections!TypeOK, Connections!Connect, Connections!Redeems
<1>3. CASE UNCHANGED <<socket, slots>>
  <2>1. Connections!TypeOK'
    BY <1>1, <1>2, <1>3 DEF SocketInv, Connections!TypeOK
  <2>2. \A j \in Sockets : SocketFits(socket[j])'
    <3> TAKE j \in Sockets
    <3>1. SocketFits(socket[j])
      BY DEF SocketInv
    <3> QED
      BY <1>1, <1>3, <3>1 DEF SocketFits
  <2> QED
    BY <1>3, <2>1, <2>2, SameSockets
<1>4. ASSUME NEW s \in Sessions \cup {None}, Connections!Admit(k, s), ~(UNCHANGED <<socket, slots>>)
      PROVE  SocketInv'
  <2> DEFINE t == [Connections!Closed EXCEPT !.at = "admitted", !.session = s]
  <2>1. t \in Connections!Socket /\ t.at = "admitted" /\ t.late = 0
    BY ClosedIs DEF Connections!Socket
  <2>2. ~(slots >= MaxSockets) /\ socket' = [socket EXCEPT ![k] = t] /\ slots' = slots + 1
    BY <1>4 DEF Connections!Admit, Connections!Set
  <2> HIDE DEF t
  <2>3. Connections!TypeOK'
    BY <1>1, <1>2, <2>1, <2>2 DEF SocketInv, Connections!TypeOK
  <2>4. socket'[k] = t /\ \A j \in Sockets \ {k} : socket'[j] = socket[j]
    BY <1>1, <2>2
  <2>5. \A j \in Sockets : SocketFits(socket[j])'
    <3> TAKE j \in Sockets
    <3>1. SocketFits(socket[j])
      BY DEF SocketInv
    <3>2. CASE j = k
      BY <2>1, <2>4, <3>2 DEF SocketFits
    <3>3. CASE j # k
      BY <1>1, <2>4, <3>1, <3>3 DEF SocketFits
    <3> QED
      BY <3>2, <3>3
  <2>6. slots < MaxSockets
    BY <1>1, <2>2, SocketConstants
  <2>7. socket'[k].at # "closed"
    BY <2>1, <2>4
  <2> QED
    BY <1>1, <2>2, <2>3, <2>4, <2>5, <2>6, <2>7, OneMore
<1> QED
  BY <1>3, <1>4 DEF Connections!Connect

LEMMA HandlerEnds ==
    ASSUME SocketInv, NEW k \in Sockets,
           socket[k].at # "closed", Connections!Set(k, Connections!Closed),
           slots' \in {slots, Connections!Released}, UNCHANGED <<live, ticket>>
    PROVE  SocketInv'
<1>1. socket' = [socket EXCEPT ![k] = Connections!Closed]
  BY DEF Connections!Set
<1>2. Connections!TypeOK'
  BY <1>1, ClosedIs DEF SocketInv, Connections!TypeOK, Connections!Released
<1> QED
  BY <1>1, <1>2, OneLess

\* A handler that is accepted or checked starts an interval.
LEMMA Starts ==
    ASSUME SocketInv, NEW k \in Sockets, socket[k].at # "closed",
           Connections!Set(k, [socket[k] EXCEPT !.at = "open", !.due = Recheck]),
           socket[k].late = 0, UNCHANGED <<live, ticket, slots>>
    PROVE  SocketInv'
<1> DEFINE t == [socket[k] EXCEPT !.at = "open", !.due = Recheck]
<1>1. socket \in [Sockets -> Connections!Socket] /\ socket[k] \in Connections!Socket
  BY DEF SocketInv, Connections!TypeOK
<1>2. /\ t \in Connections!Socket /\ t.at = "open" /\ t.late = 0 /\ t.due = Recheck
  <2>1. Recheck \in 0..Recheck
    BY SocketConstants
  <2>2. t \in Connections!Socket
    BY <1>1, <2>1 DEF Connections!Socket
  <2> QED
    BY <1>1, <2>2 DEF Connections!Socket
<1>3. socket' = [socket EXCEPT ![k] = t]
  BY DEF Connections!Set
<1> HIDE DEF t
<1>4. Connections!TypeOK'
  BY <1>1, <1>2, <1>3 DEF SocketInv, Connections!TypeOK
<1>5. socket'[k] = t /\ \A j \in Sockets \ {k} : socket'[j] = socket[j]
  BY <1>1, <1>3
<1>6. \A j \in Sockets : SocketFits(socket[j])'
  <2> TAKE j \in Sockets
  <2>1. SocketFits(socket[j])
    BY DEF SocketInv
  <2>2. CASE j = k
    BY <1>2, <1>5, <2>2, SocketConstants DEF SocketFits
  <2>3. CASE j # k
    BY <1>5, <2>1, <2>3 DEF SocketFits
  <2> QED
    BY <2>2, <2>3
<1>7. \A j \in Sockets : socket'[j].at # "closed" <=> socket[j].at # "closed"
  BY <1>2, <1>5
<1> QED
  BY <1>4, <1>6, <1>7, SameSockets

LEMMA Ticks == ASSUME SocketInv, Connections!Tick PROVE SocketInv'
<1>1. /\ socket \in [Sockets -> Connections!Socket] /\ UNCHANGED <<live, ticket, slots>>
  BY DEF SocketInv, Connections!TypeOK, Connections!Tick
<1>2. ASSUME NEW k \in Sockets
      PROVE  /\ socket'[k] \in Connections!Socket /\ socket'[k].at = socket[k].at
             /\ SocketFits(socket[k])'
  <2>1. socket[k] \in Connections!Socket /\ SocketFits(socket[k])
    BY <1>1 DEF SocketInv
  <2>2. CASE socket[k].at # "open"
    <3>1. socket'[k] = socket[k]
      BY <2>2 DEF Connections!Tick
    <3> QED
      BY <1>1, <2>1, <3>1 DEF SocketFits
  <2>3. CASE socket[k].at = "open"
    <3> DEFINE lasts == socket[k].session \in live \cup {None}
               l == IF lasts THEN 0 ELSE socket[k].late + 1
    <3>1. socket'[k] = [socket[k] EXCEPT !.due = @ - 1, !.late = l] /\ socket[k].due > 0
      BY <2>3 DEF Connections!Tick
    <3>2. socket[k].due - 1 \in 0..Recheck /\ l \in Nat /\ socket[k].late \in Nat /\ socket[k].due \in Nat
      BY <2>1, <3>1, SocketConstants DEF Connections!Socket
    <3>3. l <= Recheck - (socket[k].due - 1)
      BY <2>1, <2>3, <3>1, <3>2, SocketConstants DEF SocketFits, Connections!Socket
    <3>4. l > 0 => ~lasts
      OBVIOUS
    <3> HIDE DEF l, lasts
    <3>5. /\ socket'[k] \in Connections!Socket /\ socket'[k].at = "open" /\ socket'[k].late = l
          /\ socket'[k].due = socket[k].due - 1 /\ socket'[k].session = socket[k].session
      BY <2>1, <2>3, <3>1, <3>2 DEF Connections!Socket
    <3> QED
      BY <1>1, <2>3, <3>3, <3>4, <3>5 DEF SocketFits, lasts
  <2> QED
    BY <2>2, <2>3
<1>3. socket' \in [Sockets -> Connections!Socket]
  <2>1. socket' = [k \in Sockets |-> socket'[k]]
    BY DEF Connections!Tick
  <2> QED
    BY <1>2, <2>1
<1>4. Connections!TypeOK'
  BY <1>1, <1>3 DEF SocketInv, Connections!TypeOK
<1> QED
  BY <1>1, <1>2, <1>4, SameSockets

LEMMA Restarts == ASSUME SocketInv, Connections!Restart PROVE SocketInv'
<1>1. socket' = [k \in Sockets |-> Connections!Closed] /\ slots' = 0 /\ live' = live
  BY DEF Connections!Restart
<1>2. ticket' \in [Sessions -> {"none", "issued", "used"}]
  BY DEF SocketInv, Connections!TypeOK, Connections!Restart
<1>3. Connections!TypeOK'
  BY <1>1, <1>2, ClosedIs DEF SocketInv, Connections!TypeOK
<1>4. Connections!Held' = {}
  BY <1>1, ClosedIs DEF Connections!Held
<1>5. IsFiniteSet(Connections!Held') /\ Cardinality(Connections!Held') <= slots' /\ slots' <= MaxSockets
  BY <1>1, <1>4, FS_EmptySet, SocketConstants
<1>6. \A k \in Sockets : SocketFits(socket[k])'
  BY <1>1, ClosedIs DEF SocketFits
<1> QED
  BY <1>3, <1>5, <1>6 DEF SocketInv

LEMMA SocketInit == Connections!Init => SocketInv
<1> SUFFICES ASSUME Connections!Init PROVE SocketInv
  OBVIOUS
<1>1. socket = [k \in Sockets |-> Connections!Closed] /\ slots = 0
  BY DEF Connections!Init
<1>2. Connections!TypeOK
  BY <1>1, ClosedIs DEF Connections!Init, Connections!TypeOK
<1>3. Connections!Held = {}
  BY <1>1, ClosedIs DEF Connections!Held
<1>4. IsFiniteSet(Connections!Held) /\ Cardinality(Connections!Held) <= slots /\ slots <= MaxSockets
  BY <1>1, <1>3, FS_EmptySet, SocketConstants
<1>5. \A k \in Sockets : SocketFits(socket[k])
  BY <1>1, ClosedIs DEF SocketFits
<1> QED
  BY <1>2, <1>4, <1>5 DEF SocketInv

LEMMA SocketKept == SocketInv /\ [Connections!Next]_socketVars => SocketInv'
<1> SUFFICES ASSUME SocketInv, [Connections!Next]_socketVars PROVE SocketInv'
  OBVIOUS
<1>1. CASE UNCHANGED socketVars
  <2>1. Connections!TypeOK' /\ Connections!Held' = Connections!Held
    BY <1>1 DEF socketVars, SocketInv, Connections!TypeOK, Connections!Held
  <2> QED
    BY <1>1, <2>1 DEF socketVars, SocketInv, SocketFits
<1>2. CASE \E s \in Sessions : Connections!SignsIn(s) \/ Connections!Ends(s) \/ Connections!IssueTicket(s) \/ Connections!TicketExpires(s)
  BY <1>2, EndsSession
<1>3. ASSUME NEW k \in Sockets, Connections!Accept(k) \/ Connections!Check(k)
      PROVE  SocketInv'
  <2>1. SocketFits(socket[k]) /\ socket[k] \in Connections!Socket /\ socket \in [Sockets -> Connections!Socket]
    BY DEF SocketInv, Connections!TypeOK
  <2>2. CASE Connections!Accept(k)
    BY <2>1, <2>2, Starts DEF Connections!Accept, SocketFits
  <2>3. CASE Connections!Check(k) /\ socket[k].session \in live \cup {None}
    <3>1. socket[k].late = 0 /\ socket[k].at = "open"
      BY <2>1, <2>3 DEF SocketFits, Connections!Socket, Connections!Check
    <3>2. [socket[k] EXCEPT !.due = Recheck] = [socket[k] EXCEPT !.at = "open", !.due = Recheck]
      BY <2>1, <3>1 DEF Connections!Socket
    <3>3. /\ Connections!Set(k, [socket[k] EXCEPT !.at = "open", !.due = Recheck])
          /\ UNCHANGED <<live, ticket, slots>>
      BY <2>3, <3>2 DEF Connections!Check
    <3> QED
      BY <3>1, <3>3, Starts
  <2>4. CASE Connections!Check(k) /\ socket[k].session \notin live \cup {None}
    BY <2>4, HandlerEnds DEF Connections!Check
  <2> QED
    BY <1>3, <2>2, <2>3, <2>4
<1>4. ASSUME NEW k \in Sockets, Connections!AcceptFails(k) \/ Connections!Occupied(k) \/ Connections!Leave(k)
      PROVE  SocketInv'
  BY <1>4, HandlerEnds DEF Connections!AcceptFails, Connections!Occupied, Connections!Leave
<1>5. CASE Connections!Tick \/ Connections!Restart
  BY <1>5, Ticks, Restarts
<1>6. CASE \E k \in Sockets : Connections!Connect(k)
  BY <1>6, Connects
<1> QED
  BY <1>1, <1>2, <1>3, <1>4, <1>5, <1>6 DEF Connections!Next

LEMMA SocketsAreChecked == SocketInv => Connections!SocketsFollow
  BY SameHeld DEF SocketInv, Connections!SocketsFollow, SocketFits

-----------------------------------------------------------------------------
(* Security events and alerts. *)

\* What was there, and is still, when e was recorded.
Before(e) == {x \in events : x.id <= e.id /\ x.id \notin e.beside}

Enough(k, e) ==
    Alarms!Counted(Rules[k], Alarms!InWindow(Rules[k], e, Before(e) \cup {e})) >= Rules[k].threshold

\* Rule k is done with e: if it is reached, there is an alert, committed or among raised.
Dealt(k, e, raised) ==
    Alarms!Concerns(k, e) /\ Enough(k, e) /\ e.at >= cutoff + Rules[k].cooldown =>
       \/ Alarms!Recent(k, Alarms!GroupOf(Rules[k], e), e.at) # {}
       \/ \E y \in raised : y.rule = k /\ y.group = Alarms!GroupOf(Rules[k], e) /\ y.at = e.at

\* Alert y, still uncommitted, keeps its distance to x.
Follows(y, x, beside) ==
    y.rule = x.rule /\ y.group = x.group /\ x.id < y.id =>
        x.at + Rules[x.rule].cooldown < y.at \/ x.id \in beside

\* What a recorder relies on until it commits: the rules it has passed are dealt with, its alerts
\* keep their distance to those there are, and no other event counts it among those before.
RecFits(r) ==
    r.at # "idle" =>
      /\ r.event \in Alarms!Event /\ r.event.id <= begun
      /\ r.event.id \notin r.event.beside
      /\ r.rule \in 0..Len(Rules)
      /\ r.at = "dedupe" => r.rule # 0
      /\ r.rule # 0 => Alarms!Concerns(r.rule, r.event)
      /\ \A y \in r.raised : /\ y.id = r.event.id /\ y.at = r.event.at /\ y.by = None
                             /\ \A x \in alerts : Follows(y, x, r.event.beside)
      /\ \A k \in DOMAIN Rules : r.rule = 0 \/ k < r.rule => Dealt(k, r.event, r.raised)
      /\ \A e \in events : /\ e.id # r.event.id
                           /\ e.id < r.event.id \/ r.event.id \in e.beside

\* Events under way know of each other.
RecsApart(p, q) == p.event.id # q.event.id /\ p.event.id \in q.event.beside

\* Numbers name events, and an alert is kept as long as its event.
EventsFit ==
    /\ \A d, e \in events : d.id = e.id => d = e
    /\ \A e \in events : e.id \notin e.beside /\ e.id <= begun
    /\ \A x \in alerts : \E e \in events : e.id = x.id /\ e.at = x.at

AlarmInv ==
    /\ Alarms!TypeOK /\ IsFiniteSet(events)
    /\ cutoff = 0 \/ cutoff + Keep <= time
    /\ EventsFit
    /\ Alarms!Spaced /\ Alarms!Attested
    /\ \A e \in events, k \in DOMAIN Rules : Dealt(k, e, {})
    /\ \A p \in Requests : RecFits(rec[p])
    /\ \A p, q \in Requests : p # q /\ rec[p].at # "idle" /\ rec[q].at # "idle" => RecsApart(rec[p], rec[q])

-----------------------------------------------------------------------------
(* The operators of the rules. *)

LEMMA AlarmConstants ==
    /\ Len(Rules) \in Nat /\ DOMAIN Rules = 1..Len(Rules)
    /\ \A k \in DOMAIN Rules : /\ Rules[k] \in Alarms!RuleType
                               /\ Rules[k].window \in Nat /\ Rules[k].cooldown \in Nat
                               /\ Rules[k].threshold \in Nat
                               /\ Rules[k].cooldown < Keep
    /\ Keep \in Nat
    /\ None \notin Subjects \cup {"global"} /\ None \notin Admins
<1> USE AccessConstants DEF Alarms!RulesFit
<1> HIDE DEF Rules
<1>1. Rules \in Seq(Alarms!RuleType)
  OBVIOUS
<1>2. \A k \in DOMAIN Rules : Rules[k] \in Alarms!RuleType
  BY <1>1
<1> QED
  BY <1>1, <1>2 DEF Alarms!RuleType, Alarms!Groups

LEMMA SameSize == ASSUME NEW S PROVE Alarms!Cardinality(S) = Cardinality(S)
  BY DEF Alarms!Cardinality, Cardinality

LEMMA Least ==
    ASSUME NEW S \in SUBSET Nat, S # {}
    PROVE  \E m \in S : \A n \in S : m <= n
<1>1. IsWellFoundedOn(OpToRel(<, Nat), Nat)
  BY NatLessThanWellFounded
<1>2. PICK m \in S : \A n \in S : ~(<<n, m>> \in OpToRel(<, Nat))
  BY <1>1, WFMin
<1>3. \A n \in S : ~(n < m)
  BY <1>2 DEF OpToRel
<1> QED
  BY <1>3

\* The next rule, and all that it leaves out.
LEMMA NextRuleIs ==
    ASSUME NEW k \in Nat, NEW e, NEW n, n = Alarms!NextRule(k, e)
    PROVE  /\ n \in 0..Len(Rules)
           /\ n # 0 => n \in DOMAIN Rules /\ n >= k /\ Alarms!Concerns(n, e)
           /\ \A j \in DOMAIN Rules : j >= k /\ (n = 0 \/ j < n) => ~Alarms!Concerns(j, e)
<1> DEFINE S == {i \in DOMAIN Rules : i >= k /\ Alarms!Concerns(i, e)}
<1>1. S \in SUBSET Nat /\ DOMAIN Rules = 1..Len(Rules) /\ Len(Rules) \in Nat
  BY AlarmConstants
<1>2. CASE S = {}
  <2>1. n = 0
    BY <1>2 DEF Alarms!NextRule
  <2> QED
    BY <1>1, <1>2, <2>1
<1>3. CASE S # {}
  <2>1. PICK m \in S : \A j \in S : m <= j
    BY <1>1, <1>3, Least
  <2>2. \E i \in DOMAIN Rules : i >= k /\ Alarms!Concerns(i, e) /\ \A j \in DOMAIN Rules : j >= k /\ Alarms!Concerns(j, e) => i <= j
    BY <2>1
  <2>3. n = CHOOSE i \in DOMAIN Rules :
            /\ i >= k /\ Alarms!Concerns(i, e)
            /\ \A j \in DOMAIN Rules : j >= k /\ Alarms!Concerns(j, e) => i <= j
    BY <1>3 DEF Alarms!NextRule
  <2>4. n \in DOMAIN Rules /\ n >= k /\ Alarms!Concerns(n, e) /\ \A j \in DOMAIN Rules : j >= k /\ Alarms!Concerns(j, e) => n <= j
    BY <2>2, <2>3
  <2> QED
    BY <1>1, <2>4
<1> QED
  BY <1>2, <1>3

\* What is counted is a number, which grows with the events.
LEMMA CountedGrows ==
    ASSUME NEW rule, NEW T, IsFiniteSet(T), NEW S \in SUBSET T
    PROVE  /\ Alarms!Counted(rule, S) \in Nat /\ Alarms!Counted(rule, T) \in Nat
           /\ Alarms!Counted(rule, S) <= Alarms!Counted(rule, T)
<1>1. IsFiniteSet(S) /\ Cardinality(S) <= Cardinality(T) /\ Cardinality(S) \in Nat /\ Cardinality(T) \in Nat
  BY FS_Subset, FS_CardinalityType
<1> DEFINE U == {x.subject : x \in T}
           V == {x.subject : x \in S}
           f == [x \in T |-> x.subject]
<1>2. f \in Surjection(T, U)
  BY DEF Surjection
<1>3. IsFiniteSet(U)
  BY <1>2, FS_Surjection
<1>4. V \ {None} \subseteq U \ {None} /\ U \ {None} \subseteq U
  OBVIOUS
<1> HIDE DEF U, V
<1>5. IsFiniteSet(U \ {None})
  BY <1>3, <1>4, FS_Subset
<1>6. IsFiniteSet(V \ {None}) /\ Cardinality(V \ {None}) <= Cardinality(U \ {None})
  BY <1>4, <1>5, FS_Subset
<1>7. Cardinality(V \ {None}) \in Nat /\ Cardinality(U \ {None}) \in Nat
  BY <1>5, <1>6, FS_CardinalityType
<1>8. /\ Alarms!Counted(rule, S) = IF rule.distinct THEN Cardinality(V \ {None}) ELSE Cardinality(S)
      /\ Alarms!Counted(rule, T) = IF rule.distinct THEN Cardinality(U \ {None}) ELSE Cardinality(T)
  BY SameSize DEF Alarms!Counted, U, V
<1> QED
  BY <1>1, <1>6, <1>7, <1>8

\* It does not depend on what was recorded beside an event.
LEMMA CountedAlike ==
    ASSUME NEW k \in DOMAIN Rules, NEW S, IsFiniteSet(S),
           NEW d \in Alarms!Event, NEW e \in Alarms!Event,
           d.type = e.type, d.subject = e.subject, d.at = e.at,
           d = e \/ (d \notin S /\ e \notin S)
    PROVE  Alarms!Counted(Rules[k], Alarms!InWindow(Rules[k], d, S \cup {d}))
             = Alarms!Counted(Rules[k], Alarms!InWindow(Rules[k], e, S \cup {e}))
<1> SUFFICES ASSUME d \notin S, e \notin S
             PROVE  Alarms!Counted(Rules[k], Alarms!InWindow(Rules[k], d, S \cup {d}))
                       = Alarms!Counted(Rules[k], Alarms!InWindow(Rules[k], e, S \cup {e}))
  OBVIOUS
<1> DEFINE rule == Rules[k]
           W == Alarms!InWindow(rule, e, S)
<1>1. rule.window \in Nat /\ d.at \in Nat /\ e.at \in Nat
  BY AlarmConstants DEF Alarms!Event
<1>2. e.at + rule.window >= e.at
  BY <1>1
<1> HIDE DEF rule
<1>3. /\ Alarms!InWindow(rule, d, S \cup {d}) = IF d.type \in rule.types THEN W \cup {d} ELSE W
      /\ Alarms!InWindow(rule, e, S \cup {e}) = IF e.type \in rule.types THEN W \cup {e} ELSE W
  BY <1>2 DEF Alarms!InWindow
<1>4. W \subseteq S
  BY DEF Alarms!InWindow
<1> HIDE DEF W
<1>5. IsFiniteSet(W) /\ d \notin W /\ e \notin W
  BY <1>4, FS_Subset
<1>6. Cardinality(W \cup {d}) = Cardinality(W \cup {e})
  BY <1>5, FS_AddElement
<1>7. {x.subject : x \in W \cup {d}} = {x.subject : x \in W \cup {e}}
  OBVIOUS
<1>8. Alarms!Counted(rule, W \cup {d}) = Alarms!Counted(rule, W \cup {e})
  BY <1>6, <1>7, SameSize DEF Alarms!Counted
<1> QED
  BY <1>3, <1>8 DEF rule

LEMMA WindowGrows ==
    ASSUME NEW k \in DOMAIN Rules, NEW e, NEW T, IsFiniteSet(T), NEW S \in SUBSET T
    PROVE  /\ Alarms!Counted(Rules[k], Alarms!InWindow(Rules[k], e, S)) \in Nat
           /\ Alarms!Counted(Rules[k], Alarms!InWindow(Rules[k], e, T)) \in Nat
           /\ Alarms!Counted(Rules[k], Alarms!InWindow(Rules[k], e, S))
                <= Alarms!Counted(Rules[k], Alarms!InWindow(Rules[k], e, T))
<1> DEFINE A == Alarms!InWindow(Rules[k], e, S)
           B == Alarms!InWindow(Rules[k], e, T)
<1>1. A \subseteq B /\ B \subseteq T
  BY DEF Alarms!InWindow
<1> HIDE DEF A, B
<1>2. IsFiniteSet(B)
  BY <1>1, FS_Subset
<1>3. /\ Alarms!Counted(Rules[k], A) \in Nat /\ Alarms!Counted(Rules[k], B) \in Nat
      /\ Alarms!Counted(Rules[k], A) <= Alarms!Counted(Rules[k], B)
  BY <1>1, <1>2, CountedGrows
<1> QED
  BY <1>3 DEF A, B

-----------------------------------------------------------------------------
(* Rules once dealt with stay so. *)

\* The alerts of a step that only changes, adds or purges them.
AlertsLast ==
    \A x \in alerts : x.at < cutoff' \/ \E z \in alerts' :
        z.id = x.id /\ z.rule = x.rule /\ z.group = x.group /\ z.at = x.at

LEMMA DealtKeeps ==
    ASSUME NEW e \in Alarms!Event, NEW d \in Alarms!Event, NEW k \in DOMAIN Rules,
           NEW S, NEW T, S \subseteq T,
           IsFiniteSet(events), alerts \subseteq Alarms!Alert, cutoff \in Nat, cutoff' \in Nat, cutoff <= cutoff',
           d.type = e.type, d.subject = e.subject, d.at = e.at,
           d = e \/ (d \notin Before(e) /\ e \notin Before(e)),
           Before(d)' \subseteq Before(e) \cup (IF d = e THEN {e} ELSE {}),
           AlertsLast,
           Dealt(k, e, S)
    PROVE  Dealt(k, d, T)'
<1> SUFFICES ASSUME Alarms!Concerns(k, d), Enough(k, d)', d.at >= cutoff' + Rules[k].cooldown
             PROVE  \/ Alarms!Recent(k, Alarms!GroupOf(Rules[k], d), d.at)' # {}
                    \/ \E y \in T : y.rule = k /\ y.group = Alarms!GroupOf(Rules[k], d) /\ y.at = d.at
  BY DEF Dealt
<1>1. Rules[k].cooldown \in Nat /\ Rules[k].threshold \in Nat /\ d.at \in Nat
  BY AlarmConstants DEF Alarms!Event
<1>2. Alarms!Concerns(k, e) /\ Alarms!GroupOf(Rules[k], d) = Alarms!GroupOf(Rules[k], e)
  BY DEF Alarms!Concerns, Alarms!GroupOf
<1>3. Enough(k, e)
  <2> DEFINE A == Before(d)'
             B == Before(e)
  <2>1. IsFiniteSet(B) /\ IsFiniteSet(B \cup {e}) /\ IsFiniteSet(B \cup {d})
    <3>1. B \subseteq events
      BY DEF Before
    <3> QED
      BY <3>1, FS_Subset, FS_AddElement
  <2>2. Alarms!Counted(Rules[k], Alarms!InWindow(Rules[k], d, A \cup {d})) >= Rules[k].threshold
    BY DEF Enough
  <2>3. A \cup {d} \subseteq B \cup {d}
    OBVIOUS
  <2> HIDE DEF A, B
  <2>4. /\ Alarms!Counted(Rules[k], Alarms!InWindow(Rules[k], d, A \cup {d})) \in Nat
        /\ Alarms!Counted(Rules[k], Alarms!InWindow(Rules[k], d, B \cup {d})) \in Nat
        /\ Alarms!Counted(Rules[k], Alarms!InWindow(Rules[k], d, A \cup {d}))
             <= Alarms!Counted(Rules[k], Alarms!InWindow(Rules[k], d, B \cup {d}))
    BY <2>1, <2>3, WindowGrows
  <2>5. Alarms!Counted(Rules[k], Alarms!InWindow(Rules[k], d, B \cup {d}))
          = Alarms!Counted(Rules[k], Alarms!InWindow(Rules[k], e, B \cup {e}))
    BY <2>1, CountedAlike DEF B
  <2>6. Alarms!Counted(Rules[k], Alarms!InWindow(Rules[k], e, B \cup {e})) >= Rules[k].threshold
    BY <1>1, <2>2, <2>4, <2>5
  <2> QED
    BY <2>6 DEF Enough, B
<1>4. e.at >= cutoff + Rules[k].cooldown
  BY <1>1
<1>5. CASE \E y \in S : y.rule = k /\ y.group = Alarms!GroupOf(Rules[k], e) /\ y.at = e.at
  BY <1>2, <1>5
<1>6. CASE Alarms!Recent(k, Alarms!GroupOf(Rules[k], e), e.at) # {}
  <2>1. PICK x \in alerts : x.rule = k /\ x.group = Alarms!GroupOf(Rules[k], e) /\ x.at + Rules[k].cooldown >= e.at
    BY <1>6 DEF Alarms!Recent
  <2>2. x.at \in Nat
    BY <2>1 DEF Alarms!Alert
  <2>3. ~(x.at < cutoff')
    BY <1>1, <2>1, <2>2
  <2>4. PICK z \in alerts' : z.rule = x.rule /\ z.group = x.group /\ z.at = x.at
    BY <2>3 DEF AlertsLast
  <2> QED
    BY <1>2, <2>1, <2>4 DEF Alarms!Recent
<1> QED
  BY <1>2, <1>3, <1>4, <1>5, <1>6 DEF Dealt

\* What a recorder relies on, while others record, commit, acknowledge and purge.
LEMMA RecKeeps ==
    ASSUME AlarmInv, NEW r, NEW u, RecFits(r), r.at # "idle",
           u.at = r.at, u.rule = r.rule, u.raised = r.raised,
           u.event \in Alarms!Event,
           u.event.id = r.event.id, u.event.at = r.event.at,
           u.event.type = r.event.type, u.event.subject = r.event.subject,
           r.event.beside \subseteq u.event.beside, u.event.id \notin u.event.beside,
           begun' \in Nat, begun <= begun', cutoff' \in Nat, cutoff <= cutoff', AlertsLast,
           \A x \in alerts' : \/ \E z \in alerts : z.id = x.id /\ z.rule = x.rule /\ z.group = x.group /\ z.at = x.at
                              \/ x.id \in u.event.beside,
           \A d \in events' : d \in events \/ (/\ d.id \in u.event.beside /\ d.id # u.event.id
                                               /\ u.event.id \in d.beside)
    PROVE  RecFits(u)'
<1> DEFINE old == r.event
           new == u.event
           S == r.raised
<1>1. old \in Alarms!Event /\ old.id \in Nat /\ old.id <= begun /\ begun \in Nat
  BY DEF RecFits, AlarmInv, Alarms!TypeOK, Alarms!Event
<1>2. new.id <= begun'
  BY <1>1
<1>3. \A k \in Nat : Alarms!Concerns(k, old) => Alarms!Concerns(k, new)
  BY DEF Alarms!Concerns, Alarms!GroupOf
<1>4. ASSUME NEW k \in DOMAIN Rules, r.rule = 0 \/ k < r.rule
      PROVE  Dealt(k, new, S)'
  <2>1. Dealt(k, old, S)
    BY <1>4 DEF RecFits
  <2>2. old \notin Before(old) /\ new \notin Before(old)
    BY DEF RecFits, Before
  <2>3. Before(new)' \subseteq Before(old)
    BY DEF Before
  <2>4. cutoff \in Nat /\ IsFiniteSet(events) /\ alerts \subseteq Alarms!Alert
    BY DEF AlarmInv, Alarms!TypeOK
  <2>5. Before(new)' \subseteq Before(old) \cup (IF new = old THEN {old} ELSE {}) /\ S \subseteq S
    BY <2>3
  <2> HIDE DEF old, new, S
  <2> QED
    BY <1>1, <2>1, <2>2, <2>4, <2>5, DealtKeeps DEF old, new
<1>5. ASSUME NEW y \in S, NEW x \in alerts' PROVE Follows(y, x, new.beside)
  <2>1. CASE x.id \in new.beside
    BY <2>1 DEF Follows
  <2>2. ASSUME NEW z \in alerts, z.id = x.id, z.rule = x.rule, z.group = x.group, z.at = x.at
        PROVE  Follows(y, x, new.beside)
    <3>1. Follows(y, z, old.beside)
      BY DEF RecFits
    <3> QED
      BY <2>2, <3>1 DEF Follows
  <2> QED
    BY <2>1, <2>2
<1>6. \A y \in S : y.id = new.id /\ y.at = new.at /\ y.by = None /\ \A x \in alerts' : Follows(y, x, new.beside)
  BY <1>5 DEF RecFits
<1>7. \A d \in events' : d.id # new.id /\ (d.id < new.id \/ new.id \in d.beside)
  BY DEF RecFits
<1>8. r.rule \in 0..Len(Rules) /\ (r.at = "dedupe" => r.rule # 0) /\ (r.rule # 0 => Alarms!Concerns(r.rule, new))
  BY <1>3, AlarmConstants DEF RecFits
<1>9. \A k \in DOMAIN Rules : u.rule = 0 \/ k < u.rule => Dealt(k, u.event, u.raised)'
  BY <1>4
<1> HIDE DEF new, S
<1> QED
  BY <1>2, <1>6, <1>7, <1>8, <1>9 DEF RecFits, new, S

LEMMA NoRecIs ==
    /\ Alarms!NoRec \in Alarms!Rec
    /\ Alarms!NoRec.at = "idle" /\ Alarms!NoRec.raised = {}
  BY DEF Alarms!NoRec, Alarms!Rec

LEMMA AlarmTypes ==
    ASSUME AlarmInv
    PROVE  /\ time \in Nat /\ begun \in Nat /\ cutoff \in Nat
           /\ events \subseteq Alarms!Event /\ alerts \subseteq Alarms!Alert
           /\ rec \in [Requests -> Alarms!Rec]
           /\ ack \in [Admins -> Alarms!Alert \cup {None}]
           /\ IsFiniteSet(events)
  BY DEF AlarmInv, Alarms!TypeOK

\* A step that changes nothing that is recorded.
LEMMA Quiet ==
    ASSUME AlarmInv, Alarms!TypeOK', UNCHANGED <<events, alerts, rec, begun, cutoff, trail>>, time' >= time
    PROVE  AlarmInv'
<1>1. time' \in Nat /\ time \in Nat /\ Keep \in Nat /\ cutoff \in Nat
  BY AlarmConstants DEF AlarmInv, Alarms!TypeOK
<1>2. cutoff' = 0 \/ cutoff' + Keep <= time'
  BY <1>1 DEF AlarmInv
<1>3. EventsFit' /\ Alarms!Spaced' /\ Alarms!Attested' /\ IsFiniteSet(events)'
  BY DEF AlarmInv, EventsFit, Alarms!Spaced, Alarms!Attested
<1>4. \A e, S : \A k \in DOMAIN Rules : Dealt(k, e, S) => Dealt(k, e, S)'
  BY DEF Dealt, Enough, Before, Alarms!Recent
<1>5. ASSUME NEW p \in Requests PROVE RecFits(rec[p])'
  <2>1. RecFits(rec[p]) /\ rec'[p] = rec[p]
    BY DEF AlarmInv
  <2> QED
    BY <1>4, <2>1 DEF RecFits, Follows
<1>6. \A e \in events, k \in DOMAIN Rules : Dealt(k, e, {})'
  BY <1>4 DEF AlarmInv
<1>7. \A p, q \in Requests : p # q /\ rec'[p].at # "idle" /\ rec'[q].at # "idle" => RecsApart(rec'[p], rec'[q])
  BY DEF AlarmInv, RecsApart
<1> QED
  BY <1>2, <1>3, <1>5, <1>6, <1>7 DEF AlarmInv

\* A recorder that goes on with its event, or ends.
LEMMA RecorderMoves ==
    ASSUME AlarmInv, NEW p \in Requests, NEW t \in Alarms!Rec,
           UNCHANGED <<time, events, alerts, begun, cutoff, ack, trail>>,
           rec' = [rec EXCEPT ![p] = t],
           RecFits(t),
           t.at # "idle" => rec[p].at # "idle" /\ t.event = rec[p].event
    PROVE  AlarmInv'
<1>1. rec \in [Requests -> Alarms!Rec]
  BY AlarmTypes
<1>2. rec' \in [Requests -> Alarms!Rec] /\ rec'[p] = t /\ \A q \in Requests \ {p} : rec'[q] = rec[q]
  BY <1>1
<1>3. Alarms!TypeOK'
  BY <1>2 DEF AlarmInv, Alarms!TypeOK
<1>4. EventsFit' /\ Alarms!Spaced' /\ Alarms!Attested' /\ IsFiniteSet(events)' /\ (cutoff' = 0 \/ cutoff' + Keep <= time')
  BY DEF AlarmInv, EventsFit, Alarms!Spaced, Alarms!Attested
<1>5. \A e, S : \A k \in DOMAIN Rules : Dealt(k, e, S) => Dealt(k, e, S)'
  BY DEF Dealt, Enough, Before, Alarms!Recent
<1>6. ASSUME NEW q \in Requests PROVE RecFits(rec[q])'
  <2>1. RecFits(rec'[q])
    BY <1>2 DEF AlarmInv
  <2> QED
    BY <1>5, <2>1 DEF RecFits, Follows
<1>7. \A e \in events, k \in DOMAIN Rules : Dealt(k, e, {})'
  BY <1>5 DEF AlarmInv
<1>8. \A q, r \in Requests : q # r /\ rec'[q].at # "idle" /\ rec'[r].at # "idle" => RecsApart(rec'[q], rec'[r])
  BY <1>2 DEF AlarmInv, RecsApart
<1> QED
  BY <1>3, <1>4, <1>6, <1>7, <1>8 DEF AlarmInv

\* An alert that the recorder adds has no other of its rule and group within the cooldown.
LEMMA Counts ==
    ASSUME AlarmInv, NEW p \in Requests, Alarms!CountEvents(p)
    PROVE  AlarmInv'
<1> DEFINE r == rec[p]
           e == r.event
<1>1. r \in Alarms!Rec /\ RecFits(r) /\ r.at = "count" /\ r.rule # 0
  BY AlarmTypes DEF AlarmInv, Alarms!CountEvents
<1>2. /\ r.rule \in DOMAIN Rules /\ r.rule \in Nat /\ e \in Alarms!Event
      /\ DOMAIN Rules \subseteq Nat
  BY <1>1, AlarmConstants DEF RecFits
<1>3. CASE Alarms!Reached(Rules[r.rule], e)
  <2> DEFINE t == [r EXCEPT !.at = "dedupe"]
  <2>1. t \in Alarms!Rec /\ t.at = "dedupe" /\ t.event = e /\ t.rule = r.rule /\ t.raised = r.raised
    BY <1>1 DEF Alarms!Rec
  <2>2. rec' = [rec EXCEPT ![p] = t] /\ UNCHANGED <<time, events, alerts, begun, cutoff, ack, trail>>
    BY <1>3 DEF Alarms!CountEvents
  <2> HIDE DEF t
  <2>3. RecFits(t)
    BY <1>1, <2>1 DEF RecFits
  <2> QED
    BY <1>1, <2>1, <2>2, <2>3, RecorderMoves
<1>4. CASE ~Alarms!Reached(Rules[r.rule], e)
  <2> DEFINE n == Alarms!NextRule(r.rule + 1, e)
             t == [r EXCEPT !.rule = n]
  <2>1. /\ n \in 0..Len(Rules)
        /\ n # 0 => n \in DOMAIN Rules /\ n >= r.rule + 1 /\ Alarms!Concerns(n, e)
        /\ \A j \in DOMAIN Rules : j >= r.rule + 1 /\ (n = 0 \/ j < n) => ~Alarms!Concerns(j, e)
    BY <1>2, NextRuleIs
  <2>2. rec' = [rec EXCEPT ![p] = t] /\ UNCHANGED <<time, events, alerts, begun, cutoff, ack, trail>>
    BY <1>4 DEF Alarms!CountEvents
  <2> HIDE DEF n
  <2>3. n \in Nat
    BY <2>1, AlarmConstants
  <2>4. t \in Alarms!Rec /\ t.at = "count" /\ t.event = e /\ t.rule = n /\ t.raised = r.raised
    BY <1>1, <2>3 DEF Alarms!Rec
  <2> HIDE DEF t
  <2>5. ~Enough(r.rule, e)
    <3>1. Before(e) \cup {e} \subseteq events \cup {e} /\ IsFiniteSet(events \cup {e})
      BY AlarmTypes, FS_AddElement DEF Before
    <3>2. /\ Alarms!Counted(Rules[r.rule], Alarms!InWindow(Rules[r.rule], e, Before(e) \cup {e})) \in Nat
          /\ Alarms!Counted(Rules[r.rule], Alarms!InWindow(Rules[r.rule], e, events \cup {e})) \in Nat
          /\ Alarms!Counted(Rules[r.rule], Alarms!InWindow(Rules[r.rule], e, Before(e) \cup {e}))
              <= Alarms!Counted(Rules[r.rule], Alarms!InWindow(Rules[r.rule], e, events \cup {e}))
      BY <1>2, <3>1, WindowGrows
    <3>3. Rules[r.rule].threshold \in Nat
      BY <1>2, AlarmConstants
    <3> QED
      BY <1>4, <3>2, <3>3 DEF Enough, Alarms!Reached
  <2>6. ASSUME NEW k \in DOMAIN Rules, n = 0 \/ k < n PROVE Dealt(k, e, r.raised)
    <3>1. k \in Nat
      BY <1>2
    <3>2. CASE k < r.rule
      BY <1>1, <3>2 DEF RecFits
    <3>3. CASE k = r.rule
      BY <2>5, <3>3 DEF Dealt
    <3>4. CASE k >= r.rule + 1
      BY <2>1, <2>6, <3>4 DEF Dealt
    <3> QED
      BY <1>2, <3>1, <3>2, <3>3, <3>4
  <2>7. RecFits(t)
    BY <1>1, <2>1, <2>4, <2>6 DEF RecFits
  <2> QED
    BY <1>1, <2>2, <2>4, <2>7, RecorderMoves
<1> QED
  BY <1>3, <1>4

LEMMA Raises ==
    ASSUME AlarmInv, NEW p \in Requests, Alarms!Raise(p)
    PROVE  AlarmInv'
<1> DEFINE r == rec[p]
           e == r.event
           group == Alarms!GroupOf(Rules[r.rule], e)
           alert == [id |-> e.id, rule |-> r.rule, group |-> group, at |-> e.at, by |-> None]
           n == Alarms!NextRule(r.rule + 1, e)
           none == Alarms!Recent(r.rule, group, e.at) = {}
           raised == IF none THEN r.raised \cup {alert} ELSE r.raised
           t == [r EXCEPT !.at = "count", !.rule = n, !.raised = raised]
<1>1. r \in Alarms!Rec /\ RecFits(r) /\ r.at = "dedupe"
  BY AlarmTypes DEF AlarmInv, Alarms!Raise
<1>2. /\ r.rule \in DOMAIN Rules /\ r.rule \in Nat /\ e \in Alarms!Event
      /\ DOMAIN Rules \subseteq Nat /\ Alarms!Concerns(r.rule, e)
  BY <1>1, AlarmConstants DEF RecFits
<1>3. group \in Subjects \cup {"global"}
  BY <1>2 DEF Alarms!Concerns, Alarms!GroupOf, Alarms!Event
<1>4. alert \in Alarms!Alert
  BY <1>2, <1>3 DEF Alarms!Alert, Alarms!Event, Alarms!Groups
<1>5. /\ n \in 0..Len(Rules)
      /\ n # 0 => n \in DOMAIN Rules /\ n >= r.rule + 1 /\ Alarms!Concerns(n, e)
      /\ \A j \in DOMAIN Rules : j >= r.rule + 1 /\ (n = 0 \/ j < n) => ~Alarms!Concerns(j, e)
  BY <1>2, NextRuleIs
<1>6. rec' = [rec EXCEPT ![p] = t] /\ UNCHANGED <<time, events, alerts, begun, cutoff, ack, trail>>
  BY DEF Alarms!Raise
<1>7. /\ alert.id = e.id /\ alert.rule = r.rule /\ alert.group = group /\ alert.at = e.at /\ alert.by = None
  OBVIOUS
<1> HIDE DEF n, alert
<1>8. n \in Nat
  BY <1>5, AlarmConstants
<1>9. raised \subseteq Alarms!Alert /\ r.raised \subseteq raised /\ raised \subseteq r.raised \cup {alert}
      /\ (none => alert \in raised) /\ (~none => raised = r.raised)
  BY <1>1, <1>4 DEF Alarms!Rec
<1> HIDE DEF raised
<1>10. t \in Alarms!Rec /\ t.at = "count" /\ t.event = e /\ t.rule = n /\ t.raised = raised
  BY <1>1, <1>8, <1>9 DEF Alarms!Rec
<1> HIDE DEF t
<1>11. ASSUME none, NEW x \in alerts PROVE Follows(alert, x, e.beside)
  <2> SUFFICES ASSUME x.rule = r.rule, x.group = group PROVE x.at + Rules[x.rule].cooldown < alert.at
    BY <1>7 DEF Follows
  <2>1. x.at \in Nat /\ e.at \in Nat /\ Rules[r.rule].cooldown \in Nat
    BY <1>2, AlarmTypes, AlarmConstants DEF Alarms!Alert, Alarms!Event
  <2>2. ~(x.at + Rules[r.rule].cooldown >= e.at)
    BY <1>11 DEF Alarms!Recent
  <2> QED
    BY <1>7, <2>1, <2>2
<1>12. \A y \in raised : /\ y.id = e.id /\ y.at = e.at /\ y.by = None
                         /\ \A x \in alerts : Follows(y, x, e.beside)
  BY <1>1, <1>7, <1>9, <1>11 DEF RecFits
<1>13. ASSUME NEW k \in DOMAIN Rules, n = 0 \/ k < n PROVE Dealt(k, e, raised)
  <2>1. k \in Nat
    BY <1>2
  <2>2. CASE k < r.rule
    <3>1. Dealt(k, e, r.raised)
      BY <1>1, <2>2 DEF RecFits
    <3> QED
      BY <1>9, <3>1 DEF Dealt
  <2>3. CASE k = r.rule
    <3>1. CASE none
      BY <1>7, <1>9, <2>3, <3>1 DEF Dealt
    <3>2. CASE ~none
      BY <2>3, <3>2 DEF Dealt
    <3> QED
      BY <3>1, <3>2
  <2>4. CASE k >= r.rule + 1
    BY <1>5, <1>13, <2>4 DEF Dealt
  <2> QED
    BY <1>2, <2>1, <2>2, <2>3, <2>4
<1>14. RecFits(t)
  <2> HIDE DEF none, group
  <2> QED
    BY <1>1, <1>5, <1>10, <1>12, <1>13 DEF RecFits
<1> QED
  BY <1>1, <1>6, <1>10, <1>14, RecorderMoves

LEMMA Drops ==
    ASSUME AlarmInv, NEW p \in Requests, Alarms!Drop(p) PROVE AlarmInv'
<1>1. RecFits(Alarms!NoRec)
  BY NoRecIs DEF RecFits
<1> QED
  BY <1>1, NoRecIs, RecorderMoves DEF Alarms!Drop

\* A new event, which those under way know of as it knows of them.
LEMMA Records ==
    ASSUME AlarmInv, NEW p \in Requests, NEW type \in Alarms!AllTypes, NEW subject \in Subjects \cup {None},
           Alarms!Record(p, type, subject), UNCHANGED <<time, events, alerts, cutoff, ack, trail>>
    PROVE  AlarmInv'
<1> DEFINE beside == {rec[q].event.id : q \in Alarms!Open}
           e == [id |-> begun + 1, type |-> type, subject |-> subject, at |-> time, beside |-> beside]
           n == Alarms!NextRule(1, e)
           t == [Alarms!NoRec EXCEPT !.at = "count", !.event = e, !.rule = n]
<1>1. /\ begun \in Nat /\ time \in Nat /\ rec \in [Requests -> Alarms!Rec] /\ events \subseteq Alarms!Event
      /\ alerts \subseteq Alarms!Alert
  BY AlarmTypes
<1>2. /\ begun' = begun + 1 /\ rec[p].at = "idle"
      /\ rec' = [q \in Requests |->
                     IF q = p THEN t
                     ELSE IF q \in Alarms!Open THEN [rec[q] EXCEPT !.event.beside = @ \cup {begun + 1}]
                     ELSE rec[q]]
  BY DEF Alarms!Record
<1>3. ASSUME NEW q \in Alarms!Open
      PROVE  /\ q \in Requests /\ rec[q].at # "idle" /\ RecFits(rec[q]) /\ rec[q].event \in Alarms!Event
             /\ rec[q].event.id \in Nat /\ rec[q].event.id <= begun
  <2>1. q \in Requests /\ rec[q].at # "idle" /\ RecFits(rec[q])
    BY DEF Alarms!Open, AlarmInv
  <2> QED
    BY <2>1 DEF RecFits, Alarms!Event
<1>4. beside \subseteq Nat /\ \A i \in beside : i <= begun
  BY <1>3
<1>5. \A q \in Alarms!Open : rec[q].event.id \in beside
  OBVIOUS
<1> HIDE DEF beside
<1>6. e \in Alarms!Event /\ e.id = begun + 1 /\ e.at = time /\ e.beside = beside
  BY <1>1, <1>4 DEF Alarms!Event
<1> HIDE DEF e
<1>7. /\ n \in 0..Len(Rules)
      /\ n # 0 => n \in DOMAIN Rules /\ n >= 1 /\ Alarms!Concerns(n, e)
      /\ \A j \in DOMAIN Rules : j >= 1 /\ (n = 0 \/ j < n) => ~Alarms!Concerns(j, e)
  BY NextRuleIs
<1> HIDE DEF n
<1>8. n \in Nat /\ \A k \in DOMAIN Rules : k \in Nat /\ k >= 1
  BY <1>7, AlarmConstants
<1>9. t \in Alarms!Rec /\ t.at = "count" /\ t.event = e /\ t.rule = n /\ t.raised = {}
  BY <1>6, <1>8, NoRecIs DEF Alarms!Rec
<1> HIDE DEF t
<1>10. rec'[p] = t
  BY <1>2
<1>11. ASSUME NEW q \in Alarms!Open
       PROVE  /\ rec'[q] \in Alarms!Rec /\ rec'[q].at = rec[q].at /\ rec'[q].rule = rec[q].rule
              /\ rec'[q].raised = rec[q].raised /\ rec'[q].event \in Alarms!Event
              /\ rec'[q].event.id = rec[q].event.id /\ rec'[q].event.at = rec[q].event.at
              /\ rec'[q].event.type = rec[q].event.type /\ rec'[q].event.subject = rec[q].event.subject
              /\ rec'[q].event.beside = rec[q].event.beside \cup {begun + 1}
  <2>1. rec[q] \in Alarms!Rec /\ rec[q].event \in Alarms!Event /\ q \in Requests /\ q # p
    BY <1>1, <1>2, <1>3
  <2>2. rec'[q] = [rec[q] EXCEPT !.event.beside = @ \cup {begun + 1}]
    BY <1>2, <2>1
  <2> DEFINE old == rec[q].event
             b == old.beside \cup {begun + 1}
             d == [old EXCEPT !.beside = b]
  <2>3. b \in SUBSET Nat /\ old \in Alarms!Event
    BY <1>1, <2>1 DEF Alarms!Event
  <2>4. rec'[q] = [rec[q] EXCEPT !.event = d]
    BY <2>1, <2>2 DEF Alarms!Rec, Alarms!Event
  <2> HIDE DEF b
  <2>5. d \in Alarms!Event /\ d.id = old.id /\ d.at = old.at /\ d.type = old.type /\ d.subject = old.subject /\ d.beside = b
    BY <2>3 DEF Alarms!Event
  <2> HIDE DEF d
  <2>6. /\ rec'[q] \in Alarms!Rec /\ rec'[q].at = rec[q].at /\ rec'[q].rule = rec[q].rule
        /\ rec'[q].raised = rec[q].raised /\ rec'[q].event = d
    BY <2>1, <2>4, <2>5 DEF Alarms!Rec
  <2> QED
    BY <2>5, <2>6 DEF b
<1>12. ASSUME NEW q \in Requests, q # p, q \notin Alarms!Open
       PROVE  rec'[q] = rec[q] /\ rec'[q].at = "idle"
  BY <1>2, <1>12 DEF Alarms!Open
<1>13. rec' \in [Requests -> Alarms!Rec]
  <2>1. rec' = [q \in Requests |-> rec'[q]]
    BY <1>2
  <2>2. ASSUME NEW q \in Requests PROVE rec'[q] \in Alarms!Rec
    BY <1>1, <1>9, <1>10, <1>11, <1>12
  <2> QED
    BY <2>1, <2>2
<1>14. Alarms!TypeOK'
  BY <1>1, <1>2, <1>13 DEF AlarmInv, Alarms!TypeOK
<1>15. \A d \in events : d \in Alarms!Event /\ d.id \in Nat /\ d.id <= begun
  BY <1>1 DEF AlarmInv, EventsFit, Alarms!Event
<1>16. EventsFit' /\ Alarms!Spaced' /\ Alarms!Attested' /\ IsFiniteSet(events)' /\ (cutoff' = 0 \/ cutoff' + Keep <= time')
  <2>1. EventsFit'
    BY <1>1, <1>2, <1>15 DEF AlarmInv, EventsFit
  <2> QED
    BY <2>1 DEF AlarmInv, Alarms!Spaced, Alarms!Attested
<1>17. \A d \in events, k \in DOMAIN Rules : Dealt(k, d, {})'
  BY DEF AlarmInv, Dealt, Enough, Before, Alarms!Recent
<1>18. RecFits(rec[p])'
  <2>1. PICK c, m, u : c = e /\ m = n /\ u = rec'[p]
    OBVIOUS
  <2>2. u.at = "count" /\ u.event = c /\ u.rule = m /\ u.raised = {}
    BY <1>9, <1>10, <2>1
  <2>3. \A k \in DOMAIN Rules : m = 0 \/ k < m => ~Alarms!Concerns(k, c)
    BY <1>7, <1>8, <2>1
  <2>4. \A k \in DOMAIN Rules : m = 0 \/ k < m => Dealt(k, c, {})'
    BY <2>3 DEF Dealt
  <2>5. c \in Alarms!Event /\ c.id \notin c.beside /\ \A d \in events : d.id # c.id /\ d.id < c.id
    BY <1>1, <1>4, <1>6, <1>15, <2>1
  <2>6. c.id <= begun' /\ events' = events
    BY <1>1, <1>2, <1>6, <2>1
  <2>7. m \in 0..Len(Rules) /\ (m # 0 => Alarms!Concerns(m, c))
    BY <1>7, <2>1
  <2>8. RecFits(u)'
    BY <2>2, <2>4, <2>5, <2>6, <2>7 DEF RecFits
  <2> QED
    BY <2>1, <2>8 DEF RecFits, Dealt
<1>19. ASSUME NEW q \in Alarms!Open PROVE RecFits(rec[q])'
  <2>1. PICK r : r = rec[q]
    OBVIOUS
  <2>2. PICK u : u = rec'[q]
    OBVIOUS
  <2>3. RecFits(r) /\ r.at # "idle" /\ r.event.id \in Nat /\ r.event.id <= begun /\ r.event.id \notin r.event.beside
    BY <1>3, <2>1 DEF RecFits
  <2>4. /\ u.at = r.at /\ u.rule = r.rule /\ u.raised = r.raised /\ u.event \in Alarms!Event
        /\ u.event.id = r.event.id /\ u.event.at = r.event.at
        /\ u.event.type = r.event.type /\ u.event.subject = r.event.subject
        /\ u.event.beside = r.event.beside \cup {begun + 1}
    BY <1>11, <2>1, <2>2
  <2>5. r.event.beside \subseteq u.event.beside /\ u.event.id \notin u.event.beside
    BY <1>1, <2>3, <2>4
  <2>6. AlertsLast /\ cutoff <= cutoff' /\ cutoff' \in Nat /\ begun <= begun' /\ begun' \in Nat
    BY <1>1, <1>2, AlarmTypes DEF AlertsLast
  <2>7. \A x \in alerts' : \E z \in alerts : z.id = x.id /\ z.rule = x.rule /\ z.group = x.group /\ z.at = x.at
    OBVIOUS
  <2>8. \A d \in events' : d \in events
    OBVIOUS
  <2>9. RecFits(u)'
    BY <2>3, <2>4, <2>5, <2>6, <2>7, <2>8, RecKeeps
  <2> QED
    BY <2>2, <2>9 DEF RecFits, Dealt
<1>20. ASSUME NEW q \in Requests PROVE RecFits(rec[q])'
  <2>1. CASE q # p /\ q \notin Alarms!Open
    BY <1>12, <2>1 DEF RecFits
  <2> QED
    BY <1>18, <1>19, <2>1
<1>21. ASSUME NEW q \in Requests, NEW r \in Requests, q # r, rec'[q].at # "idle", rec'[r].at # "idle"
       PROVE  RecsApart(rec'[q], rec'[r])
  <2>1. CASE q # p /\ r # p
    <3>1. q \in Alarms!Open /\ r \in Alarms!Open
      BY <1>12, <1>21, <2>1
    <3>2. RecsApart(rec[q], rec[r])
      BY <1>3, <1>21, <3>1 DEF AlarmInv
    <3> QED
      BY <1>11, <3>1, <3>2 DEF RecsApart
  <2>2. CASE q = p
    <3>1. r \in Alarms!Open
      BY <1>12, <1>21, <2>2
    <3>2. rec'[r].event.id \in Nat /\ rec'[r].event.id <= begun
      BY <1>3, <1>11, <3>1
    <3> QED
      BY <1>1, <1>6, <1>9, <1>10, <1>11, <2>2, <3>1, <3>2 DEF RecsApart
  <2>3. CASE r = p
    <3>1. q \in Alarms!Open
      BY <1>12, <1>21, <2>3
    <3>2. rec'[q].event.id \in Nat /\ rec'[q].event.id <= begun /\ rec'[q].event.id \in beside
      BY <1>3, <1>5, <1>11, <3>1
    <3> QED
      BY <1>1, <1>6, <1>9, <1>10, <2>3, <3>2 DEF RecsApart
  <2> QED
    BY <2>1, <2>2, <2>3
<1>22. /\ \A q \in Requests : RecFits(rec[q])'
       /\ \A q, r \in Requests : q # r /\ rec'[q].at # "idle" /\ rec'[r].at # "idle" => RecsApart(rec'[q], rec'[r])
  BY <1>20, <1>21
<1> QED
  BY <1>14, <1>16, <1>17, <1>22 DEF AlarmInv

\* The event joins the others with its alerts, unseen by those under way.
LEMMA AlarmCommits ==
    ASSUME AlarmInv, NEW p \in Requests, Alarms!Commit(p) PROVE AlarmInv'
<1>1. PICK e, raised : e = rec[p].event /\ raised = rec[p].raised
  OBVIOUS
<1>2. /\ RecFits(rec[p]) /\ rec[p].at = "count" /\ rec[p].rule = 0 /\ rec[p] \in Alarms!Rec
  BY AlarmTypes DEF AlarmInv, Alarms!Commit
<1>3. /\ events' = events \cup {e} /\ alerts' = alerts \cup raised
      /\ rec' = [rec EXCEPT ![p] = Alarms!NoRec]
      /\ UNCHANGED <<time, begun, cutoff, ack, trail, backup>>
  BY <1>1 DEF Alarms!Commit
<1>4. /\ begun \in Nat /\ cutoff \in Nat /\ rec \in [Requests -> Alarms!Rec] /\ events \subseteq Alarms!Event
      /\ alerts \subseteq Alarms!Alert /\ IsFiniteSet(events)
  BY AlarmTypes
<1>5. /\ e \in Alarms!Event /\ e.id <= begun /\ e.id \notin e.beside /\ raised \subseteq Alarms!Alert
      /\ \A y \in raised : /\ y.id = e.id /\ y.at = e.at /\ y.by = None
                           /\ \A x \in alerts : Follows(y, x, e.beside)
      /\ \A k \in DOMAIN Rules : Dealt(k, e, raised)
      /\ \A d \in events : d.id # e.id /\ (d.id < e.id \/ e.id \in d.beside)
  BY <1>1, <1>2 DEF RecFits, Alarms!Rec
<1>6. rec'[p] = Alarms!NoRec /\ \A q \in Requests \ {p} : rec'[q] = rec[q]
  BY <1>3, <1>4
<1>7. rec' \in [Requests -> Alarms!Rec]
  BY <1>3, <1>4, NoRecIs
<1>8. Alarms!TypeOK' /\ IsFiniteSet(events')
  <2>1. events' \subseteq Alarms!Event /\ alerts' \subseteq Alarms!Alert
    BY <1>3, <1>4, <1>5
  <2>2. IsFiniteSet(events')
    BY <1>3, <1>4, FS_AddElement
  <2> QED
    BY <1>3, <1>7, <2>1, <2>2 DEF AlarmInv, Alarms!TypeOK
<1>9. EventsFit'
  <2>1. \A d, f \in events' : d.id = f.id => d = f
    BY <1>3, <1>5 DEF AlarmInv, EventsFit
  <2>2. \A d \in events' : d.id \notin d.beside /\ d.id <= begun'
    BY <1>3, <1>5 DEF AlarmInv, EventsFit
  <2>3. \A x \in alerts' : \E d \in events' : d.id = x.id /\ d.at = x.at
    BY <1>3, <1>5 DEF AlarmInv, EventsFit
  <2> QED
    BY <2>1, <2>2, <2>3 DEF EventsFit
<1>10. Alarms!Spaced'
  <2> SUFFICES ASSUME NEW x \in alerts', NEW y \in alerts', x.rule = y.rule, x.group = y.group, x.id < y.id
               PROVE  \/ x.at + Rules[x.rule].cooldown < y.at
                      \/ \E d \in events' : d.id = y.id /\ x.id \in d.beside
    BY DEF Alarms!Spaced
  <2>1. CASE x \in alerts /\ y \in alerts
    BY <1>3, <2>1 DEF AlarmInv, Alarms!Spaced
  <2>2. CASE x \in alerts /\ y \in raised
    BY <1>3, <1>5, <2>2 DEF Follows
  <2>3. CASE x \in raised /\ y \in alerts
    <3>1. PICK d \in events : d.id = y.id /\ d.at = y.at
      BY <2>3 DEF AlarmInv, EventsFit
    <3>2. d.id \in Nat /\ e.id \in Nat
      BY <1>4, <1>5 DEF Alarms!Event
    <3> QED
      BY <1>3, <1>5, <2>3, <3>1, <3>2
  <2>4. CASE x \in raised /\ y \in raised
    <3>1. e.id \in Nat
      BY <1>5 DEF Alarms!Event
    <3> QED
      BY <1>5, <2>4, <3>1
  <2> QED
    BY <1>3, <2>1, <2>2, <2>3, <2>4
<1>11. Alarms!Attested'
  BY <1>3, <1>5 DEF AlarmInv, Alarms!Attested
<1>12. AlertsLast /\ cutoff <= cutoff' /\ cutoff' \in Nat /\ begun' \in Nat /\ begun <= begun'
  BY <1>3, <1>4 DEF AlertsLast
<1>13. ASSUME NEW d \in events', NEW k \in DOMAIN Rules PROVE Dealt(k, d, {})'
  <2>1. CASE d \in events
    <3>1. Dealt(k, d, {}) /\ d \in Alarms!Event
      BY <1>4, <2>1 DEF AlarmInv
    <3>2. Before(d)' \subseteq Before(d)
      <4>1. d.id \in Nat /\ e.id \in Nat
        BY <1>4, <1>5, <2>1 DEF Alarms!Event
      <4> QED
        BY <1>3, <1>5, <2>1, <4>1 DEF Before
    <3>3. Before(d)' \subseteq Before(d) \cup (IF d = d THEN {d} ELSE {})
      BY <3>2
    <3> DEFINE S == {}
    <3> HIDE DEF S
    <3>4. Dealt(k, d, S)
      BY <3>1 DEF S
    <3>5. Dealt(k, d, S)'
      BY <1>4, <1>12, <3>1, <3>3, <3>4, DealtKeeps
    <3> QED
      BY <3>5 DEF S
  <2>2. CASE d = e
    <3>1. Before(e)' \subseteq Before(e) \cup (IF e = e THEN {e} ELSE {})
      BY <1>3 DEF Before
    <3>2. Dealt(k, e, raised)
      BY <1>5
    <3>3. Dealt(k, e, raised)'
      BY <1>4, <1>5, <1>12, <3>1, <3>2, DealtKeeps
    <3>4. ASSUME NEW y \in raised, y.rule = k, y.group = Alarms!GroupOf(Rules[k], e), y.at = e.at
          PROVE  Alarms!Recent(k, Alarms!GroupOf(Rules[k], e), e.at)' # {}
      <4>1. y \in alerts' /\ y.at + Rules[k].cooldown >= e.at
        <5>1. e.at \in Nat /\ Rules[k].cooldown \in Nat
          BY <1>5, AlarmConstants DEF Alarms!Event
        <5> QED
          BY <1>3, <3>4, <5>1
      <4> QED
        BY <3>4, <4>1 DEF Alarms!Recent
    <3>5. Dealt(k, e, {})'
      BY <3>3, <3>4 DEF Dealt
    <3> QED
      BY <2>2, <3>5
  <2> QED
    BY <1>3, <2>1, <2>2
<1>14. ASSUME NEW q \in Requests PROVE RecFits(rec[q])'
  <2>1. CASE q = p \/ rec[q].at = "idle"
    <3>1. rec'[q].at = "idle"
      BY <1>6, <2>1, NoRecIs
    <3> QED
      BY <3>1 DEF RecFits
  <2>2. CASE q # p /\ rec[q].at # "idle"
    <3>1. PICK r : r = rec[q]
      OBVIOUS
    <3>2. RecFits(r) /\ r.at # "idle" /\ r.event \in Alarms!Event /\ r.event.id \notin r.event.beside /\ rec'[q] = r
      BY <1>6, <2>2, <3>1 DEF AlarmInv, RecFits
    <3>3. RecsApart(r, rec[p]) /\ RecsApart(rec[p], r)
      BY <1>2, <2>2, <3>1 DEF AlarmInv
    <3>4. e.id # r.event.id /\ e.id \in r.event.beside /\ r.event.id \in e.beside
      BY <1>1, <3>3 DEF RecsApart
    <3>5. \A x \in alerts' : \/ \E z \in alerts : z.id = x.id /\ z.rule = x.rule /\ z.group = x.group /\ z.at = x.at
                             \/ x.id \in r.event.beside
      BY <1>3, <1>5, <3>4
    <3>6. \A d \in events' : d \in events \/ (/\ d.id \in r.event.beside /\ d.id # r.event.id
                                              /\ r.event.id \in d.beside)
      BY <1>3, <3>4
    <3>7. RecFits(r)'
      BY <1>12, <3>2, <3>5, <3>6, RecKeeps
    <3> QED
      BY <3>2, <3>7 DEF RecFits, Dealt
  <2> QED
    BY <2>1, <2>2
<1>15. \A q, r \in Requests : q # r /\ rec'[q].at # "idle" /\ rec'[r].at # "idle" => RecsApart(rec'[q], rec'[r])
  BY <1>6, NoRecIs DEF AlarmInv
<1>16. cutoff' = 0 \/ cutoff' + Keep <= time'
  BY <1>3 DEF AlarmInv
<1>17. \A d \in events', k \in DOMAIN Rules : Dealt(k, d, {})'
  BY <1>13
<1>18. \A q \in Requests : RecFits(rec[q])'
  BY <1>14
<1> QED
  BY <1>8, <1>9, <1>10, <1>11, <1>15, <1>16, <1>17, <1>18 DEF AlarmInv

\* A step that leaves the recorders alone and drops or marks alerts, drops events.
LEMMA OthersKeep ==
    ASSUME AlarmInv, Alarms!TypeOK', EventsFit', Alarms!Spaced', Alarms!Attested',
           cutoff' = 0 \/ cutoff' + Keep <= time',
           UNCHANGED <<rec, begun>>, cutoff <= cutoff', events' \subseteq events, AlertsLast,
           \A x \in alerts' : \E z \in alerts : z.id = x.id /\ z.rule = x.rule /\ z.group = x.group /\ z.at = x.at
    PROVE  AlarmInv'
<1>1. /\ begun' \in Nat /\ begun <= begun' /\ cutoff \in Nat /\ cutoff' \in Nat /\ events \subseteq Alarms!Event
      /\ alerts \subseteq Alarms!Alert /\ IsFiniteSet(events)
  BY DEF AlarmInv, Alarms!TypeOK
<1>2. IsFiniteSet(events')
  BY <1>1, FS_Subset
<1>3. ASSUME NEW d \in events', NEW k \in DOMAIN Rules PROVE Dealt(k, d, {})'
  <2> DEFINE S == {}
  <2>1. Dealt(k, d, S) /\ d \in Alarms!Event
    BY <1>1 DEF AlarmInv
  <2>2. Before(d)' \subseteq Before(d) \cup (IF d = d THEN {d} ELSE {})
    BY DEF Before
  <2> HIDE DEF S
  <2>3. Dealt(k, d, S)'
    BY <1>1, <2>1, <2>2, DealtKeeps
  <2> QED
    BY <2>3 DEF S
<1>4. ASSUME NEW q \in Requests PROVE RecFits(rec[q])'
  <2>1. CASE rec[q].at = "idle"
    BY <2>1 DEF RecFits
  <2>2. CASE rec[q].at # "idle"
    <3>1. PICK r : r = rec[q]
      OBVIOUS
    <3>2. RecFits(r) /\ r.at # "idle" /\ r.event \in Alarms!Event /\ r.event.id \notin r.event.beside /\ rec'[q] = r
      BY <2>2, <3>1 DEF AlarmInv, RecFits
    <3>3. \A d \in events' : d \in events
      OBVIOUS
    <3>4. RecFits(r)'
      BY <1>1, <3>2, <3>3, RecKeeps
    <3> QED
      BY <3>2, <3>4 DEF RecFits, Dealt
  <2> QED
    BY <2>1, <2>2
<1>5. \A q, r \in Requests : q # r /\ rec'[q].at # "idle" /\ rec'[r].at # "idle" => RecsApart(rec'[q], rec'[r])
  BY DEF AlarmInv
<1>6. \A d \in events', k \in DOMAIN Rules : Dealt(k, d, {})'
  BY <1>3
<1>7. \A q \in Requests : RecFits(rec[q])'
  BY <1>4
<1> QED
  BY <1>2, <1>5, <1>6, <1>7 DEF AlarmInv

LEMMA Acknowledges ==
    ASSUME AlarmInv, NEW a \in Admins, Alarms!Acknowledge(a) PROVE AlarmInv'
<1> DEFINE same(x) == x.id = ack[a].id /\ x.rule = ack[a].rule
           new(x) == IF same(x) THEN [x EXCEPT !.by = a] ELSE x
<1>1. /\ alerts' = {new(x) : x \in alerts}
      /\ trail' = IF \E x \in alerts : same(x)
                  THEN trail \cup {[id |-> ack[a].id, rule |-> ack[a].rule, by |-> a]} ELSE trail
      /\ ack' = [ack EXCEPT ![a] = None]
      /\ UNCHANGED <<time, events, rec, begun, cutoff, backup>>
  BY DEF Alarms!Acknowledge
<1>2. alerts \subseteq Alarms!Alert /\ ack \in [Admins -> Alarms!Alert \cup {None}] /\ cutoff \in Nat
  BY AlarmTypes
<1>3. ASSUME NEW x \in alerts
      PROVE  /\ new(x) \in Alarms!Alert /\ new(x).id = x.id /\ new(x).rule = x.rule
             /\ new(x).group = x.group /\ new(x).at = x.at
             /\ same(x) => new(x).by = a
             /\ ~same(x) => new(x).by = x.by
  BY <1>2 DEF Alarms!Alert
<1>4. \A x \in alerts' : \E z \in alerts : x = new(z)
  BY <1>1
<1>5. \A z \in alerts : new(z) \in alerts'
  BY <1>1
<1>6. Alarms!TypeOK'
  <2>1. ack' \in [Admins -> Alarms!Alert \cup {None}]
    BY <1>1, <1>2
  <2>2. alerts' \subseteq Alarms!Alert
    BY <1>3, <1>4, ZenonT(60)
  <2> QED
    BY <1>1, <2>1, <2>2 DEF AlarmInv, Alarms!TypeOK
<1>7. Alarms!Attested'
  <2> SUFFICES ASSUME NEW y \in alerts', y.by # None
               PROVE  [id |-> y.id, rule |-> y.rule, by |-> y.by] \in trail'
    BY DEF Alarms!Attested
  <2>1. PICK x \in alerts : y = new(x)
    BY <1>4
  <2>2. CASE same(x)
    <3>1. y.id = ack[a].id /\ y.rule = ack[a].rule /\ y.by = a
      BY <1>3, <2>1, <2>2
    <3> QED
      BY <1>1, <2>2, <3>1
  <2>3. CASE ~same(x)
    <3>1. y = x
      BY <2>1, <2>3
    <3> QED
      BY <1>1, <3>1 DEF AlarmInv, Alarms!Attested
  <2> QED
    BY <2>2, <2>3
<1> HIDE DEF new
<1>8. \A x \in alerts' : \E z \in alerts : z.id = x.id /\ z.rule = x.rule /\ z.group = x.group /\ z.at = x.at
  BY <1>3, <1>4
<1>9. AlertsLast
  BY <1>3, <1>5 DEF AlertsLast
<1>10. EventsFit'
  <2>1. \A x \in alerts' : \E e \in events : e.id = x.id /\ e.at = x.at
    BY <1>8 DEF AlarmInv, EventsFit
  <2> QED
    BY <1>1, <2>1 DEF AlarmInv, EventsFit
<1>11. Alarms!Spaced'
  <2> SUFFICES ASSUME NEW x \in alerts', NEW y \in alerts', x.rule = y.rule, x.group = y.group, x.id < y.id
               PROVE  \/ x.at + Rules[x.rule].cooldown < y.at
                      \/ \E d \in events' : d.id = y.id /\ x.id \in d.beside
    BY DEF Alarms!Spaced
  <2>1. PICK v \in alerts : v.id = x.id /\ v.rule = x.rule /\ v.group = x.group /\ v.at = x.at
    BY <1>8
  <2>2. PICK w \in alerts : w.id = y.id /\ w.rule = y.rule /\ w.group = y.group /\ w.at = y.at
    BY <1>8
  <2>3. \/ v.at + Rules[v.rule].cooldown < w.at
        \/ \E d \in events : d.id = w.id /\ v.id \in d.beside
    BY <2>1, <2>2 DEF AlarmInv, Alarms!Spaced
  <2> QED
    BY <1>1, <2>1, <2>2, <2>3
<1>12. cutoff' = 0 \/ cutoff' + Keep <= time'
  BY <1>1 DEF AlarmInv
<1>13. events' \subseteq events /\ cutoff <= cutoff' /\ UNCHANGED <<rec, begun>>
  BY <1>1, <1>2
<1> QED
  BY <1>6, <1>7, <1>8, <1>9, <1>10, <1>11, <1>12, <1>13, OthersKeep

\* What is purged is older than any rule looks back to, from what is left.
LEMMA Purges == ASSUME AlarmInv, Alarms!Purge PROVE AlarmInv'
<1>1. /\ time > Keep /\ cutoff' = time - Keep
      /\ events' = {e \in events : e.at >= time - Keep}
      /\ alerts' = {x \in alerts : x.at >= time - Keep}
      /\ UNCHANGED <<time, rec, begun, ack, trail, backup>>
  BY DEF Alarms!Purge
<1>2. /\ time \in Nat /\ cutoff \in Nat /\ Keep \in Nat /\ events \subseteq Alarms!Event /\ alerts \subseteq Alarms!Alert
  BY AlarmTypes, AlarmConstants
<1>3. cutoff' \in Nat /\ cutoff' + Keep <= time' /\ cutoff <= cutoff'
  BY <1>1, <1>2 DEF AlarmInv
<1>4. Alarms!TypeOK'
  BY <1>1, <1>3 DEF AlarmInv, Alarms!TypeOK
<1>5. \A e \in events : e.at \in Nat
  BY <1>2 DEF Alarms!Event
<1>6. \A x \in alerts : x.at \in Nat
  BY <1>2 DEF Alarms!Alert
<1>7. ASSUME NEW x \in alerts', NEW e \in events, e.id = x.id PROVE e \in events'
  <2>1. PICK d \in events : d.id = x.id /\ d.at = x.at
    BY <1>1 DEF AlarmInv, EventsFit
  <2>2. d = e
    BY <1>7, <2>1 DEF AlarmInv, EventsFit
  <2> QED
    BY <1>1, <2>1, <2>2
<1>8. EventsFit'
  <2>1. \A x \in alerts' : \E e \in events' : e.id = x.id /\ e.at = x.at
    BY <1>1, <1>7 DEF AlarmInv, EventsFit
  <2> QED
    BY <1>1, <2>1 DEF AlarmInv, EventsFit
<1>9. Alarms!Spaced'
  <2> SUFFICES ASSUME NEW x \in alerts', NEW y \in alerts', x.rule = y.rule, x.group = y.group, x.id < y.id
               PROVE  \/ x.at + Rules[x.rule].cooldown < y.at
                      \/ \E d \in events' : d.id = y.id /\ x.id \in d.beside
    BY DEF Alarms!Spaced
  <2>1. \/ x.at + Rules[x.rule].cooldown < y.at
        \/ \E d \in events : d.id = y.id /\ x.id \in d.beside
    BY <1>1 DEF AlarmInv, Alarms!Spaced
  <2> QED
    BY <1>7, <2>1
<1>10. Alarms!Attested'
  BY <1>1 DEF AlarmInv, Alarms!Attested
<1>11. AlertsLast
  BY <1>1, <1>2, <1>6 DEF AlertsLast
<1>12. /\ events' \subseteq events /\ UNCHANGED <<rec, begun>>
       /\ \A x \in alerts' : \E z \in alerts : z.id = x.id /\ z.rule = x.rule /\ z.group = x.group /\ z.at = x.at
  BY <1>1
<1> QED
  BY <1>3, <1>4, <1>8, <1>9, <1>10, <1>11, <1>12, OthersKeep

LEMMA AlarmInit == Alarms!Init => AlarmInv
<1> SUFFICES ASSUME Alarms!Init PROVE AlarmInv
  OBVIOUS
<1>1. /\ time = 0 /\ events = {} /\ alerts = {} /\ rec = [p \in Requests |-> Alarms!NoRec]
      /\ begun = 0 /\ cutoff = 0 /\ ack = [a \in Admins |-> None]
  BY DEF Alarms!Init
<1>2. Alarms!TypeOK /\ IsFiniteSet(events)
  BY <1>1, NoRecIs, FS_EmptySet DEF Alarms!TypeOK
<1>3. EventsFit /\ Alarms!Spaced /\ Alarms!Attested
  BY <1>1 DEF EventsFit, Alarms!Spaced, Alarms!Attested
<1>4. \A p \in Requests : RecFits(rec[p])
  BY <1>1, NoRecIs DEF RecFits
<1> QED
  BY <1>1, <1>2, <1>3, <1>4, NoRecIs DEF AlarmInv

LEMMA AlarmKept == AlarmInv /\ [Alarms!Next]_alarmVars => AlarmInv'
<1> SUFFICES ASSUME AlarmInv, [Alarms!Next]_alarmVars PROVE AlarmInv'
  OBVIOUS
<1>1. CASE UNCHANGED alarmVars \/ Alarms!Tick
  <2>1. /\ UNCHANGED <<events, alerts, rec, begun, cutoff, ack, trail>>
        /\ time' = time \/ time' = time + 1
    BY <1>1 DEF alarmVars, Alarms!Tick
  <2>2. time' \in Nat /\ time' >= time
    BY <2>1, AlarmTypes
  <2>3. Alarms!TypeOK'
    BY <2>1, <2>2 DEF AlarmInv, Alarms!TypeOK
  <2> QED
    BY <2>1, <2>2, <2>3, Quiet
<1>2. ASSUME NEW a \in Admins, Alarms!ReadAlert(a) PROVE AlarmInv'
  <2>1. /\ UNCHANGED <<time, events, alerts, rec, begun, cutoff, trail>>
        /\ \E x \in alerts : ack' = [ack EXCEPT ![a] = x]
    BY <1>2 DEF Alarms!ReadAlert
  <2>2. Alarms!TypeOK' /\ time' >= time
    BY <2>1, AlarmTypes DEF AlarmInv, Alarms!TypeOK
  <2> QED
    BY <2>1, <2>2, Quiet
<1>3. ASSUME NEW p \in Requests, Alarms!Heartbeat(p) PROVE AlarmInv'
  <2>1. CASE UNCHANGED <<rec, begun>>
    <3>1. Alarms!TypeOK' /\ time' >= time
      BY <1>3, <2>1, AlarmTypes DEF AlarmInv, Alarms!TypeOK, Alarms!Heartbeat
    <3> QED
      BY <1>3, <2>1, <3>1, Quiet DEF Alarms!Heartbeat
  <2>2. CASE Alarms!Record(p, "backup_failed", None)
    BY <1>3, <2>2, Records DEF Alarms!Heartbeat, Alarms!AllTypes, Alarms!BackupTypes
  <2> QED
    BY <1>3, <2>1, <2>2 DEF Alarms!Heartbeat
<1>4. ASSUME NEW p \in Requests, Alarms!MissBackup(p) PROVE AlarmInv'
  BY <1>4, Records DEF Alarms!MissBackup, Alarms!AllTypes, Alarms!BackupTypes
<1>5. ASSUME NEW p \in Requests, Alarms!Respond(p) PROVE AlarmInv'
  BY <1>5, Records DEF Alarms!Respond, Alarms!AllTypes
<1>6. ASSUME NEW p \in Requests, Alarms!RecorderStep(p) PROVE AlarmInv'
  BY <1>3, <1>4, <1>5, <1>6, Counts, Raises, AlarmCommits, Drops DEF Alarms!RecorderStep
<1> QED
  BY <1>1, <1>2, <1>6, Acknowledges, Purges DEF Alarms!Next

\* A committed event is there when it is counted.
LEMMA AlertsAnswer == AlarmInv => Alarms!AlertsAnswerEvents
<1> SUFFICES ASSUME AlarmInv PROVE Alarms!AlertsAnswerEvents
  OBVIOUS
<1>1. ASSUME NEW e \in events, NEW k \in DOMAIN Rules,
             Alarms!Concerns(k, e),
             Alarms!Counted(Rules[k], Alarms!InWindow(Rules[k], e, Before(e))) >= Rules[k].threshold,
             e.at >= cutoff + Rules[k].cooldown
      PROVE  Alarms!Recent(k, Alarms!GroupOf(Rules[k], e), e.at) # {}
  <2>1. e.id \in Nat /\ e.id \notin e.beside
    BY AlarmTypes DEF AlarmInv, EventsFit, Alarms!Event
  <2>2. Before(e) \cup {e} = Before(e)
    BY <2>1 DEF Before
  <2>3. Enough(k, e)
    BY <1>1, <2>2 DEF Enough
  <2> QED
    BY <1>1, <2>3 DEF AlarmInv, Dealt
<1>2. Alarms!Answered
  BY <1>1 DEF Alarms!Answered, Before
<1> QED
  BY <1>2 DEF AlarmInv, Alarms!AlertsAnswerEvents

-----------------------------------------------------------------------------

AccessInv == SignInInv /\ SocketInv /\ AlarmInv

LEMMA AccessInit == AllInit => AccessInv
  BY SignInInit, SocketInit, AlarmInit DEF AllInit, AccessInv

LEMMA AccessKept == AccessInv /\ [AllNext]_allVars => AccessInv'
<1> SUFFICES ASSUME AccessInv, [AllNext]_allVars PROVE AccessInv'
  OBVIOUS
<1>1. [SignIns!Next]_signInVars /\ [Connections!Next]_socketVars /\ [Alarms!Next]_alarmVars
  <2>1. CASE AttemptStep \/ UNCHANGED allVars
    BY <2>1 DEF AttemptStep, allVars, signInVars, socketVars, alarmVars
  <2>2. CASE SignInStep
    BY <2>2 DEF SignInStep, signInVars, socketVars, alarmVars
  <2>3. CASE SocketStep
    BY <2>3 DEF SocketStep, signInVars, socketVars, alarmVars
  <2>4. CASE AlarmStep
    BY <2>4 DEF AlarmStep, signInVars, socketVars, alarmVars
  <2> QED
    BY <2>1, <2>2, <2>3, <2>4 DEF AllNext
<1> QED
  BY <1>1, SignInKept, SocketKept, AlarmKept DEF AccessInv

\* A live session is of the account's password or of the one set last, and of an active user, unless
\* it was opened beside a change, one reset code is open, and no socket outlives its session by more
\* than an interval or its slot (_login, change_password, redeem_reset_code, set_active, SocketGuard,
\* SocketSlots), for any number of requests.
THEOREM AccessDoesFollow == AccessSpec => []AccessFollows
<1>1. AccessInv => AccessFollows
  BY SocketsAreChecked DEF AccessInv, SignInInv, AccessFollows
<1> QED
  BY <1>1, AccessInit, AccessKept, PTL DEF AccessSpec

\* Alerts answer every event that reaches a rule, once per cooldown, and name who acknowledged
\* them (evaluate, purge, acknowledge_alert), for any number of recorders and subjects.
THEOREM AlertsDoAnswer == AccessSpec => []AlertsAnswerEvents
<1>1. AccessInv => AlertsAnswerEvents
  BY AlertsAnswer DEF AccessInv, AlertsAnswerEvents
<1> QED
  BY <1>1, AccessInit, AccessKept, PTL DEF AccessSpec
=============================================================================
