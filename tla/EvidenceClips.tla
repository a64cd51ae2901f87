---------------------------- MODULE EvidenceClips ----------------------------
(***************************************************************************)
(* The evidence clips of one proctored attempt                             *)
(* (backend/app/services/evidence_clips, services/retention.py): an event  *)
(* the candidate's app reports may create a clip, the app uploads its      *)
(* video, an administrator reads or deletes it, and the maintenance run    *)
(* closes overdue clips, deletes videos past their retention and, years    *)
(* later, the attempt.                                                     *)
(*                                                                         *)
(* The rows live in the database, where a request's changes become visible *)
(* when it commits; the videos live in a store with no transactions, where *)
(* a put or a delete counts at once and is not undone by a rollback.  A    *)
(* clip is named by the event that triggered it (trigger_event_id is       *)
(* unique) and a video by its clip and the number of the put.              *)
(***************************************************************************)
EXTENDS Integers, FiniteSets

CONSTANTS Events,        \* evidence-worthy events the app may report
          Requests,      \* requests and maintenance runs that overlap
          None,
          Post,          \* EVIDENCE_POST_SECONDS, in ticks
          Grace,         \* EVIDENCE_UPLOAD_GRACE_SECONDS
          Cooldown,      \* EVIDENCE_COOLDOWN_SECONDS
          MaxClips,      \* EVIDENCE_MAX_CLIPS_PER_SESSION
          MaxUploads,    \* EVIDENCE_MAX_UPLOAD_ATTEMPTS
          Retention,     \* EVIDENCE_RETENTION_DAYS
          AttemptKept,   \* RETENTION_ATTEMPT_DAYS
          MaxTime,       \* bound of the clock
          MaxCrashes     \* bound of the requests that are cut off

ASSUME ClipConstants ==
    /\ {Post, Grace, Cooldown, MaxClips, MaxUploads, Retention, AttemptKept,
        MaxTime, MaxCrashes} \subseteq Nat
    /\ MaxUploads > 0 /\ Retention > 0

VARIABLES now,       \* the server's clock
          attempt,   \* the attempt: its status and when it was finalized
          review,    \* the status of the attempt's review
          recorded,  \* when each event was recorded
          link,      \* the clip that covers an event
          clip,      \* the rows of evidence_clips
          video,     \* the objects in the store
          puts,      \* the objects put for each clip, the rolled back included
          req,       \* the requests in progress
          crashes,   \* requests cut off so far
          orphans,   \* videos whose upload was rolled back or whose row was purged
          fresh      \* the runs that had looked for a review before it was started

rowVars == <<recorded, link, clip>>
clipVars == <<now, attempt, review, recorded, link, clip, video, puts, req, crashes, orphans, fresh>>

Status == {"CREATING", "READY", "FAILED", "EXPIRED", "DELETED"}
Gone == {"EXPIRED", "DELETED"}
Keys == Events \X (Nat \ {0})

Clip == [status: Status, at: Nat, deadline: Nat, uploads: Nat,
         key: Keys \cup {None}, retain: Nat \cup {None}]

NewClip(t) == [status |-> "CREATING", at |-> t, deadline |-> t + Post + Grace,
               uploads |-> 0, key |-> None, retain |-> None]

\* None stands for NULL and for nothing.
ASSUME NoneIsNothing ==
    /\ None \notin Clip /\ None \notin Nat /\ None \notin Keys /\ None \notin Events
    /\ None \notin {"event", "upload", "view", "delete", "maintain"}
    /\ None \notin {"lock", "put", "store", "write", "erase", "hold", "delete", "purge", "commit"}
    /\ None \notin {"IN_REVIEW", "REVIEWED"}

\* A request in progress: the clip it is about, the clip its event is linked to, the row it read,
\* what it will write when it commits, the rows it has locked and the videos it still has to delete.
NoRequest == [op |-> None, step |-> None, on |-> None, since |-> 0, link |-> None, row |-> None,
              write |-> [e \in {} |-> None], holds |-> {}, left |-> {}]

Rows == {e \in Events : clip[e] # None}
Busy(r) == req[r].op # None
Locked(e) == \E r \in Requests : e \in req[r].holds
\* A plausible slip: the attempt is read without its lock.
NoAttemptLock == FALSE

AttemptLocked == \E r \in Requests : req[r].op = "event"
Creating(row) == row # None /\ row.status = "CREATING"
Overdue(row, t) == Creating(row) /\ t > row.deadline
Failed(row) == [row EXCEPT !.status = "FAILED"]
Adding(write, e, row) == [f \in DOMAIN write \cup {e} |-> IF f = e THEN row ELSE write[f]]
Written(write) == [e \in Events |-> IF e \in DOMAIN write THEN write[e] ELSE clip[e]]

ClipInit ==
    /\ now = 0
    /\ attempt = [status |-> "OPEN", ended |-> None]
    /\ review = None
    /\ recorded = [e \in Events |-> None]
    /\ link = [e \in Events |-> None]
    /\ clip = [e \in Events |-> None]
    /\ video = {} /\ orphans = {} /\ fresh = {}
    /\ puts = [e \in Events |-> 0]
    /\ req = [r \in Requests |-> NoRequest]
    /\ crashes = 0

Opens(r, new) == ~Busy(r) /\ req' = [req EXCEPT ![r] = new]
Continues(r, next) == req' = [req EXCEPT ![r] = next]
Ends(r) == req' = [req EXCEPT ![r] = NoRequest]

\* The overdue clips a sweep takes: rows another request has locked are skipped.
Swept == {e \in Rows : Overdue(clip[e], now) /\ ~Locked(e)}
Sweeping == [e \in Swept |-> Failed(clip[e])]

(***************************************************************************)
(* The candidate's app.                                                    *)
(***************************************************************************)

\* The clip an event at this time is covered by, of those still being captured.
Capturing(rows) == {e \in Events : Creating(rows[e]) /\ rows[e].at + Post >= now}
CoveredBy(rows) == CHOOSE e \in Capturing(rows) : \A f \in Capturing(rows) : rows[f].at <= rows[e].at
Cooling == \E e \in Rows : now - clip[e].at < Cooldown
AtCap == Cardinality(Rows) >= MaxClips

\* The event is inserted and the clip decided while the attempt's row is locked: link to the clip
\* being captured, nothing during the cooldown or at the cap, or a new clip.
ReportEvent(r, e) ==
    /\ attempt.status = "OPEN" /\ ~AttemptLocked
    /\ recorded[e] = None
    /\ LET rows == Written(Sweeping)
           fresh_ == Capturing(rows) = {} /\ ~Cooling /\ ~AtCap
       IN  Opens(r, [NoRequest EXCEPT
                     !.op = "event", !.on = e, !.since = now, !.holds = Swept,
                     !.link = IF Capturing(rows) # {} THEN CoveredBy(rows)
                              ELSE IF fresh_ THEN e ELSE None,
                     !.write = IF fresh_ THEN Adding(Sweeping, e, NewClip(now)) ELSE Sweeping])
    /\ UNCHANGED <<now, attempt, review, rowVars, video, puts, crashes, orphans, fresh>>

EventCommits(r) ==
    /\ req[r].op = "event"
    /\ recorded' = [recorded EXCEPT ![req[r].on] = req[r].since]
    /\ link' = [link EXCEPT ![req[r].on] = req[r].link]
    /\ clip' = Written(req[r].write)
    /\ Ends(r)
    /\ UNCHANGED <<now, attempt, review, video, puts, crashes, orphans, fresh>>

\* An upload notes the time and then waits for the clip's row (an upload of a clip that is closed
\* already is refused and changes nothing).
UploadArrives(r, e) ==
    /\ Creating(clip[e])
    /\ Opens(r, [NoRequest EXCEPT !.op = "upload", !.step = "lock", !.on = e, !.since = now])
    /\ UNCHANGED <<now, attempt, review, rowVars, video, puts, crashes, orphans, fresh>>

\* A plausible slip: the clip of an upload is read without its lock.
UploadAnyTime(e) == TRUE

UploadFree(e) == ~Locked(e)

\* With the row: refused when the clip is closed, which an overdue clip becomes now; a video that
\* is too large or not WebM fails the clip; a request of the wrong shape changes nothing.
UploadLocks(r) ==
    LET e == req[r].on
        row == clip[e]
        counted == [row EXCEPT !.uploads = @ + 1]
    IN  /\ req[r].op = "upload" /\ req[r].step = "lock" /\ UploadFree(e)
        /\ \/ /\ ~Creating(row)
              /\ Ends(r) /\ UNCHANGED clip
           \/ /\ Overdue(row, req[r].since)
              /\ clip' = [clip EXCEPT ![e] = Failed(row)]
              /\ Ends(r)
           \/ /\ Creating(row) /\ ~Overdue(row, req[r].since)
              /\ \/ Ends(r) /\ UNCHANGED clip
                 \/ clip' = [clip EXCEPT ![e] = Failed(counted)] /\ Ends(r)
                 \/ /\ counted.uploads <= MaxUploads
                    /\ Continues(r, [req[r] EXCEPT !.step = "put", !.row = counted, !.holds = {e}])
                    /\ UNCHANGED clip
        /\ UNCHANGED <<now, attempt, review, recorded, link, video, puts, crashes, orphans, fresh>>

\* The store takes the video under a new key.
Puts(r) ==
    LET e == req[r].on
        key == <<e, puts[e] + 1>>
    IN  /\ req[r].step = "put"
        /\ video' = video \cup {key}
        /\ puts' = [puts EXCEPT ![e] = @ + 1]
        /\ Continues(r, [req[r] EXCEPT !.step = "store", !.row.key = key])
        /\ UNCHANGED <<now, attempt, review, rowVars, crashes, orphans, fresh>>

\* The store refuses: the attempt to upload stays counted, and the last one fails the clip.
PutFails(r) ==
    LET e == req[r].on
        row == req[r].row
    IN  /\ req[r].step = "put"
        /\ clip' = [clip EXCEPT ![e] = IF row.uploads >= MaxUploads THEN Failed(row) ELSE row]
        /\ Ends(r)
        /\ UNCHANGED <<now, attempt, review, recorded, link, video, puts, crashes, orphans, fresh>>

UploadCommits(r) ==
    /\ req[r].step = "store"
    /\ clip' = [clip EXCEPT ![req[r].on] = [req[r].row EXCEPT !.status = "READY",
                                                              !.retain = now + Retention]]
    /\ Ends(r)
    /\ UNCHANGED <<now, attempt, review, recorded, link, video, puts, crashes, orphans, fresh>>

\* The app reports that it could not record or send the clip.
ReportFailure(e) ==
    /\ Creating(clip[e]) /\ ~Locked(e)
    /\ clip' = [clip EXCEPT ![e] = Failed(@)]
    /\ UNCHANGED <<now, attempt, review, recorded, link, video, puts, req, crashes, orphans, fresh>>

\* The attempt is submitted, ended or out of time.
Finalize ==
    /\ attempt.status = "OPEN" /\ ~AttemptLocked
    /\ attempt' = [status |-> "FINAL", ended |-> now]
    /\ UNCHANGED <<now, review, rowVars, video, puts, req, crashes, orphans, fresh>>

(***************************************************************************)
(* Administrators.                                                         *)
(***************************************************************************)

\* The list of an attempt's clips sweeps the overdue ones first.
ListClips ==
    /\ Swept # {}
    /\ clip' = Written(Sweeping)
    /\ UNCHANGED <<now, attempt, review, recorded, link, video, puts, req, crashes, orphans, fresh>>

\* One clip is read without a lock, to show, play, verify or delete it.
ReadClip(r, e, op) ==
    LET row == clip[e]
        late == Overdue(row, now)
    IN  /\ row # None
        /\ \/ /\ op = "view" /\ late
              /\ Opens(r, [NoRequest EXCEPT !.op = "view", !.step = "write", !.on = e,
                                            !.row = Failed(row)])
           \/ /\ op = "delete" /\ row.status \notin Gone
              /\ Opens(r, [NoRequest EXCEPT
                           !.op = "delete", !.on = e,
                           !.step = IF row.status = "READY" THEN "erase" ELSE "write",
                           !.row = [row EXCEPT !.status = "DELETED"]])
        /\ UNCHANGED <<now, attempt, review, rowVars, video, puts, crashes, orphans, fresh>>

Erases(r) ==
    /\ req[r].op = "delete" /\ req[r].step = "erase"
    /\ video' = video \ {req[r].row.key}
    /\ Continues(r, [req[r] EXCEPT !.step = "write"])
    /\ UNCHANGED <<now, attempt, review, rowVars, puts, crashes, orphans, fresh>>

\* The store refuses the deletion and the clip stays as it is.
EraseFails(r) ==
    /\ req[r].op = "delete" /\ req[r].step = "erase"
    /\ Ends(r)
    /\ UNCHANGED <<now, attempt, review, rowVars, video, puts, crashes, orphans, fresh>>

\* The status decided on the row as read is written over the row as it is now; the write waits
\* for the row, and fails when the row is gone.
WritesStatus(r) ==
    LET e == req[r].on
    IN  /\ req[r].op \in {"view", "delete"} /\ req[r].step = "write" /\ ~Locked(e)
        /\ clip' = [clip EXCEPT ![e] = IF @ = None THEN None ELSE [@ EXCEPT !.status = req[r].row.status]]
        /\ Ends(r)
        /\ UNCHANGED <<now, attempt, review, recorded, link, video, puts, crashes, orphans, fresh>>

\* A review of the attempt is started, and is decided once the attempt is final.
StartReview ==
    /\ attempt.status # "GONE" /\ review = None
    /\ review' = "IN_REVIEW"
    /\ fresh' = {r \in Requests : req[r].step \in {"delete", "purge"}}
    /\ UNCHANGED <<now, attempt, rowVars, video, puts, req, crashes, orphans>>

CompleteReview ==
    /\ attempt.status = "FINAL" /\ review = "IN_REVIEW"
    /\ review' = "REVIEWED"
    /\ UNCHANGED <<now, attempt, rowVars, video, puts, req, crashes, orphans, fresh>>

(***************************************************************************)
(* The maintenance run: one transaction.                                   *)
(***************************************************************************)

\* Overdue clips are failed, and the rows of the videos past their retention locked.
Due == {e \in Rows : clip[e].status = "READY" /\ clip[e].retain <= now /\ ~Locked(e)}

\* A plausible slip: the query for reviews in progress is left out.
NeverHeld == FALSE

Held == review = "IN_REVIEW"
Purgeable == attempt.status = "FINAL" /\ attempt.ended + AttemptKept < now /\ ~Held

MaintenanceStarts(r) ==
    /\ Swept \cup Due # {} \/ Purgeable
    /\ Opens(r, [NoRequest EXCEPT
                 !.op = "maintain", !.step = "hold", !.holds = Swept \cup Due,
                 !.write = Sweeping, !.left = {clip[e].key : e \in Due}])
    /\ fresh' = fresh \ {r}
    /\ UNCHANGED <<now, attempt, review, rowVars, video, puts, crashes, orphans>>

\* The reviews are read once, after the rows: clips of an attempt in review are left alone.
ReadsHolds(r) ==
    /\ req[r].step = "hold"
    /\ Continues(r, [req[r] EXCEPT !.step = "delete", !.left = IF Held THEN {} ELSE @])
    /\ UNCHANGED <<now, attempt, review, rowVars, video, puts, crashes, orphans, fresh>>

\* One video after another is deleted; a failure leaves the clip READY.
DeletesVideo(r, k) ==
    /\ req[r].op = "maintain" /\ req[r].step = "delete"
    /\ \/ /\ video' = video \ {k}
          /\ Continues(r, [req[r] EXCEPT
                 !.left = @ \ {k},
                 !.write = Adding(@, k[1], [clip[k[1]] EXCEPT !.status = "EXPIRED"])])
       \/ /\ Continues(r, [req[r] EXCEPT !.left = @ \ {k}])
          /\ UNCHANGED video
    /\ UNCHANGED <<now, attempt, review, rowVars, puts, crashes, orphans, fresh>>

\* The purge looks whether the attempt is old enough and not in review, and for READY clips, whose
\* rows it does not lock.
StillReady(r) == {row.key : row \in {row \in {Written(req[r].write)[e] : e \in Rows} : row.status = "READY"}}

LooksForPurge(r) ==
    /\ req[r].op = "maintain" /\ req[r].step = "delete" /\ req[r].left = {}
    /\ Continues(r, [req[r] EXCEPT !.step = IF Purgeable THEN "purge" ELSE "commit",
                                   !.left = IF Purgeable THEN StillReady(r) ELSE {}])
    /\ UNCHANGED <<now, attempt, review, rowVars, video, puts, crashes, orphans, fresh>>

\* A failure of the store undoes the purge, and not the deletions already made.
PurgesVideo(r, k) ==
    /\ req[r].step = "purge"
    /\ \/ /\ video' = video \ {k}
          /\ Continues(r, [req[r] EXCEPT !.left = @ \ {k}])
       \/ /\ Continues(r, [req[r] EXCEPT !.step = "commit", !.left = {}])
          /\ UNCHANGED video
    /\ UNCHANGED <<now, attempt, review, rowVars, puts, crashes, orphans, fresh>>

\* The attempt is deleted with its clips and its review, once no other request holds any of them.
\* Nothing deletes a video of a clip that was not READY.
PurgeCommits(r) ==
    /\ req[r].step = "purge" /\ req[r].left = {}
    /\ ~AttemptLocked /\ \A q \in Requests \ {r} : req[q].holds = {}
    /\ attempt' = [attempt EXCEPT !.status = "GONE"]
    /\ review' = None
    /\ clip' = [e \in Events |-> None]
    /\ link' = clip' /\ recorded' = clip'
    /\ orphans' = orphans \cup video
    /\ Ends(r)
    /\ UNCHANGED <<now, video, puts, crashes, fresh>>

MaintenanceCommits(r) ==
    /\ req[r].op = "maintain" /\ req[r].step = "commit"
    /\ clip' = Written(req[r].write)
    /\ Ends(r)
    /\ UNCHANGED <<now, attempt, review, recorded, link, video, puts, crashes, orphans, fresh>>

(***************************************************************************)
(* Failures and time.                                                      *)
(***************************************************************************)

\* A request is cut off: the database forgets it, the store does not.
Crash(r) ==
    /\ Busy(r) /\ crashes < MaxCrashes
    /\ crashes' = crashes + 1
    /\ orphans' = IF req[r].step = "store" THEN orphans \cup {req[r].row.key} ELSE orphans
    /\ Ends(r)
    /\ UNCHANGED <<now, attempt, review, rowVars, video, puts, fresh>>

Tick ==
    /\ now < MaxTime
    /\ now' = now + 1
    /\ UNCHANGED <<attempt, review, rowVars, video, puts, req, crashes, orphans, fresh>>

ClipStep(r) ==
    \/ EventCommits(r)
    \/ UploadLocks(r) \/ Puts(r) \/ PutFails(r) \/ UploadCommits(r)
    \/ Erases(r) \/ EraseFails(r) \/ WritesStatus(r)
    \/ ReadsHolds(r) \/ LooksForPurge(r) \/ PurgeCommits(r) \/ MaintenanceCommits(r)
    \/ \E k \in req[r].left : DeletesVideo(r, k) \/ PurgesVideo(r, k)

ClipNext ==
    \/ \E r \in Requests :
          \/ ClipStep(r)
          \/ MaintenanceStarts(r)
          \/ Crash(r)
          \/ \E e \in Events : \/ ReportEvent(r, e)
                               \/ UploadArrives(r, e)
                               \/ \E op \in {"view", "delete"} : ReadClip(r, e, op)
    \/ \E e \in Events : ReportFailure(e)
    \/ Finalize \/ ListClips \/ StartReview \/ CompleteReview \/ Tick

(***************************************************************************)
(* Properties.                                                             *)
(***************************************************************************)

ClipTypeOK ==
    /\ now \in 0..MaxTime
    /\ attempt \in [status : {"OPEN", "FINAL", "GONE"}, ended : Nat \cup {None}]
    /\ review \in {None, "IN_REVIEW", "REVIEWED"}
    /\ \A e \in Events : /\ recorded[e] \in Nat \cup {None}
                         /\ link[e] \in Events \cup {None}
                         /\ clip[e] \in {None} \cup Clip
                         /\ puts[e] \in Nat
    /\ video \subseteq Keys /\ orphans \subseteq Keys /\ fresh \subseteq Requests

\* A clip gets one video: whatever overlaps, an object in the store is named by its clip's row, or
\* is being stored by an upload that holds the row, or was left by an upload that was rolled back or
\* by the purge of its attempt; and a READY clip names an object that was stored
\* (accept_upload puts the video before it sets READY, under the row's lock).
VideosNamed ==
    /\ \A k \in video \ orphans :
          \/ clip[k[1]] # None /\ clip[k[1]].key = k
          \/ \E r \in Requests : req[r].step = "store" /\ req[r].row.key = k
    /\ \A e \in Rows : clip[e].status = "READY" => \E n \in 1..puts[e] : clip[e].key = <<e, n>>

\* The review hold: a maintenance run deletes no video of an attempt in review, unless the review
\* was started after the run had looked for it.
HoldKept ==
    [][\A r \in Requests :
          req[r].op = "maintain" /\ req'[r] # req[r] /\ video' # video /\ review = "IN_REVIEW" => r \in fresh]_clipVars

\* Events reported at the same time make no extra clip: at most the cap, started a cooldown apart,
\* and a covered event lies in the window of its clip.
ClipsSpaced ==
    /\ Cardinality(Rows) <= MaxClips
    /\ \A e, f \in Rows : e # f => clip[e].at - clip[f].at >= Cooldown
                                  \/ clip[f].at - clip[e].at >= Cooldown
    /\ \A e \in Events : link[e] # None => /\ clip[link[e]] # None
                                          /\ recorded[e] - clip[link[e]].at \in 0..Post

\* What docs/EVIDENCE-CLIPS.md and retention.py say of retention: a stored video belongs to a READY
\* clip, which the retention finds, unless it is being stored or was left by a request cut off.
\* The code breaks it: a status decided on an unlocked read is written over READY.
VideosReachable ==
    \A k \in video \ orphans :
       \/ clip[k[1]] # None /\ clip[k[1]].key = k /\ clip[k[1]].status = "READY"
       \/ \E r \in Requests : req[r].step = "store" /\ req[r].row.key = k

ClipSpec == ClipInit /\ [][ClipNext]_clipVars
=============================================================================
