--------------------------- MODULE TranscodeQueue ---------------------------
(***************************************************************************)
(* The durable transcode queue: app/jobs.py, transcode_video() and the     *)
(* upload, retry and delete handlers of app/videos.py and app/admin.py.    *)
(*                                                                         *)
(* Several processes (a web service, a second worker unit, the two sides   *)
(* of a rolling restart) share one SQLite database.  Each runs its pool of *)
(* worker tasks.  A step of the model is one statement outside a           *)
(* transaction, or one whole transaction: SQLite holds the write lock from *)
(* the first DML statement to the commit, and a connection that is closed  *)
(* by a crash rolls back.                                                  *)
(*                                                                         *)
(* Time is a countdown: lease[j] is how many ticks are left before the     *)
(* lease of job j lapses.                                                  *)
(***************************************************************************)
EXTENDS Integers, FiniteSets

CONSTANTS
    Procs,           \* process slots; an incarnation of a slot has one WORKER_ID
    Workers,         \* worker tasks, TRANSCODE_CONCURRENCY of them per process
    ProcOf,          \* the process slot a worker task belongs to
    Videos,          \* rows of the videos table
    Retries,         \* admin "retry" requests, each made at most once
    RetryFrom,       \* statuses of a video its admin may ask a retry for
    Deletes,         \* "delete video" requests, each made at most once
    Nobody,          \* worker_id IS NULL
    Dead,            \* the worker_id of any incarnation that is gone
    NoVideo,
    MaxAttempts,     \* TRANSCODE_MAX_ATTEMPTS
    Renditions,      \* how many entries RENDITIONS has
    Lease,           \* TRANSCODE_LEASE_SECONDS, in ticks
    MaxGap,          \* longest time between two renewals by a live worker
    Stalls,          \* TRUE: a live worker may miss renewals without limit
    QuickRestart,    \* TRUE: a process may restart before old leases lapse
    TranscodeVideos, \* Config.TRANSCODE_VIDEOS
    KeepRaw,         \* Config.KEEP_RAW_UPLOADS
    MaxJobs,         \* bound: rows of transcode_jobs
    MaxCrashes,      \* bound: kills and shutdowns of a process
    MaxDbErrors      \* bound: database errors raised outside transcode_video()

JobIds == 1..MaxJobs
NoJob == 0

ASSUME ProcAssumption ==
    /\ ProcOf \in [Workers -> Procs]
    /\ Nobody \notin Procs /\ Dead \notin Procs /\ Nobody # Dead
    /\ Nobody \notin Workers /\ NoVideo \notin Videos
ASSUME LimitAssumption ==
    /\ MaxJobs \in Nat /\ MaxCrashes \in Nat /\ MaxDbErrors \in Nat
    /\ MaxAttempts \in Nat \ {0} /\ Renditions \in Nat \ {0}
    /\ Lease \in Nat /\ MaxGap \in Nat /\ MaxGap < Lease
ASSUME SwitchAssumption ==
    {Stalls, QuickRestart, TranscodeVideos, KeepRaw} \subseteq BOOLEAN

VARIABLES
    \* the table transcode_jobs
    jStatus, jVideo, attempts, owner, lease, nextJob,
    \* the table videos, whether it has a ready row in video_renditions,
    \* and the original upload on disk
    vStatus, rawPath, hasReady, announced, rawFile,
    \* the processes, and the local state of their worker tasks
    up, pc, job, tries, beat, left, rowsLive, opened,
    \* the requests in progress
    uploader, rPc, rVideo, rProc, dPc, dVideo, dProc,
    \* the bounds used up
    crashes, dbErrors

jobVars == <<jStatus, jVideo, attempts, owner, lease, nextJob>>
videoVars == <<vStatus, rawPath, hasReady, announced, rawFile>>
localVars == <<job, tries, beat, left, rowsLive, opened>>
workerVars == <<up, pc, localVars>>
retryVars == <<rPc, rVideo, rProc>>
deleteVars == <<dPc, dVideo, dProc>>
requestVars == <<uploader, retryVars, deleteVars>>
boundVars == <<crashes, dbErrors>>
vars == <<jobVars, videoVars, workerVars, requestVars, boundVars>>

-----------------------------------------------------------------------------
JobStatus == {"absent", "queued", "running", "done", "failed", "gone"}
VideoStatus == {"absent", "uploading", "processing", "ready", "failed", "gone"}
PendingVideoStatuses == {"uploading", "processing"}

\* Inside transcode_video(), while the heartbeat task runs.
TranscodePcs == {"probe", "insert", "encode", "setReady", "setFailed",
                 "unlink", "nullRaw"}
\* From a won claim to the statement that records the job's outcome.
HeldPcs == TranscodePcs \cup {"load", "videoGone", "noRaw", "verdict",
                              "finish", "fail"}
Pcs == HeldPcs \cup {"down", "idle", "picked", "markFailed", "notify", "dead"}

Held(w) == pc[w] \in HeldPcs
VideoOf(w) == jVideo[job[w]]
Exists(v) == vStatus[v] \notin {"absent", "gone"}
PendingJobs(v) == {j \in JobIds : jVideo[j] = v /\ jStatus[j] \in {"queued", "running"}}

\* Mutants: the ownership clause forgotten; a lapsed lease taken for a lost job.
MayWriteAnyRow(w) == jStatus[job[w]] \notin {"absent", "gone"}
MayWriteInLease(w) == /\ jStatus[job[w]] \notin {"absent", "gone"}
                      /\ owner[job[w]] = ProcOf[w] /\ lease[job[w]] > 0

\* WHERE id = ? AND (worker_id = ? OR worker_id IS NULL)
MayWrite(w) == /\ jStatus[job[w]] \notin {"absent", "gone"}
               /\ owner[job[w]] \in {ProcOf[w], Nobody}

\* UPDATE videos SET status = ? WHERE id = ?: no row, no effect.
SetVideoStatus(v, s) ==
    vStatus' = IF Exists(v) THEN [vStatus EXCEPT ![v] = s] ELSE vStatus

Goto(w, where) == pc' = [pc EXCEPT ![w] = where]

\* Back to the top of _worker_loop(): the locals of this round are out of scope.
Return(w) ==
    /\ Goto(w, "idle")
    /\ job' = [job EXCEPT ![w] = NoJob]
    /\ tries' = [tries EXCEPT ![w] = 0]
    /\ beat' = [beat EXCEPT ![w] = 0]
    /\ left' = [left EXCEPT ![w] = 0]
    /\ rowsLive' = [rowsLive EXCEPT ![w] = FALSE]
    /\ opened' = [opened EXCEPT ![w] = FALSE]

-----------------------------------------------------------------------------
Init ==
    /\ jStatus = [j \in JobIds |-> "absent"]
    /\ jVideo = [j \in JobIds |-> NoVideo]
    /\ attempts = [j \in JobIds |-> 0]
    /\ owner = [j \in JobIds |-> Nobody]
    /\ lease = [j \in JobIds |-> 0]
    /\ nextJob = 1
    /\ vStatus = [v \in Videos |-> "absent"]
    /\ rawPath = [v \in Videos |-> FALSE]
    /\ hasReady = [v \in Videos |-> FALSE]
    /\ announced = [v \in Videos |-> FALSE]
    /\ rawFile = [v \in Videos |-> FALSE]
    /\ up = [p \in Procs |-> FALSE]
    /\ pc = [w \in Workers |-> "down"]
    /\ job = [w \in Workers |-> NoJob]
    /\ tries = [w \in Workers |-> 0]
    /\ beat = [w \in Workers |-> 0]
    /\ left = [w \in Workers |-> 0]
    /\ rowsLive = [w \in Workers |-> FALSE]
    /\ opened = [w \in Workers |-> FALSE]
    /\ uploader = [v \in Videos |-> Nobody]
    /\ rPc = [r \in Retries |-> "new"]
    /\ rVideo = [r \in Retries |-> NoVideo]
    /\ rProc = [r \in Retries |-> Nobody]
    /\ dPc = [d \in Deletes |-> "new"]
    /\ dVideo = [d \in Deletes |-> NoVideo]
    /\ dProc = [d \in Deletes |-> Nobody]
    /\ crashes = 0 /\ dbErrors = 0

-----------------------------------------------------------------------------
(* Uploading, retrying and deleting a video. *)

\* enqueue(): INSERT one 'queued' row, with the next AUTOINCREMENT id.
Enqueue(v) ==
    /\ nextJob \in JobIds
    /\ jStatus' = [jStatus EXCEPT ![nextJob] = "queued"]
    /\ jVideo' = [jVideo EXCEPT ![nextJob] = v]
    /\ nextJob' = nextJob + 1
    /\ UNCHANGED <<attempts, owner, lease>>

\* The upload handler commits the video row first ...
InsertVideo(p, v) ==
    /\ up[p] /\ vStatus[v] = "absent"
    /\ vStatus' = [vStatus EXCEPT ![v] = "uploading"]
    /\ rawPath' = [rawPath EXCEPT ![v] = TRUE]
    /\ rawFile' = [rawFile EXCEPT ![v] = TRUE]
    /\ uploader' = [uploader EXCEPT ![v] = p]
    /\ UNCHANGED <<hasReady, announced, jobVars, workerVars, retryVars,
                   deleteVars, boundVars>>

\* ... and the job row in a second transaction; the foreign key refuses it
\* when the video has been deleted in between.
EnqueueUpload(v) ==
    /\ uploader[v] # Nobody
    /\ IF Exists(v) THEN Enqueue(v) ELSE UNCHANGED jobVars
    /\ uploader' = [uploader EXCEPT ![v] = Nobody]
    /\ UNCHANGED <<videoVars, workerVars, retryVars, deleteVars, boundVars>>

\* retry_video_transcode() and the first SELECT of retry_video(): the original
\* is still referenced and no job is queued or running.
RetryCheck(r, p, v) ==
    /\ rPc[r] = "new" /\ up[p]
    /\ vStatus[v] \in RetryFrom /\ Exists(v)
    /\ rawPath[v] /\ PendingJobs(v) = {}
    /\ rPc' = [rPc EXCEPT ![r] = "checked"]
    /\ rVideo' = [rVideo EXCEPT ![r] = v]
    /\ rProc' = [rProc EXCEPT ![r] = p]
    /\ UNCHANGED <<uploader, jobVars, videoVars, workerVars, deleteVars, boundVars>>

\* The rest of retry_video(), one transaction: drop the rendition rows (those
\* a run in progress inserted too), back to 'uploading', enqueue.
RetryCommit(r) ==
    /\ rPc[r] = "checked"
    /\ IF Exists(rVideo[r])
         THEN /\ Enqueue(rVideo[r])
              /\ vStatus' = [vStatus EXCEPT ![rVideo[r]] = "uploading"]
              /\ hasReady' = [hasReady EXCEPT ![rVideo[r]] = FALSE]
              /\ rowsLive' = [w \in Workers |->
                    rowsLive[w] /\ (job[w] # NoJob => VideoOf(w) # rVideo[r])]
         ELSE UNCHANGED <<jobVars, vStatus, hasReady, rowsLive>>
    /\ rPc' = [rPc EXCEPT ![r] = "done"]
    /\ UNCHANGED <<rawPath, announced, rawFile, up, pc, job, tries, beat, left,
                   opened, uploader, rVideo, rProc, deleteVars, boundVars>>

\* delete_own_video() and admin_delete_video(): purge_video_files() first ...
DeletePurge(d, p, v) ==
    /\ dPc[d] = "new" /\ up[p] /\ Exists(v)
    /\ rawFile' = [rawFile EXCEPT ![v] = @ /\ ~rawPath[v]]
    /\ dPc' = [dPc EXCEPT ![d] = "purged"]
    /\ dVideo' = [dVideo EXCEPT ![d] = v]
    /\ dProc' = [dProc EXCEPT ![d] = p]
    /\ UNCHANGED <<vStatus, rawPath, hasReady, announced, jobVars, workerVars,
                   uploader, retryVars, boundVars>>

\* ... then the row, and by ON DELETE CASCADE its jobs and rendition rows.
DeleteRow(d) ==
    /\ dPc[d] = "purged"
    /\ vStatus' = [vStatus EXCEPT ![dVideo[d]] = "gone"]
    /\ hasReady' = [hasReady EXCEPT ![dVideo[d]] = FALSE]
    /\ rawPath' = [rawPath EXCEPT ![dVideo[d]] = FALSE]
    /\ jStatus' = [j \in JobIds |-> IF jVideo[j] = dVideo[d] THEN "gone" ELSE jStatus[j]]
    /\ owner' = [j \in JobIds |-> IF jVideo[j] = dVideo[d] THEN Nobody ELSE owner[j]]
    /\ lease' = [j \in JobIds |-> IF jVideo[j] = dVideo[d] THEN 0 ELSE lease[j]]
    /\ dPc' = [dPc EXCEPT ![d] = "done"]
    /\ UNCHANGED <<announced, rawFile, jVideo, attempts, nextJob, workerVars,
                   uploader, retryVars, dVideo, dProc, boundVars>>

-----------------------------------------------------------------------------
(* Starting and losing a process. *)

\* Mutants: only one pending status looked for; the job table not consulted; the
\* lease, the status or the lapsed rows forgotten.
OrphansProcessing == {v \in Videos : vStatus[v] = "processing" /\ PendingJobs(v) = {}}
OrphansWithJobs == {v \in Videos : vStatus[v] \in PendingVideoStatuses}
LapsedAnyLease == {j \in JobIds : jStatus[j] = "running"}
LapsedAnyStatus == {j \in JobIds : jStatus[j] \in {"running", "done", "failed"}
                                   /\ lease[j] = 0}
LapsedNone == {}

\* Pending videos with no job row once the lapsed jobs are queued again.
Orphans == {v \in Videos : vStatus[v] \in PendingVideoStatuses /\ PendingJobs(v) = {}}
Lapsed == {j \in JobIds : jStatus[j] = "running" /\ lease[j] = 0}

\* The ways to number the elements of T with the ids in S.
Numberings(S, T) == {f \in [S -> T] : /\ \A v \in T : \E k \in S : f[k] = v
                                     /\ \A k, l \in S : f[k] = f[l] => k = l}

\* Lapsed jobs are queued again; the rows up to last are new, for the orphans.
Recover(new, f, last) ==
    /\ jStatus' = [j \in JobIds |->
            IF j \in Lapsed \cup new THEN "queued" ELSE jStatus[j]]
    /\ jVideo' = [j \in JobIds |-> IF j \in new THEN f[j] ELSE jVideo[j]]
    /\ owner' = [j \in JobIds |-> IF j \in Lapsed THEN Nobody ELSE owner[j]]
    /\ nextJob' = last + 1
    /\ UNCHANGED <<attempts, lease>>

\* requeue_orphans(), one transaction.
RequeueOrphans ==
    \E last \in (nextJob - 1)..MaxJobs :
        \E f \in Numberings(nextJob..last, Orphans) : Recover(nextJob..last, f, last)

\* start_workers(): recover, then run the pool.
Start(p) ==
    /\ ~up[p]
    /\ QuickRestart \/ \A j \in JobIds :
            jStatus[j] = "running" /\ owner[j] = Dead => lease[j] = 0
    /\ RequeueOrphans
    /\ up' = [up EXCEPT ![p] = TRUE]
    /\ pc' = [w \in Workers |-> IF ProcOf[w] = p THEN "idle" ELSE pc[w]]
    /\ UNCHANGED <<localVars, videoVars, requestVars, boundVars>>

\* A kill, or stop_workers() cancelling what is in flight: the tasks and the
\* requests of the process vanish, the rows stay as they are.  No later
\* incarnation has this WORKER_ID, so it is Dead from here on.
Crash(p) ==
    /\ up[p] /\ crashes < MaxCrashes
    /\ up' = [up EXCEPT ![p] = FALSE]
    /\ pc' = [w \in Workers |-> IF ProcOf[w] = p THEN "down" ELSE pc[w]]
    /\ job' = [w \in Workers |-> IF ProcOf[w] = p THEN NoJob ELSE job[w]]
    /\ tries' = [w \in Workers |-> IF ProcOf[w] = p THEN 0 ELSE tries[w]]
    /\ beat' = [w \in Workers |-> IF ProcOf[w] = p THEN 0 ELSE beat[w]]
    /\ left' = [w \in Workers |-> IF ProcOf[w] = p THEN 0 ELSE left[w]]
    /\ rowsLive' = [w \in Workers |-> rowsLive[w] /\ ProcOf[w] # p]
    /\ opened' = [w \in Workers |-> opened[w] /\ ProcOf[w] # p]
    /\ owner' = [j \in JobIds |-> IF owner[j] = p THEN Dead ELSE owner[j]]
    /\ uploader' = [v \in Videos |-> IF uploader[v] = p THEN Nobody ELSE uploader[v]]
    /\ rPc' = [r \in Retries |-> IF rProc[r] = p THEN "done" ELSE rPc[r]]
    /\ dPc' = [d \in Deletes |-> IF dProc[d] = p THEN "done" ELSE dPc[d]]
    /\ crashes' = crashes + 1
    /\ UNCHANGED <<jStatus, jVideo, attempts, lease, nextJob, videoVars, rVideo,
                   rProc, dVideo, dProc, dbErrors>>

-----------------------------------------------------------------------------
(* Claiming a job. *)

\* Mutant: the race is not looked for.
StillThere(w) == jStatus[job[w]] # "gone"

Queued == {j \in JobIds : jStatus[j] = "queued"}

\* WHERE id = ? AND status = 'queued': the claim is won.
StillQueued(w) == jStatus[job[w]] = "queued"

\* Mutant: the attempt that begins is not counted.
ClaimUncounted(w) ==
    /\ pc[w] = "idle"
    /\ \E j \in Queued :
        /\ \A k \in Queued : j <= k
        /\ job' = [job EXCEPT ![w] = j]
        /\ tries' = [tries EXCEPT ![w] = attempts[j]]
    /\ Goto(w, "picked")
    /\ UNCHANGED <<up, beat, left, rowsLive, opened, jobVars, videoVars,
                   requestVars, boundVars>>

\* _claim_job(), the SELECT: the oldest queued row, with its attempts.
ClaimSelect(w) ==
    /\ pc[w] = "idle"
    /\ \E j \in Queued :
        /\ \A k \in Queued : j <= k
        /\ job' = [job EXCEPT ![w] = j]
        /\ tries' = [tries EXCEPT ![w] = attempts[j] + 1]
    /\ Goto(w, "picked")
    /\ UNCHANGED <<up, beat, left, rowsLive, opened, jobVars, videoVars,
                   requestVars, boundVars>>

\* _claim_job(), the conditional UPDATE.
ClaimUpdate(w) ==
    LET j == job[w] IN
    /\ pc[w] = "picked"
    /\ IF StillQueued(w)
         THEN /\ jStatus' = [jStatus EXCEPT ![j] = "running"]
              /\ attempts' = [attempts EXCEPT ![j] = @ + 1]
              /\ owner' = [owner EXCEPT ![j] = ProcOf[w]]
              /\ lease' = [lease EXCEPT ![j] = Lease]
              /\ beat' = [beat EXCEPT ![w] = 0]
              /\ Goto(w, "load")
              /\ UNCHANGED <<job, tries, left, rowsLive, opened>>
         ELSE /\ Return(w)
              /\ UNCHANGED <<jStatus, attempts, owner, lease>>
    /\ UNCHANGED <<jVideo, nextJob, up, videoVars, requestVars, boundVars>>

-----------------------------------------------------------------------------
(* Recording what became of a job. *)

\* _finish_job(): the row keeps its worker_id.
FinishJob(w, outcome) ==
    IF MayWrite(w)
      THEN /\ jStatus' = [jStatus EXCEPT ![job[w]] = outcome]
           /\ lease' = [lease EXCEPT ![job[w]] = 0]
           /\ UNCHANGED <<jVideo, attempts, owner, nextJob>>
      ELSE UNCHANGED jobVars

\* _run_job(), the SELECT of the video.
LoadVideo(w) ==
    /\ pc[w] = "load"
    /\ Goto(w, IF ~Exists(VideoOf(w)) THEN "videoGone"
               ELSE IF rawPath[VideoOf(w)] THEN "probe" ELSE "noRaw")
    /\ UNCHANGED <<up, localVars, jobVars, videoVars, requestVars, boundVars>>

\* _run_job(): "video no longer exists".
FinishGone(w) ==
    /\ pc[w] = "videoGone"
    /\ FinishJob(w, "done")
    /\ Return(w)
    /\ UNCHANGED <<up, videoVars, requestVars, boundVars>>

\* _run_job(): "the original upload is no longer on disk"; what _finish_job()
\* answers is ignored, and the video is marked failed next.
FinishNoRaw(w) ==
    /\ pc[w] = "noRaw"
    /\ FinishJob(w, "failed")
    /\ Goto(w, "markFailed")
    /\ UNCHANGED <<up, localVars, videoVars, requestVars, boundVars>>

\* The second transaction of a permanent failure.
MarkFailed(w) ==
    /\ pc[w] = "markFailed"
    /\ SetVideoStatus(VideoOf(w), "failed")
    /\ Return(w)
    /\ UNCHANGED <<rawPath, hasReady, announced, rawFile, up, jobVars,
                   requestVars, boundVars>>

\* _run_job(), the SELECT of the video's status after transcode_video().
ReadVerdict(w) ==
    /\ pc[w] = "verdict"
    /\ Goto(w, IF vStatus[VideoOf(w)] = "ready" THEN "finish" ELSE "fail")
    /\ UNCHANGED <<up, localVars, jobVars, videoVars, requestVars, boundVars>>

FinishDone(w) ==
    /\ pc[w] = "finish"
    /\ FinishJob(w, "done")
    /\ Goto(w, "notify")
    /\ UNCHANGED <<up, localVars, videoVars, requestVars, boundVars>>

\* _notify_subscribers(): its own errors are swallowed.
Notify(w) ==
    /\ pc[w] = "notify"
    /\ \E ok \in BOOLEAN :
        announced' = [announced EXCEPT ![VideoOf(w)] =
                        @ \/ (ok /\ vStatus[VideoOf(w)] = "ready")]
    /\ Return(w)
    /\ UNCHANGED <<vStatus, rawPath, hasReady, rawFile, up, jobVars,
                   requestVars, boundVars>>

\* _handle_failure() with attempts left: job and video in one transaction.
RequeueJob(w) ==
    LET j == job[w] IN
    /\ pc[w] = "fail" /\ tries[w] < MaxAttempts
    /\ IF MayWrite(w)
         THEN /\ jStatus' = [jStatus EXCEPT ![j] = "queued"]
              /\ owner' = [owner EXCEPT ![j] = Nobody]
              /\ lease' = [lease EXCEPT ![j] = 0]
              /\ SetVideoStatus(jVideo[j], "uploading")
         ELSE UNCHANGED <<jStatus, owner, lease, vStatus>>
    /\ Return(w)
    /\ UNCHANGED <<jVideo, attempts, nextJob, rawPath, hasReady, announced, rawFile,
                   up, requestVars, boundVars>>

\* _handle_failure() after the last attempt: the job, then (MarkFailed) the
\* video, unless the job is no longer this worker's.
GiveUp(w) ==
    /\ pc[w] = "fail" /\ tries[w] >= MaxAttempts
    /\ FinishJob(w, "failed")
    /\ IF MayWrite(w)
         THEN Goto(w, "markFailed") /\ UNCHANGED localVars
         ELSE Return(w)
    /\ UNCHANGED <<up, videoVars, requestVars, boundVars>>

\* A database error outside the try block of _run_job() ends the task, and
\* nothing starts another one before the process restarts.  So does one that
\* the heartbeat met when it connected, once the run awaits it: at "verdict", or
\* after a failure was handled; and one of the loop's own connection.
WorkerDies(w) ==
    /\ pc[w] \in {"idle", "load", "videoGone", "noRaw", "markFailed", "verdict",
                  "finish", "fail"}
    /\ dbErrors < MaxDbErrors
    /\ dbErrors' = dbErrors + 1
    /\ Goto(w, "dead")
    /\ UNCHANGED <<crashes, up, localVars, jobVars, videoVars, requestVars>>

-----------------------------------------------------------------------------
(* transcode_video(): none of its writes asks who owns the job. *)

\* The original is looked for, and the status says that work has started.
Probe(w) ==
    LET v == VideoOf(w) IN
    /\ pc[w] = "probe"
    /\ SetVideoStatus(v, IF rawFile[v] THEN "processing" ELSE "failed")
    /\ Goto(w, IF rawFile[v] THEN "insert" ELSE "verdict")
    /\ UNCHANGED <<rawPath, hasReady, announced, rawFile, up, localVars, jobVars,
                   requestVars, boundVars>>

\* TRANSCODE_VIDEOS off: serve the original, one ready row and 'ready' in one
\* transaction.  A missing file or a deleted video raises.
ServeOriginal(w) ==
    LET v == VideoOf(w) IN
    /\ pc[w] = "insert" /\ ~TranscodeVideos
    /\ Exists(v) /\ rawFile[v]
    /\ hasReady' = [hasReady EXCEPT ![v] = TRUE]
    /\ vStatus' = [vStatus EXCEPT ![v] = "ready"]
    /\ Goto(w, "verdict")
    /\ UNCHANGED <<rawPath, announced, rawFile, up, localVars, jobVars,
                   requestVars, boundVars>>

\* One pending row per rendition; a deleted video raises (foreign key).
InsertRenditions(w) ==
    /\ pc[w] = "insert" /\ TranscodeVideos
    /\ Exists(VideoOf(w))
    /\ left' = [left EXCEPT ![w] = Renditions]
    /\ rowsLive' = [rowsLive EXCEPT ![w] = TRUE]
    /\ opened' = [opened EXCEPT ![w] = rawFile[VideoOf(w)]]
    /\ Goto(w, "encode")
    /\ UNCHANGED <<up, job, tries, beat, jobVars, videoVars, requestVars, boundVars>>

\* Mutant: one rendition too many.
EncodeOneMore(w) ==
    /\ pc[w] = "encode"
    /\ left' = [left EXCEPT ![w] = @ - 1]
    /\ UNCHANGED <<videoVars, up, pc, job, tries, beat, opened,
                   rowsLive, jobVars, requestVars, boundVars>>

\* One ffmpeg run and the UPDATE of its row.  It can succeed only if the
\* original was there when ffmpeg opened it, and the UPDATE counts only if
\* the row has not been deleted meanwhile.
EncodeOne(w) ==
    LET v == VideoOf(w) IN
    /\ pc[w] = "encode" /\ left[w] > 0
    /\ \E ok \in BOOLEAN :
        /\ ok => opened[w]
        /\ hasReady' = [hasReady EXCEPT ![v] = @ \/ (ok /\ rowsLive[w] /\ Exists(v))]
    /\ left' = [left EXCEPT ![w] = @ - 1]
    /\ opened' = [opened EXCEPT ![w] = rawFile[v]]
    /\ UNCHANGED <<vStatus, rawPath, announced, rawFile, up, pc, job, tries, beat,
                   rowsLive, jobVars, requestVars, boundVars>>

\* Mutants: any rendition row counts; a failed transcode gives the original up.
CountAnyRow(w) ==
    /\ pc[w] = "encode" /\ left[w] = 0
    /\ Goto(w, IF rowsLive[w] THEN "setReady" ELSE "setFailed")
    /\ UNCHANGED <<up, localVars, jobVars, videoVars, requestVars, boundVars>>
SetFailedAndPurge(w) ==
    /\ pc[w] = "setFailed"
    /\ SetVideoStatus(VideoOf(w), "failed")
    /\ Goto(w, "unlink")
    /\ UNCHANGED <<rawPath, hasReady, announced, rawFile, up, localVars, jobVars,
                   requestVars, boundVars>>

\* SELECT COUNT(*) of the ready rows: of the video, not of this run.
CountReady(w) ==
    /\ pc[w] = "encode" /\ left[w] = 0
    /\ Goto(w, IF hasReady[VideoOf(w)] THEN "setReady" ELSE "setFailed")
    /\ UNCHANGED <<up, localVars, jobVars, videoVars, requestVars, boundVars>>

\* The UPDATE after that count.
SetReady(w) ==
    /\ pc[w] = "setReady"
    /\ SetVideoStatus(VideoOf(w), "ready")
    /\ Goto(w, IF KeepRaw THEN "verdict" ELSE "unlink")
    /\ UNCHANGED <<rawPath, hasReady, announced, rawFile, up, localVars, jobVars,
                   requestVars, boundVars>>

SetFailed(w) ==
    /\ pc[w] = "setFailed"
    /\ SetVideoStatus(VideoOf(w), "failed")
    /\ Goto(w, "verdict")
    /\ UNCHANGED <<rawPath, hasReady, announced, rawFile, up, localVars, jobVars,
                   requestVars, boundVars>>

\* _purge_raw_original(): the file first (an OSError is only logged) ...
UnlinkRaw(w) ==
    LET v == VideoOf(w) IN
    /\ pc[w] = "unlink"
    /\ \E ok \in BOOLEAN :
        /\ Goto(w, IF rawFile[v] /\ ok THEN "nullRaw" ELSE "verdict")
        /\ rawFile' = [rawFile EXCEPT ![v] = @ /\ ~ok]
    /\ UNCHANGED <<vStatus, rawPath, hasReady, announced, up, localVars, jobVars,
                   requestVars, boundVars>>

\* ... then the column that names it.
NullRaw(w) ==
    /\ pc[w] = "nullRaw"
    /\ rawPath' = [rawPath EXCEPT ![VideoOf(w)] = FALSE]
    /\ Goto(w, "verdict")
    /\ UNCHANGED <<vStatus, hasReady, announced, rawFile, up, localVars, jobVars,
                   requestVars, boundVars>>

\* Any exception inside transcode_video() (a full disk, a locked database).
Raise(w) ==
    /\ pc[w] \in TranscodePcs \ {"unlink"}
    /\ Goto(w, "fail")
    /\ UNCHANGED <<up, localVars, jobVars, videoVars, requestVars, boundVars>>

-----------------------------------------------------------------------------
(* Leases. *)

\* _heartbeat(): renew while the row is running and this process's.
Heartbeat(w) ==
    LET j == job[w] IN
    /\ pc[w] \in TranscodePcs
    /\ jStatus[j] = "running" /\ owner[j] = ProcOf[w]
    /\ beat[w] > 0
    /\ lease' = [lease EXCEPT ![j] = Lease]
    /\ beat' = [beat EXCEPT ![w] = 0]
    /\ UNCHANGED <<jStatus, jVideo, attempts, owner, nextJob, up, pc, job, tries,
                   left, rowsLive, opened, videoVars, requestVars, boundVars>>

\* A live worker whose renewal, or whose next statement, is due.
Due(w) == Held(w) /\ beat[w] >= MaxGap /\ MayWrite(w)

Tick ==
    /\ \E j \in JobIds : lease[j] > 0
    /\ Stalls \/ \A w \in Workers : ~Due(w)
    /\ lease' = [j \in JobIds |-> IF lease[j] > 0 THEN lease[j] - 1 ELSE 0]
    /\ beat' = [w \in Workers |->
                  IF Held(w) /\ beat[w] < MaxGap THEN beat[w] + 1 ELSE beat[w]]
    /\ UNCHANGED <<jStatus, jVideo, attempts, owner, nextJob, up, pc, job, tries,
                   left, rowsLive, opened, videoVars, requestVars, boundVars>>

-----------------------------------------------------------------------------
Outcome(w) ==
    \/ LoadVideo(w) \/ FinishGone(w) \/ FinishNoRaw(w) \/ MarkFailed(w)
    \/ ReadVerdict(w) \/ FinishDone(w) \/ Notify(w) \/ RequeueJob(w) \/ GiveUp(w)

Transcode(w) ==
    \/ Probe(w) \/ ServeOriginal(w) \/ InsertRenditions(w) \/ EncodeOne(w)
    \/ CountReady(w) \/ SetReady(w) \/ SetFailed(w) \/ UnlinkRaw(w) \/ NullRaw(w)
    \/ Raise(w)

WorkerStep(w) == ClaimSelect(w) \/ ClaimUpdate(w) \/ Outcome(w) \/ Transcode(w)

RequestStep ==
    \/ \E p \in Procs, v \in Videos : InsertVideo(p, v)
    \/ \E v \in Videos : EnqueueUpload(v)
    \/ \E r \in Retries, p \in Procs, v \in Videos : RetryCheck(r, p, v)
    \/ \E r \in Retries : RetryCommit(r)
    \/ \E d \in Deletes, p \in Procs, v \in Videos : DeletePurge(d, p, v)
    \/ \E d \in Deletes : DeleteRow(d)

Next ==
    \/ RequestStep
    \/ \E p \in Procs : Start(p) \/ Crash(p)
    \/ \E w \in Workers : WorkerStep(w) \/ WorkerDies(w) \/ Heartbeat(w)
    \/ Tick

Spec == Init /\ [][Next]_vars

\* Tasks that can run do run, ffmpeg ends, a stopped process is started again
\* (systemd Restart=), time passes and heartbeats beat.  Nobody has to make a
\* request, and nothing has to crash.
Fairness ==
    /\ \A w \in Workers : WF_vars(WorkerStep(w)) /\ WF_vars(Heartbeat(w))
    /\ \A v \in Videos : WF_vars(EnqueueUpload(v))
    /\ \A r \in Retries : WF_vars(RetryCommit(r))
    /\ \A d \in Deletes : WF_vars(DeleteRow(d))
    /\ \A p \in Procs : WF_vars(Start(p))
    /\ WF_vars(Tick)

FairSpec == Spec /\ Fairness

-----------------------------------------------------------------------------
(* Types. *)

JobTypes ==
    /\ jStatus \in [JobIds -> JobStatus]
    /\ jVideo \in [JobIds -> Videos \cup {NoVideo}]
    /\ attempts \in [JobIds -> Nat]
    /\ owner \in [JobIds -> Procs \cup {Nobody, Dead}]
    /\ lease \in [JobIds -> 0..Lease]
    /\ nextJob \in 1..(MaxJobs + 1)

VideoTypes ==
    /\ vStatus \in [Videos -> VideoStatus]
    /\ rawPath \in [Videos -> BOOLEAN] /\ rawFile \in [Videos -> BOOLEAN]
    /\ hasReady \in [Videos -> BOOLEAN] /\ announced \in [Videos -> BOOLEAN]

LocalTypes ==
    /\ job \in [Workers -> JobIds \cup {NoJob}]
    /\ tries \in [Workers -> Nat]
    /\ beat \in [Workers -> 0..MaxGap]
    /\ left \in [Workers -> 0..Renditions]
    /\ rowsLive \in [Workers -> BOOLEAN] /\ opened \in [Workers -> BOOLEAN]

ControlTypes == up \in [Procs -> BOOLEAN] /\ pc \in [Workers -> Pcs]

RequestTypes ==
    /\ uploader \in [Videos -> Procs \cup {Nobody}]
    /\ rPc \in [Retries -> {"new", "checked", "done"}]
    /\ rVideo \in [Retries -> Videos \cup {NoVideo}]
    /\ rProc \in [Retries -> Procs \cup {Nobody}]
    /\ dPc \in [Deletes -> {"new", "purged", "done"}]
    /\ dVideo \in [Deletes -> Videos \cup {NoVideo}]
    /\ dProc \in [Deletes -> Procs \cup {Nobody}]

BoundTypes == crashes \in 0..MaxCrashes /\ dbErrors \in 0..MaxDbErrors

\* Every variable stays within its domain.
TypeOK == /\ JobTypes /\ VideoTypes /\ LocalTypes
          /\ ControlTypes /\ RequestTypes /\ BoundTypes

\* Ids are handed out in order and never again, every row has its video, and
\* what a task or a request remembers was once a row.
RowsConsistent ==
    /\ \A j \in JobIds : jStatus[j] = "absent" <=> j >= nextJob
    /\ \A j \in JobIds : jStatus[j] # "absent" => jVideo[j] \in Videos
    /\ \A j \in JobIds : jStatus[j] = "absent" => jVideo[j] = NoVideo
    /\ \A w \in Workers : pc[w] \in HeldPcs \cup {"picked", "markFailed", "notify"} =>
            job[w] \in JobIds /\ jStatus[job[w]] # "absent"
    /\ \A r \in Retries : rPc[r] = "checked" => rVideo[r] \in Videos
    /\ \A d \in Deletes : dPc[d] = "purged" => dVideo[d] \in Videos
    /\ \A w \in Workers : ~up[ProcOf[w]] => pc[w] = "down"

-----------------------------------------------------------------------------
(* Ownership of a job, when live workers renew in time (Stalls = FALSE). *)

\* A job is worked on by at most one live worker, in whatever process: two
\* ffmpeg runs for one job would write the same files.
SoleRunner ==
    \A w1, w2 \in Workers :
        Held(w1) /\ Held(w2) /\ job[w1] = job[w2] /\ jStatus[job[w1]] # "gone"
            => w1 = w2

\* While a live worker works on a job that still exists, the row says so:
\* running, under its WORKER_ID, with the lease it took at its last renewal
\* less the time since then, which is never all of it.
RunnerHoldsLease ==
    \A w \in Workers : Held(w) /\ jStatus[job[w]] # "gone" =>
        /\ jStatus[job[w]] = "running"
        /\ owner[job[w]] = ProcOf[w]
        /\ lease[job[w]] = Lease - beat[w]

\* Startup recovery never takes a job away from a live worker.
RecoverySpares ==
    \A p \in Procs : Start(p) =>
        \A w \in Workers : Held(w) => jStatus'[job[w]] = jStatus[job[w]]
RecoveryTakesOnlyDeadWork == [][RecoverySpares]_vars

\* A job whose outcome is recorded never runs again.
OutcomeKept ==
    \A j \in JobIds : jStatus[j] \in {"done", "failed"} =>
        jStatus'[j] \in {jStatus[j], "gone"}
OutcomeIsFinal == [][OutcomeKept]_vars

\* Ownership when workers may stall (Stalls = TRUE): a running row is given its
\* outcome, or queued again, only by a worker of the process that owns it, or by
\* recovery once its lease has lapsed; a worker that lost the job cannot.
OwnerDecides ==
    \A j \in JobIds :
        jStatus[j] = "running" /\ jStatus'[j] \in {"queued", "done", "failed"} =>
            \/ lease[j] = 0 /\ \E p \in Procs : Start(p)
            \/ \E w \in Workers : /\ ProcOf[w] = owner[j] /\ job[w] = j
                                  /\ Held(w) /\ ~Held(w)'
OwnersDecide == [][OwnerDecides]_vars

\* Rows left running under a live process none of whose workers is at work on
\* them: nothing queues such a row again before its lease lapses and some process
\* starts.
Dropped == {j \in JobIds :
    /\ jStatus[j] = "running" /\ owner[j] # Dead
    /\ ~ \E w \in Workers : ProcOf[w] = owner[j] /\ job[w] = j /\ Held(w)}

\* A live process drops a row only with the worker task that a database error
\* ended, one row for each error: no path through a run forgets to record what
\* became of its row.
DropsArePaidFor == Cardinality(Dropped) <= dbErrors

\* The exclusive-use contract of JobBoard, read off the rows: who works on a
\* job is decided by pc, what the rows say by status, owner and lease.
Holder(j) == CHOOSE w \in Workers : Held(w) /\ job[w] = j
BoardState == [j \in JobIds |->
    IF jStatus[j] = "running"
      THEN IF \E w \in Workers : Held(w) /\ job[w] = j THEN "held" ELSE "lost"
      ELSE jStatus[j]]
BoardHolder == [j \in JobIds |->
    IF jStatus[j] = "running" /\ \E w \in Workers : Held(w) /\ job[w] = j
      THEN Holder(j) ELSE Nobody]
Board == INSTANCE JobBoard WITH state <- BoardState, holder <- BoardHolder

\* The rows and leases implement the board.
BoardSpec == Board!Spec

-----------------------------------------------------------------------------
(* Videos and their jobs. *)

\* A video has at most one job queued or running: enqueue(), retry_video(),
\* requeue_orphans() and _handle_failure() never double each other's work.
OneJobPerVideo == \A v \in Videos : Cardinality(PendingJobs(v)) <= 1

\* At most one live worker is inside transcode_video() for a video.
OneTranscodePerVideo ==
    \A w1, w2 \in Workers :
        pc[w1] \in TranscodePcs /\ pc[w2] \in TranscodePcs /\ VideoOf(w1) = VideoOf(w2)
            => w1 = w2

\* The player is never shown a ready video that has no ready rendition row.
ReadyHasRendition == \A v \in Videos : vStatus[v] = "ready" => hasReady[v]

\* The original is given up (raw_path NULL, the retry button refused) only for
\* a video that has a rendition.
PurgedHasRendition ==
    \A v \in Videos : Exists(v) /\ ~rawPath[v] => hasReady[v]

\* No video whose renditions are ready and whose original is already purged
\* ends up failed: it could never be retried.
PurgedStaysPlayable ==
    \A v \in Videos : hasReady[v] /\ ~rawPath[v] => vStatus[v] # "failed"

\* A video is 'uploading' or 'processing' only while something will still act
\* on it: a job, the request that uploads it, the worker about to mark it
\* failed, or the next start of a process that was lost.
NothingStranded ==
    \A v \in Videos : vStatus[v] \in PendingVideoStatuses =>
        \/ PendingJobs(v) # {}
        \/ uploader[v] # Nobody
        \/ \E w \in Workers : pc[w] = "markFailed" /\ VideoOf(w) = v
        \/ \E p \in Procs : ~up[p]

\* Attempts beyond TRANSCODE_MAX_ATTEMPTS are due to kills, since recovery
\* queues a lapsed job again without looking at attempts, or to the other
\* workers: the attempts read by the SELECT of a claim may be out of date at
\* its UPDATE, once for each of them.
AttemptsArePaidFor ==
    \A j \in JobIds : attempts[j] <= MaxAttempts + crashes + Cardinality(Workers) - 1

\* A job of a dead worker that no start is yet to come for.
Abandoned(j) == jStatus[j] = "running" /\ owner[j] = Dead /\ \A p \in Procs : up[p]

\* The processes came back within its lease, and their recovery passed it by.
LeftBehind(j) == Abandoned(j) /\ lease[j] > 0

\* A job left running, by whatever happened to its worker, leaves that state,
\* unless it is left behind.
RunningEnds ==
    \A j \in JobIds : jStatus[j] = "running" /\ ~Abandoned(j)
                            ~> (jStatus[j] # "running" \/ LeftBehind(j))

\* Every upload comes to an end: ready, failed, or deleted, unless its job is
\* left behind.
PendingResolves ==
    \A v \in Videos :
        vStatus[v] \in PendingVideoStatuses /\ (\A j \in PendingJobs(v) : ~Abandoned(j))
            ~> (vStatus[v] \notin PendingVideoStatuses
                    \/ \E j \in PendingJobs(v) : LeftBehind(j))
=============================================================================
