# Verification of Atomiser

TLA+ models of the parts of Atomiser that keep state under concurrency, the TLC
configurations that check them on small instances, and TLAPS proofs of what
should hold for any number of processes, workers, videos, renditions, messages, invites and chunks.

Atomiser is a FastAPI application for hosting video: members are invited,
upload videos, a worker pool transcodes them with ffmpeg, and an email worker
sends announcements and account mail.  All state is in one SQLite database and
in the media directories.  Concurrency comes from three sources: asyncio request
handlers that yield at every `await` of the database, the worker tasks of the
same process, and other processes on the same database (a rolling restart, a
separate worker unit, several uvicorn workers).

## 1. Inventory

### 1.1 Components

| Component | Source | State | Operations |
|---|---|---|---|
| Transcode queue | `app/jobs.py` | table `transcode_jobs`; per worker task: the claimed row, the heartbeat task | `enqueue`, `retry_video`, `requeue_orphans`, `_claim_job`, `_finish_job`, `_heartbeat`, `_run_job`, `_handle_failure`, `start_workers`, `stop_workers` |
| Transcoding and uploads | `app/videos.py` | tables `videos`, `video_renditions`; files in `raw/`, `videos/`, `thumbs/` | `upload_video`, `upload_complete`, `transcode_video`, `_purge_raw_original`, `purge_video_files`, `delete_own_video` |
| Retry and deletion by an admin | `app/admin.py` | the same tables | `retry_video_transcode`, `admin_delete_video`, `delete_user` |
| Outbound email queue | `app/notifications.py`, `app/mail.py` | table `email_queue`; per worker: the batch in flight | `enqueue_email`, `_claim_batch`, `_process_batch`, `send_batch`, `_finish`, `_handle_failure`, `requeue_orphans`, `prune` |
| New-video announcement | `app/notifications.py`, `app/videos.py` | `videos.notified_at`, `videos.visibility`, `users.notify_token`, `users.notify_new_videos` | `queue_new_video_notifications`, `unsubscribe_token`, `set_preference`, `edit_video` |
| Invites and registration | `app/invites.py`, `app/auth.py` | table `invites`; rows of `users` | `invite_create`, `invite_revoke`, `register_post` |
| Logins, sessions, password reset | `app/auth.py`, `app/users.py`, `app/admin.py` | tables `sessions`, `password_resets`; `users.password_hash` | `login_post`, `create_session`, logout and revocation, `forgot_post`, `reset_post`, `change_password`, `reset_user_password`, `force_logout_user` |
| Login throttle | `app/ratelimit.py` | table `login_attempts`; `users.locked_until` | `retry_after_minutes`, `record_failure`, `apply_lockout`, `clear_failures`, `unlock`, `prune` |
| Chunked upload | `app/videos.py`, `app/static/js/upload.js` | `.part` and `.meta` files of each upload | `upload_chunk`, `upload_complete`, removal of stale staging files; the client's retries |
| TOTP and passkeys | `app/auth.py` | table `webauthn_credentials`; secrets of `users`; challenge rows of `sessions` | `passkey_login_options`, `passkey_login`; enrolment |
| Media files and account deletion | `app/videos.py`, `app/admin.py` | `raw/<uuid>`, `videos/<uuid>/` with poster and renditions; `raw_path`, `thumbnail_path`, `video_renditions` | both uploads, `transcode_video`, `_purge_raw_original`, `purge_video_files`, `delete_user`; `stream_video`, `thumbnail` |
| Roles | `app/roles.py`, `app/admin.py` | `users.role` | `require_role`, `change_role` |
| Feed, player, admin and profile pages | `app/videos.py`, `app/admin.py`, `app/users.py`, templates | none | read only |
| Database, configuration, start, scripts | `app/db.py`, `app/config.py`, `app/main.py`, `db/migrations/`, `scripts/` | schema | run once |

### 1.2 How they interact

* An **upload** commits a `videos` row, then calls `jobs.enqueue()`, which
  commits a `transcode_jobs` row on its own (`videos.py:485`, `jobs.py:69`).
* A **worker task** claims a job, runs `transcode_video()`, which writes the
  video's status and rendition rows *without looking at the job*, reads the status
  back, and records the job's outcome under its `WORKER_ID` (`jobs.py:277-363`).
* A **heartbeat task** beside `transcode_video()` renews the lease.
* A **start** of any process runs `requeue_orphans()`, once: lapsed jobs are queued
  again, pending videos with no job get one.
* A finished job calls the **announcement**, which fills `email_queue` for every
  subscriber; the **email worker** drains it, together with account mail
  that request handlers enqueue.
* An admin's **retry** deletes rendition rows and enqueues; a **deletion** of a video, or of an account with its
  videos, purges files, then deletes the row, and the foreign keys cascade. No step of it looks whether a run is at work.
* A **registration** looks at an invite, then claims one of its uses in the
  transaction that inserts the account.

### 1.3 What makes it hard, and what must hold

| Component | Hard behaviour | What must hold |
|---|---|---|
| Transcode queue | several processes on one table; leases against a wall clock; recovery while others work; kills between any two statements; outcomes that arrive after the lease was lost | one worker per job; recovery takes only dead work; an outcome is final and recorded by the owner; running and queued jobs do not stay so |
| Transcoding | statements of `transcode_video()` interleave with deletion, retry and another run; rows, status and file change in separate transactions | ready only with a rendition; the original given up only with one; no pending video without someone to act on it |
| Email queue | a batch under one unrenewed lease; a read-back that does not ask who claimed; a mail server that accepts without its reply arriving | sent means delivered; given up means all attempts were made; a duplicate has a fault to blame; every message resolves |
| Media files | deletion, runs, uploads and kills act on the same directory and rows in no fixed order; `rmtree` scans before it removes | rows stand for files that are there; a video keeps an original or a whole rendition; a file without a row has a cause |
| Invites | checks made before the transaction | never more accounts than uses; none through a revoked invite; no use lost |
| Announcement | recipients read before tokens are minted and the claim is made | announced at most once, to every subscriber, with a link that works; publication and transcode do not leave it to each other |
| Logins and resets | a link checked and used in different transactions; a login in flight during a reset | a reset ends every session of an older password, but for logins it overtook |
| Chunked upload | retried requests overlap their originals; read-modify-write of a JSON file; staging garbage collection | a video has no hole; staging stays removable; retries alone do not cost the upload |
| Login throttle | the count is read before the slow password check; failures, lock and window interleave | the limit is passed by no more than the logins at work; the throttle ends by itself |

`PROJECT.json` lists each hazard at its line with the properties that cover it.

## 2. Modules

| Module | Role |
|---|---|
| `JobBoard` | abstract specification: what the transcode queue promises about each job, without rows, leases or clocks |
| `TranscodeQueue` | `jobs.py`, `transcode_video()`, and the upload, retry and delete handlers |
| `MCTranscodeQueue` | process layouts and symmetry for TLC |
| `TranscodeQueueProofs` | types, exclusive ownership, safety of recovery, who may record an outcome, finality; the rows and leases implement `JobBoard` |
| `TranscodeVideoProofs` | how often a job is attempted; one job per video, a rendition behind every ready or purged video, nothing stranded |
| `Outbox` | abstract specification: what the mail queue promises about each message |
| `EmailQueue` | `notifications.py` queue and worker, `mail.send_batch()` |
| `MCEmailQueue`, `EmailQueueProofs` | TLC instance; outcomes tell the truth, faults pay for duplicates and attempts, the rows implement `Outbox` |
| `Invites` | `invites.py` and `register_post()` |
| `MCInvites`, `InvitesProofs` | TLC instance; uses are bounded, revocation is final |
| `Announcement` | `queue_new_video_notifications()`, `unsubscribe_token()` and who calls them: the transcode worker and `edit_video()` |
| `MCAnnouncement`, `AnnouncementProofs` | TLC instance; once, to everyone, not missed, links that work |
| `MediaFiles` | what uploads, runs and deletions leave on disk, against the rows |
| `MCMediaFiles`, `MediaFilesProofs` | TLC instance; leftovers have a cause, rows stand for files, no video is lost |
| `ChunkedUpload` | the browser of `upload.js` against `upload_chunk()` and `upload_complete()` |
| `MCChunkedUpload`, `ChunkedUploadProofs` | TLC instance; videos are whole, staging is removable, refusals have a cause |
| `SignIn` | `login_post()` with its throttle, passkeys, sessions, password change and reset, for one account |
| `MCSignIn`, `SignInProofs` | TLC instance; the limit on failures, sessions and resets |

### 2.1 What a step is

SQLite takes the write lock at the first DML statement of a transaction and
releases it at the commit, so a transaction whose first statement is a DML is one
step.  A SELECT before it is a step of its own, even in the same function: that
is where `retry_video()`, `_claim_job()` and `register_post()` can be overtaken.
Everything between two database calls of one task (no `await`) belongs to the
step before.  A killed process loses its connections, and SQLite rolls
back; so a kill falls between steps and never inside one.  A database error is
"the statement was refused and wrote nothing", which is what a locked database or
a full disk does.

Time is a countdown: `lease[j]` ticks remain until `lease_expires_at`.  Both queues
compare timestamps in SQL, so equal clocks across processes are given (one host,
one database file).

### 2.2 TranscodeQueue

| Variable | Code |
|---|---|
| `jStatus`, `jVideo`, `attempts`, `owner`, `lease`, `nextJob` | columns of `transcode_jobs`, `AUTOINCREMENT`; `gone` is a deleted row |
| `vStatus`, `rawPath`, `hasReady`, `announced` | `videos.status`, `raw_path IS NOT NULL`, a `ready` row in `video_renditions`, `notified_at IS NOT NULL` |
| `rawFile` | the original exists on disk |
| `up`, `pc`, `job`, `tries` | running processes; where each worker task is; its row, and the `attempts` it believes in |
| `beat` | ticks since the worker's last renewal |
| `left`, `rowsLive`, `opened` | renditions to do; whether this run's rows survive; whether ffmpeg has the original open |
| `uploader`, `rPc`.., `dPc`.. | requests between their two transactions |

Each action carries the name of the function or the statement it stands for.
`Start` is `start_workers()` with recovery; `Crash` is a kill or `stop_workers()`.
A worker id is `host:pid:random`, new for each process: after a crash the owner in the rows
becomes `Dead`, which no later incarnation equals.  `Recover` allows any order of the
orphans (`SELECT` without `ORDER BY`).  `Raise` is any exception in
`transcode_video()`, `WorkerDies` a database error outside its `try` block (that of the heartbeat's own connection among them,
which `await heartbeat` raises again).  A heartbeat that cannot connect renews nothing: missed renewals of `TQ_stalls`.

Operators named after a mistake and introduced as "Mutant" are not part of the
specification.  They are the forms used to show that each property can fail.

### 2.3 EmailQueue

`wait[m]` is what remains until `scheduled_at`; `delivered[m]` counts
acceptances by the server, which no column records; `ids`, `batch`, `tries`, `todo` and
`failures` are the locals of `_claim_batch()`, `_process_batch()` and `send_batch()`.
A hand-over of one message ends in `Accept`, `Refuse`, `ConnectionLost` (the rest of the batch
fails with it) or `ReplyLost` (accepted, but recorded as a failure).
`Unbuildable` messages are those `EmailMessage` refuses.  One worker runs in each process, as
`start_workers()` does.  An error of the database ends a pass: `PassFails` before anything is sent, `RecordFails` while the outcomes are
written one by one, some of which then stand.  `stranded` is history: the rows `sending` whose lease had not run out when a worker
started, or whose pass was ended by an error; recovery runs once per start, so nothing looks at them until the next.

`EmailQueue` implements `Outbox` with one worker: a message is open there while its row is `queued` or `sending`, a copy is
`delivered[m]`, and a pruned row is forgotten.  `Outbox` forbids that a message is delivered again once it is recorded, or
recorded as sent with no copy delivered.

### 2.4 Invites

A registration moves `new`, `invited`, `checked`, `registered` or `refused`; `made[i]`
counts the accounts an invite made, a history that no column records.  `Founders`
are the accounts of `scripts/bootstrap.py`.  Expiry is a switch that is thrown once: the
code checks it before the transaction and not in it, so an invite that
expires in between still admits the registration, and no property claims otherwise.

### 2.5 Announcement

An announcer is a run of the transcode (`BeginRun`, `EndRun`, and `ReadStatus`, where `_run_job()`
reads back the status whoever wrote it) or a POST of the edit form (`EditRead`,
`EditWrite`).  Both then walk through `queue_new_video_notifications()`: the video, the members, one
token after the other, the transaction.  `mails[v][u]` counts the queue rows ever written, `link`
is the token in the last of them; a token is named after the task that minted it.  `Kill` also stands for a database error,
which both callers swallow.  `replaced` is history: the members for whom a token was minted over another.  A video that is being transcoded, or whose run failed, is not `ready`;
how jobs come about is the business of `TranscodeQueue`, so a run may begin at any time.

### 2.6 ChunkedUpload

| Variable | Code |
|---|---|
| `cPc`, `index`, `attempt` | the browser in `sendChunk()` and `doSend()`; the chunk and the attempt it is at |
| `pc[r]`, `seen[r]`, `creates[r]`, `fd[r]` | request `r` (a chunk and an attempt) in `upload_chunk()`; `meta["received"]`, `mode`, and what its open file has become |
| `fPc` | the request in `upload_complete()` |
| `sPc[s]` | request `s` of another upload, in `_cleanup_staging()` and at this upload's files |
| `staged`, `part` | the `.part` file exists; the chunks whose bytes it holds |
| `meta`, `received`, `old` | the `.meta` file (`empty` between `open()` and `write()`, `garbled` if two were written over each other); its list; its age |
| `raw`, `video` | the chunks in the file that was moved to `raw/`; the row is committed |
| `late`, `aged`, `overtaken`, `overrun`, `faults` | history: see below |

Each `run_in_threadpool()` is a step, and so are `exists()`, `open()` and `write()` inside it, since the
threads of two requests run side by side.  An open file follows its inode: after an `unlink` writes are
lost, after `shutil.move` they go to the moved file.  A removal is a look at the age and two `unlink`s, `.part`
first, each a step of its own, in three places: a request of this upload (`gc`, `gcPart`, `gcMeta`), one of another
upload (`Sweepers`), and the end of `upload_complete()`, which does not look.  `Removing` and `Between` say that someone
is at it, and that `.part` is gone and `.meta` is to follow.  `overtaken` records that a request created `.part`
there, `overrun` that completion was asked for while a removal of old files and a request for a chunk were still
at work.  An upload grows old only while nobody is at work on it: no request takes six hours.  A kill is one step for all
requests; the browser sees it as a failed request.  Whether the assembled bytes are a video is a choice,
but only a file that has its first chunk can pass, as the type is read from the first bytes
(`videos.py:672`).  `Linger` are the chunks whose request may go on after the browser gave it up.

### 2.7 SignIn

| Variable | Code |
|---|---|
| `password` | `users.password_hash`, as the number of times it was replaced |
| `locked` | ticks until `users.locked_until` |
| `recent`, `older` | the failures of the address in `login_attempts`: of this tick, and of the one before |
| `lPc[l]`, `proved[l]` | browser `l` in `login_post()` or `passkey_login()`; the password of the row that it was verified against, or that the account had when the passkey's challenge was issued |
| `sessions`, `challenged` | the browsers with a row in `sessions` that signs them in; those with a challenge row (`purpose = 'webauthn'`) |
| `link`, `rPc[r]`, `rLink[r]` | `password_resets`; request `r` in `reset_post()` and the link it read |
| `changing` | the browsers between the check and the UPDATE of `change_password()` |
| `resetTo`, `overtaken` | history: the password of the last reset by link; the logins that had proved an older one by then |

One account and the key of its address: rows of other accounts are touched by none of these statements, and the key
of the IP is read and written beside that of the address with the same operators.  The
window of `_failure_count()` slides; here it holds the current tick and the one before, so a
failure counts for one to two ticks.  A tick is longer than a request: a login may see one tick end, not two (`slow`),
since no login takes half of a window of 15 minutes.  `Verify` is `_get_user_by_email()` and `verify_password()` in one step:
what counts is the row that was read.  A passkey does not prove the password; `proved` dates
its challenge, so that the same property says that a reset ends a sign-in that was begun before it.  That works because a challenge
is a row of `sessions` with the id of the user: the DELETE of a reset, of a forced logout and of a revocation of the other sessions takes it
too.  `passkey_login()` reads that row once and opens the session two statements later, and its own DELETE does not look whether the
row was still there.  The challenge stands for the last one a browser asked for; the throttle of the passkey scope is left out.
Whose challenge it is, is not compared with the passkey's account (`auth.py:884-931`): one asked for under another address does as well, and survives a reset of
this account.  The model follows the challenges of the account alone, so `SessionsEndWithReset` says nothing of such a sign-in.
Only the browsers of `WithPasskey` hold a credential.  `Abort` ends a request after any of its
transactions; a kill is that for all requests.

### 2.8 MediaFiles

| Variable | Code |
|---|---|
| `status`, `rawPath`, `posterPath` | `videos.status`, `raw_path IS NOT NULL`, `thumbnail_path IS NOT NULL`; `gone` is a deleted row |
| `named`, `ready` | the video has rows in `video_renditions`; the labels with a `ready` one |
| `job` | a job of the video is queued or running |
| `files` | per video, what is on disk: `raw` the original, `dir` the directory `videos/<uuid>/`, `poster` and labels what it holds |
| `whole` | the renditions that ffmpeg completed, which no column records |
| `uPc` | the upload of the video: its file is written, its row is committed |
| `rPc`, `at`, `rc` | the run at work on the video, its rendition, what ffmpeg returned |
| `dPc`, `selected`, `paths`, `todo`, `current`, `account` | a deletion: the rows and paths it read, the videos it has yet to purge and is purging |
| `accounts` | rows of `users`, of those that own videos |
| `purged`, `rerun`, `excused` | history: purges begun; videos of which a run met ready rows of an earlier run; places that may keep files, see below |

At most one run is at work on a video: that is `TranscodeQueue`'s business (`SoleRunner`, `OneJobPerVideo`), and so is who
runs it; here a run that failed, or was killed, may be queued again by `HandleFailure`, `Retry` or, after `Kill`, by the job
that is still there.  Transcoding is on; with `TRANSCODE_VIDEOS=false` there is no file but the original.
`transcode_video()` is one action per statement or file operation.  Two operations are one step only where nothing that
is modelled can tell them apart; the comment of the action says why (`Record`, `Verdict`).  A file that was unlinked under a
running ffmpeg stays away: the process goes on writing to an inode with no name.

A deletion reads its rows, and then purges one video after the other: the paths that it *read*, the renditions that are
named *now*, and the directory with what it holds when `rmtree` scans it (`Scan`); the `rmdir` that follows fails, and is
ignored, if a file has come since (`RemoveDir`).  An account's deletion selects the videos of that moment; the cascade of its
last statement takes those of *its* moment (`DeleteRow`).

`excused` records why a file may stay: `<<v, "raw">>` if an INSERT never came, if an unlink failed, or if the cascade took a
video that the deletion had not seen; `<<v, "dir">>` if a run was at work when the purge began, or started before its row was
gone, or the `rmtree` failed, or, again, the cascade.

## 3. Runs

All runs set `CHECK_DEADLOCK FALSE`: uploads, requests, crashes and rows
are bounded, so the model comes to rest when they are used up, and an idle server is no
deadlock.

| Run | Instance | Shows |
|---|---|---|
| `TQ_overlap` | 2 processes, 1 worker each, 1 video, a deletion, 1 crash, 2 job rows; renewals in time | one worker per job, under an unexpired lease; the rows implement `JobBoard`, where a job is held by one worker, is lost only with it, and never leaves `done` or `failed` |
| `TQ_service` | 1 process, 2 workers, 1 video, 1 retry, a deletion, 1 crash, 3 job rows; fairness | one job per video; rendition before ready and before the purge; nothing stranded; only kills and stale reads buy extra attempts; running and pending end |
| `TQ_stalls` | 2 processes whose workers may miss any number of renewals, 1 crash, 1 database error | a worker that lost its job cannot record an outcome; a live process leaves a row running with nobody at work on it only when an error ended its worker, one row for each error |
| `EQ_single` | 1 worker, 3 messages (2 bulk, 1 that cannot be built), batches of 2, 2 faults; fairness | recorded outcomes match deliveries; the rows implement `Outbox`; duplicates and extra attempts are bounded by faults; every message is sent, given up or stranded |
| `AN_races` | 2 runs and 1 edit of 1 video, 2 members of whom 1 may unsubscribe and leave, 1 kill | announced once, to everyone who stayed, with a link that goes on working; publication and transcode do not miss each other |
| `MF_files` | 1 video of 2 renditions, 2 runs, a deletion of the video and one of its account, 2 faults (kills, exceptions, files that cannot be removed) | what stays behind has a cause; rows stand for files; no video is lost |
| `CU_retries` | 1 upload of 3 chunks, 2 attempts each, late requests for the second chunk, removal of old uploads by its own requests and by 1 other, 1 kill or error; any number of idle periods | no hole in a video, and no `.part` without `.meta`, but from the races that §3.2 names; a refusal has a cause |
| `SI_races` | 2 browsers, 1 of them with a passkey, 1 reset request and link, 1 replacement of the password, 2 failures to a lock of 2 ticks; fairness | the limit is passed by no more than the logins at work; a reset ends older sessions and older challenges; the throttle ends |
| `INV_races` | 3 registrations, 2 invites, 3 addresses, revocation, expiry, 1 deleted account | uses and accounts agree under every interleaving, with revocation, expiry and a taken address |

Two processes are enough to show ownership races (a third adds another loser
of the same conditional UPDATE); two job rows for one video are needed for a
retry or an orphan next to a job, three for a retry after recovery.  `Lease = 2` and
`MaxGap = 1` are the smallest values with `MaxGap < Lease`: the code renews at a
third of the lease (`jobs.py:56`).  In `TQ_overlap` and `TQ_stalls` transcoding is
switched off (`TRANSCODE_VIDEOS=false`, one step from probe to ready): these runs are
about ownership, and what happens inside a transcode is checked in `TQ_service`.
Two attempts show both a retry and a last attempt.
Three chunks are a first one (which decides the file type), a last one (which may be shorter) and one in between, whose
late request has an acknowledged chunk before it and another after it.  With late requests for the last chunk as well the
run passes without the other upload (2.9 million states), with it the instance is too large to keep;
two attempts give a request and a late original beside it.  Two renditions
give one that succeeds beside one that fails or is cut off; two runs give one that meets the rows and files of another; with two
faults a kill can follow a failed unlink.  A configuration with two videos of one account, one rendition and one fault passes as
well; it is not kept because what it adds, a second round of the purge loop, is part of the proof.  Two browsers race for the last
failure before the limit, and one of them can be overtaken by a reset while the other holds a session.
With two replacements of the password the invariants of `SI_races` pass as well (2.5 million states); liveness over that
instance takes longer than it is worth, since `ThrottleEnds` does not depend on the password.

### 3.1 Runs that refute a statement

Each shows a behaviour of the code that a document or docstring of the repository rules
out; the quotation is in `PROJECT.json` under "findings".

| Run | Statement | Behaviour |
|---|---|---|
| `TQ_v_ready_lost` | a restart mid-transcode resumes | a kill after the purge of the original and before the job's record: the resumed job finds no original and marks the ready video failed |
| `TQ_v_two_ffmpeg` | two processes cannot transcode the same video | a process starts between the two transactions of an upload and queues the video as an orphan |
| `EQ_v_sent_twice` | two workers never send a message twice | the read-back of a claim takes rows that another worker claimed |

### 3.2 Other observed limits

Met while modelling, and each shown by TLC with a variant of the configurations above;
no run is kept for them.

* A start within the lease of a killed worker finds its job unlapsed, and recovery runs once per start
  (`jobs.py:105-120`, `389-400`): the row stays `running` until a later restart.  `RunningEnds` and `PendingResolves` except
  exactly these rows (`LeftBehind`), and fail without the exception.
* Two overlapping retry requests both see no pending work and both enqueue
  (`jobs.py:81`; the SELECT precedes the transaction).  `OneJobPerVideo` holds with one, and with any number that do not overlap.
* `retry_video()` is to "requeue a failed video" (`jobs.py:80`), and the pages show its button beside failed videos and jobs, but the
  handler does not look at the status.  A retry sent for a video whose upload is between its two transactions would enqueue it beside the upload.
* A worker killed in every attempt is retried without limit: recovery
  does not look at `attempts` (`jobs.py:112-119`).  And `attempts`, read by the SELECT of a claim, may be stale when the
  UPDATE wins, as the job was claimed, failed and queued again in between: each other worker buys one attempt in this way.
  `AttemptsArePaidFor` says that nothing else does.
* A database error outside the `try` block ends the worker task
  (`jobs.py:312-320`, `366-384`); its queued work waits for the next start, and so does the row it
  was at, which stays `running` under a live process until its lease lapses and some process starts.
  `DropsArePaidFor` counts these rows: one for each such error, and none for any other reason.
* A last failure is two transactions (`jobs.py:359-362`).  Between them an admin may
  retry and another worker may finish the video; the late second transaction then marks the
  ready video failed.
* An email process that is back within `EMAIL_LEASE_SECONDS` leaves
  the interrupted batch `sending` until a later restart; so does a pass that a
  database error ended, but for the outcomes it had written before the error: nothing rolls them back, and the
  connection's next commit keeps them.
* With three processes whose workers stall past their leases, a worker that was
  recovered twice over may record an outcome that is later changed; `Finality` is
  therefore proved for renewals in time.
* A message that `EmailMessage` refuses (a line break in a header) ends the pass of its
  batch: `send_batch()` builds all messages before it sends one (`mail.py:211`), the others stay
  `sending` until a restart, and so does the bad one, whose attempts go up each time.
* Two announcements at a time may each mint a token for the same member (`notifications.py:74-84`): the second
  replaces the first, whose link may already be in a queued mail.  `LinksWork` excepts the members this happened to.
* Two overlapping edits compare with the visibility that each has read: one that makes a video private between the
  SELECT and the UPDATE of one that leaves it visible ends in a visible video that
  nobody announces (`videos.py:277-311`).  `NobodyMissed` holds as long as no two edits of the video overlap.
* A recipient whose account is deleted between the SELECT of the members and the transaction breaks the foreign
  key; the whole announcement is rolled back and the error swallowed.  Only another transcode or
  publishing edit announces the video.  The same holds after a kill.
* A video made private after the first SELECT of the announcement is announced all the same.
* A request for the first chunk that outlives its connection between `exists()` and `open(..., "w+b")` empties the file
  when it goes on (`videos.py:543-547`): what its successor and the next chunks wrote is lost, and the video can be
  completed with a hole.  `VideoIsWhole` fails with `Linger <- Chunks`.  No step compares the assembled file with
  `total_size`; the only check of the size is its maximum.
* A late request may write an older list over a newer one, or the two texts may mix: an upload whose chunks were all
  acknowledged is then refused as incomplete (`RefusalHasACause` names this).
* A request that creates `.part` after a removal unlinked it, and writes its list before the removal unlinks
  `.meta` (`videos.py:561-562`, and `551-552`), leaves a `.part` file without `.meta` although nothing failed; `_cleanup_staging()`
  looks for `.meta` files and never finds it.  `StagingIsSeen` without `overtaken` fails.
* A removal acts on the age it looked at, however long ago.  If it goes on until the upload, begun anew, asks for completion,
  it may unlink `.part` after the checks, and a late request creates it again before the move: the video has a
  hole.  `VideoIsWhole` without `overrun` fails.
* An error or a kill between the chunk and the first `.meta` file leaves a `.part` file that `_cleanup_staging()`
  never finds, because it looks for `.meta` files (`videos.py:558`).  One between the move and the INSERT leaves a file
  in `raw/` without a row.
* `reset_post()` reads its link in one transaction and marks it used in another, by id (`auth.py:599`, `626`): two
  requests with one link both complete, and so does one whose link was made void by a newer one meanwhile.
* A login that verified the old password before a reset, or a change, was committed opens its session after it
  (`auth.py:301-325`), and so does a passkey login that read its challenge before (`auth.py:884-931`); a reset does not end that session (`SessionsEndWithReset` without `overtaken` fails).  A change of
  the password in the profile, or by an admin, ends no session at all.
* A password change that was checked before a reset writes its password over that of the reset (`users.py:111-135`).
* A run that was killed, or raised, after its first rendition leaves a ready row.  Recovery runs the video again, the new run
  overwrites the file (`-y`); if all its renditions fail, the COUNT still sees the old row (`videos.py:905-914`), the video is
  declared ready, and the original is purged although no whole rendition is left.  `docs/DEPLOYMENT.md:171` says that the
  original is deleted only after a rendition succeeds; one did, in another run.  `NothingIsLost` and `RowsStandForFiles` except the
  videos in `rerun`, and fail without that.  `retry_video_transcode()` deletes the old rows first and is not affected.
* A kill between the `unlink` of the original and `raw_path = NULL` leaves a ready video whose job finds no original when it
  is run again: it is marked failed (`videos.py:842-845`).
* A deletion that is killed after its purge leaves the video's row, ready rows and all, without files.
* A run that is at work on a video while it is deleted goes on creating files: what it makes after the scan of `rmtree` stays on
  disk with no row naming it; so do the files of a video uploaded to an account that is being deleted
  (`admin.py:333-342`), and an original whose INSERT was refused.  Nothing looks for such files later.
* A lock that is written by a late failure (`apply_lockout()`) may follow the `unlock()` of a login that succeeded: the count
  it is based on was read before `clear_failures()`.

## 4. Fairness

`FairSpec` of `TranscodeQueue`: weak fairness of each worker task and
heartbeat (asyncio runs what is ready; that ffmpeg ends is an assumption, as nothing in the code
puts a limit on it), of `Start` (systemd `Restart=`), of the clock, and of finishing a request
that was begun.  No request has to be made, and no crash or error has to
happen.  Strong fairness is not needed: a step of a task stays enabled until
the task takes it.  A restart may come at any time (`QuickRestart = TRUE`); the rows that one within the lease passes by are
the exception of `RunningEnds` and `PendingResolves`.

`FairSpec` of `EmailQueue`: the same for the pass of each worker, `Start` and the clock; nothing
forces the mail server to accept.  No assumption is made about when a restart comes: `MessageResolves` excepts the
messages that are `stranded`.

`FairSpec` of `SignIn`: a login that was begun goes on (or is given up), and the clock ticks.  The same holds of a
passkey login that has read its challenge.  No browser has to log in, fail, succeed or stop trying.

## 5. Proofs

All for any finite or infinite sets of processes, workers and requests, and any values of the limits
that satisfy the assumptions of the modules (`ProcAssumption`,
`LimitAssumption`, `SwitchAssumption`, `InviteAssumption`,
`AnnouncementAssumption`, `UploadAssumption`, `MediaAssumption`: the labels of renditions are distinct, `LoginAssumption`: the
browsers of `SignIn` are finitely many, those with a passkey among them).

**TranscodeQueueProofs.**  `TypeCorrect`: `TypeOK /\ RowsConsistent` is inductive.
The second conjunct is needed for the first: that a task's `job` is a row with a video is what makes
`vStatus[VideoOf(w)]` a value of its domain.  `Exclusivity`: the invariant is
`TypeOK /\ RowsConsistent /\ SoleRunner /\ RunnerHoldsLease`.  `SoleRunner` alone is not
inductive: a second worker could claim if the row of a held job were queued;
`RunnerHoldsLease` excludes it and ties the lease to the time since the last renewal, so recovery,
which takes lapsed leases, finds no held job.  To keep the proof short, worker steps are first
shown to be of one of three shapes (`Move`: still holds the same job, rows kept;
`Release`: gives it up and writes only its row; `Leave`: not a holder), and
the invariant is proved per shape.  `RecoveryIsSafe` and `Finality` are the action
properties that follow.  These three assume `Stalls = FALSE`: live workers renew in
time.  Two theorems hold without it, whatever renewals are missed, and are what remains of ownership then.  `OnlyErrorsDropRows` rests
on two facts that are inductive beside the types: a row that runs under the id of a live process has a worker of it that is at work on the
row or that ended over it (`RunningIsAnswered`: a worker that gives its job up has written the row or lost it,
`ReleaseRecords`), and workers end one for each error (`EndedInv`).  A dropped row is then one that some ended worker
answers for, each of them for one (`DroppedByEnded`), and `DropsArePaidFor` is a count.  `OwnersDecideOutcomes`, an action property,
follows step by step.

*The board.*  `QueueImplementsBoard` assumes renewals in time again.  The board's holder is defined by a CHOOSE among
the workers at a job; `Exclusive` makes it unique, so `BoardView` can state the board without a choice: a job is held by `w`
iff `w` works on it and its row runs (`WorksOn`), else it is lost, or what its row says.  `PlaceKept` then shows that a job whose row and
workers stay the same keeps its place, and each action is left with the one job that it moves, or, for a recovery or a
crash, with the set of those it loses or queues.

**TranscodeVideoProofs.**  All of it assumes renewals in time.

*Attempts*, for any number of processes and finitely many workers.  The bound is not inductive: it says nothing of the attempts
still to come.  `WithinBudget(j)` adds them, once a job is at its last regular attempt: one for each worker whose SELECT read a
number of attempts that is out of date (`StalePicks`), and one if the row is queued or runs under a worker that does not know the attempt for the last
(`Again`).  A claim turns a stale pick into an attempt; a worker that becomes stale does so because another made an attempt
meanwhile; and a kill, which takes from the last worker what it knew, pays with the term `crashes`.  `AttemptsBounded` counts errors that end a worker
too; `AttemptsArePaid` is the run's property, of systems without them.

*Videos and their jobs.*  Three hypotheses beside renewals in time, each the boundary of an observed limit (section 3.2):
`OneProcess`, as the start of a second process queues a video that is being uploaded (`TQ_v_two_ffmpeg`); `RetriesOfSettled`, a retry is
asked for a video that is failed or ready; `RetriesApart`, no two retries of one video are between check and commit, stated as
`Spec /\ []RetriesApart => ...` since it restricts behaviours, not constants.  `TQ_service` satisfies all three: one process,
retries of failed videos, a single retry.  Any number of workers, videos, retries, deletions, kills and renditions is
allowed.  The invariant `VideoInv` ties the three tables a step reads to each other: rows of jobs go with their videos (`RowsOfVideos`); a
video has one job that is pending (`OneJob`) and one worker (`OneHolder`); one that is being uploaded has had no job (`Uploads`); what
a retry has checked still holds when it commits (`RetriesHold`): the video is settled, has its original and no job; what a worker found out still
holds when it acts on it (`Verdicts`): it counted a ready row that no retry can have deleted since, because a retry finds no pending job only when
no worker is at the video.  `ReadyHasRendition` and `PurgedHasRendition` are conjuncts that need all of this.
`VideosAreAttended` carries `NothingStranded` beside it, and assumes `MaxDbErrors = 0`: an error outside the `try` block leaves a row running,
or a video unmarked, until the next start (section 3.2).

**EmailQueueProofs.**  `OutcomesAreTrue`: sent means delivered, failed means all
attempts made, for any number of workers that steal and overwrite each other's rows.  The
strengthening `Knows(p)` says what a worker's locals tell: a message it no longer has to hand
over and did not note as failed was delivered, and its count of attempts is no more
than the row's.  Both only grow (`RowsAdvance`), so other workers cannot make
them false.  `TypeCorrect` adds the remaining fields, and `Counted`: a message in a batch was claimed, so the exponent of its
backoff is not negative.  Its premise, that `Backoff(n)` is a natural number for `n > 0`, is arithmetic that the provers do not have.

*One worker* (`OneWorker`, what `start_workers()` makes of one process; with two, `EQ_v_sent_twice` refutes what follows).
`DuplicatesArePaid`, `AttemptsArePaid`: the bounds are not inductive; `SingleInv` adds where the last copy and the last attempt are.  A copy that no
fault accounts for is of a message that was recorded, or is about to be by the pass that had it accepted (`CopiesPaid`); a message without an attempt
left is never `queued`, and `sending` only while its worker lives (`ClaimsPaid`).  `BatchHeld` makes the rows of the batch the worker's
own, which is what a second worker destroys.  `QueueImplementsOutbox` follows: each action changes the outcome or the copies of messages in one way that
`Outbox` allows, or neither.

**AnnouncementProofs.**  `AnnouncementsAreSound`: `AnnouncedOnce` and `EveryoneIsTold` follow from
`RowsUnderClaim` (no row of a video before its `notified_at`, one at most after), `NoEmptyLink` from
`TaskKnows(a)`: a task that sees to the tokens has a token for each recipient it
is through with, unless the member is gone, and then the foreign key stops the claim.
Steps that touch neither rows nor members are one lemma (`QuietStep`).
`PublicationIsAnnounced` is about any number of edits, as long as no two of one video are between SELECT and UPDATE at once: `EditsApart`
is a premise on behaviours, `Spec /\ []EditsApart => ...`.  Its invariant adds `ReadIsReplaced`: what an edit has read is still what it
replaces.
`LinksKeepWorking` rests on `TokensHold`: a token that a task has taken for a member is the one in the member's row, unless
another was minted over it; no other step writes tokens.

**MediaFilesProofs.**  The three properties need each other and what runs and deletions know of the disk, so they are one invariant,
`FilesInv`, proved inductive (`Invariance`).  `Knows(v)` says of a video that nobody has purged what the run at work has seen: the
original until it is unlinked, the rows it has made ready before its rendition and no others; since labels are distinct, the
rendition that it overwrites next is none of them.  `HasRead` and `HasSwept` say what a deletion leaves of a video it is through with, which is what
its `DELETE` turns into a leftover; `GoneIsQuiet` that only an overtaken run outlives its video.  A step of a run concerns one video
(`RunFrame`), one of a purge takes files of one video away (`PurgeFrame`), and a video that a step leaves alone keeps what held
of it (`SameVideo`); what remains is one lemma per kind of step.

**ChunkedUploadProofs.**  `UploadsAreWhole` is proved for uploads whose first chunk has no late request.  The
invariant rests on `Knows(r)` and `Listed`: as long as the first chunk is in the file, so is every chunk that the list, or a
request, knows of.  A file without its first chunk (removed and begun anew) does not pass the check of its type, so
`FinalKnows` can carry the fact to the move, and past it.  `OldIsQuiet` says that no removal begins beside a request once
the last chunk was acknowledged, `RemovalIsSeen` that one which began before is in `overrun` unless nobody is at work,
and `FirstIsAlone` that nothing overlaps the first chunk; without it a late
request could empty the file.  `StagingIsTracked` needs no such assumption; its strengthenings are `Fresh`, no attempt is
sent twice, and `BetweenIsEmpty`, `.part` comes up between the two unlinks only with `overtaken`.  `RefusalsHaveCauses` needs none either: while nothing has gone wrong yet (`Calm`), `Smooth` holds: the browser waits for the only
request there is, which finds every earlier chunk listed and adds its own, so that the list is complete when `upload_complete()` reads it.
Lost requests and answers are no exception to it: a chunk that is sent again meets its own entry.

**SignInProofs.**  `OverrunBounded`: the bound alone is not inductive, because it does not say how many of the logins
at work may still fail.  `RoomForPast` does: failures and logins that are past the check (`Past`) together stay below the limit
and the number of browsers; a login is let through only while the failures are below the limit.  Only two steps
can raise the sum or move it, every other one is shown to shrink both parts.  `ResetEndsSessions`: `OvertakenKnown` claims of
each login between proof and session, and of each challenge that waits for its login, what `SessionsEndWithReset` claims of sessions; `OneOrOther` keeps a browser from
holding a session while it signs in, and `resetTo` from being ahead of the password.

**InvitesProofs.**  `UsesBounded`: the invariant is `TypeOK`, `made = usedCount` and
`usedCount <= maxUses`; `RevocationIsFinal` follows from the guard of the conditional UPDATE for every
step of every registration.

Each invariant that one of these theorems carries beside its main one has a theorem of its own, by temporal logic from it:
`LeaseIsHeld`, `NoneGivenUpEarly`, `UsesCountAccounts`, `NobodyIsForgotten` and the `TypeCorrect` of each
module but `EmailQueue`, whose types have an invariant of their own.

**Only model-checked.**  Liveness (`PendingResolves`, `RunningEnds`,
`MessageResolves`, `ThrottleEnds`) and `ENABLED` are out of the prover's reach.  Every other property of a passing run is stated by a
theorem.  What the theorems of `TranscodeVideoProofs` exclude (several processes, overlapping retries, errors outside the `try` block) is
excluded because the property is then false, as the runs of section 3.1 and the variants of 3.2 show.

## 6. Not modelled

* ffmpeg, ffprobe, file contents: a run succeeds or fails, a file is whole or not.  A cancelled worker may
  leave its ffmpeg child behind for a moment; the models stop it with the worker.
* Rendering, feeds, search: they read and change nothing.  Of streaming, what can be served is modelled, not how.
* Schema migration, configuration, deployment scripts: run once, alone.
* Password hashing, cookies, CSRF tokens, TOTP codes and passkey ceremonies: libraries.  Enrolment of either writes one row
  of the account that asks for it.
* Roles: comparisons at the head of the handlers.  `change_role()` refuses the bootstrap account and every Configurator and
  writes no other role than admin or member, so no order of its statements does what one call alone cannot.

## 7. Plan

1. The modules of section 2 with their runs and proofs (done).
2. Enrolment and removal of TOTP and passkeys against sign-in; the key of the IP and the other scopes of the throttle.
3. `Announcement` composed with the notify step of `TranscodeQueue`, and with deletion of the video.
4. Proofs: the invariants, action properties and refinements of all passing runs (done); `NothingStranded` and `AttemptsArePaidFor` with errors
   that end a worker, and exclusivity for two processes whose workers may stall, once lost owners are named.
