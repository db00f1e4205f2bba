----------------------------- MODULE MediaFiles -----------------------------
(***************************************************************************)
(* The files of a video against the rows that name them: an upload, the    *)
(* runs of transcode_video(), the deletion of a video and of an account    *)
(* (app/videos.py, app/admin.py).                                          *)
(*                                                                         *)
(* TranscodeQueue says who runs a transcode; here at most one run is at    *)
(* work on a video, and what counts is what the runs, the uploads and the  *)
(* deletions leave on disk when they overlap or are cut off.               *)
(***************************************************************************)
EXTENDS Integers, Sequences

CONSTANTS
    Videos,
    Owners,          \* rows of users that own videos
    OwnerOf,         \* videos.owner_id
    Renditions,      \* RENDITIONS, as the sequence of labels
    VideoDeletes,    \* requests to delete a video
    AccountDeletes,  \* requests to delete an account
    NoVideo, NoOwner,
    KeepRaw,         \* Config.KEEP_RAW_UPLOADS
    MaxRuns,         \* bound: runs of the transcode, per video
    MaxFaults        \* bound: kills, exceptions and files that cannot be removed

Labels == {Renditions[i] : i \in 1..Len(Renditions)}
Deletes == VideoDeletes \cup AccountDeletes

ASSUME MediaAssumption ==
    /\ OwnerOf \in [Videos -> Owners]
    /\ NoVideo \notin Videos /\ NoOwner \notin Owners
    /\ Renditions \in Seq(STRING) \ {<<>>} /\ Labels \cap {"raw", "dir", "poster"} = {}
    /\ \A i, k \in 1..Len(Renditions) : Renditions[i] = Renditions[k] => i = k
    /\ VideoDeletes \cap AccountDeletes = {}
    /\ KeepRaw \in BOOLEAN /\ MaxRuns \in Nat /\ MaxFaults \in Nat

VARIABLES
    accounts,       \* the rows of users
    \* the rows of videos: status, raw_path and thumbnail_path not NULL
    status, rawPath, posterPath,
    \* video_renditions: whether the video has rows, its labels with a ready one
    named, ready,
    job,            \* a job of the video is queued or running
    \* on disk: raw/<uuid>, videos/<uuid>/ and what it holds; the renditions
    \* that ffmpeg completed
    files, whole,
    uPc,            \* the upload of a video
    \* the run at work on a video: where it is, its rendition, ffmpeg's verdict
    rPc, at, rc,
    \* a deletion: where it is, what it selected, the paths it read, what it has
    \* yet to purge and is purging, the account
    dPc, selected, paths, todo, current, account,
    runs, faults,   \* the bounds used up
    \* history: videos whose purge began; videos with a run that found ready
    \* rows of an earlier one; what may be left behind, and why: see Leave
    purged, rerun, excused

videoRows == <<status, rawPath, posterPath, named, ready, job>>
disk == <<files, whole>>
run == <<rPc, at, rc>>
deletion == <<dPc, selected, paths, todo, current, account>>
history == <<purged, rerun, excused>>
vars == <<accounts, videoRows, disk, uPc, run, deletion, runs, faults, history>>

Inside == {"poster"} \cup Labels        \* of videos/<uuid>/
Files == {"raw", "dir"} \cup Inside
Places == {"raw", "dir"}
Statuses == {"absent", "uploading", "processing", "ready", "failed", "gone"}
RunPcs == {"none", "mkdir", "probe", "poster", "setPoster", "insert", "open",
           "create", "encode", "record", "verdict", "unlink", "nullRaw",
           "end", "fail"}

Exists(v) == status[v] \notin {"absent", "gone"}
Running(v) == rPc[v] # "none"
\* A deletion that has read its rows and not yet deleted them.
Deleting(d) == dPc[d] \in {"next", "scan", "rmdir"}

\* Mutant: the word of the job's outcome in the column of the video.
SetJobStatus(v, s) ==
    status' = IF Exists(v) THEN [status EXCEPT ![v] = IF s = "ready" THEN "done" ELSE s]
                           ELSE status

\* UPDATE videos ... WHERE id = ?: no row, no effect.
SetStatus(v, s) == status' = IF Exists(v) THEN [status EXCEPT ![v] = s] ELSE status

Goto(v, where) == rPc' = [rPc EXCEPT ![v] = where]
Fault == faults < MaxFaults /\ faults' = faults + 1

Init ==
    /\ accounts = Owners
    /\ status = [v \in Videos |-> "absent"]
    /\ rawPath = [v \in Videos |-> FALSE] /\ posterPath = [v \in Videos |-> FALSE]
    /\ named = [v \in Videos |-> FALSE] /\ ready = [v \in Videos |-> {}]
    /\ job = [v \in Videos |-> FALSE]
    /\ files = [v \in Videos |-> {}] /\ whole = [v \in Videos |-> {}]
    /\ uPc = [v \in Videos |-> "new"]
    /\ rPc = [v \in Videos |-> "none"]
    /\ at = [v \in Videos |-> 1] /\ rc = [v \in Videos |-> FALSE]
    /\ dPc = [d \in Deletes |-> "new"]
    /\ selected = [d \in Deletes |-> {}] /\ paths = [d \in Deletes |-> {}]
    /\ todo = [d \in Deletes |-> {}] /\ current = [d \in Deletes |-> NoVideo]
    /\ account = [d \in Deletes |-> NoOwner]
    /\ runs = [v \in Videos |-> 0] /\ faults = 0
    /\ purged = {} /\ rerun = {} /\ excused = {}

-----------------------------------------------------------------------------
(* Uploads. *)

\* upload_video() writes the file, or upload_complete() moves it into place.
UploadWrite(v) ==
    /\ uPc[v] = "new" /\ OwnerOf[v] \in accounts
    /\ files' = [files EXCEPT ![v] = @ \cup {"raw"}]
    /\ uPc' = [uPc EXCEPT ![v] = "written"]
    /\ UNCHANGED <<accounts, videoRows, whole, run, deletion, runs, faults, history>>

\* Too large, or its picture too high.
UploadReject(v) ==
    /\ uPc[v] = "written"
    /\ files' = [files EXCEPT ![v] = @ \ {"raw"}]
    /\ uPc' = [uPc EXCEPT ![v] = "done"]
    /\ UNCHANGED <<accounts, videoRows, whole, run, deletion, runs, faults, history>>

\* The rows of the video and of its job; TranscodeQueue looks between the two.
UploadInsert(v) ==
    /\ uPc[v] = "written" /\ OwnerOf[v] \in accounts
    /\ status' = [status EXCEPT ![v] = "uploading"]
    /\ rawPath' = [rawPath EXCEPT ![v] = TRUE]
    /\ job' = [job EXCEPT ![v] = TRUE]
    /\ uPc' = [uPc EXCEPT ![v] = "done"]
    /\ UNCHANGED <<accounts, posterPath, named, ready, disk, run, deletion, runs,
                   faults, history>>

\* The foreign key refuses a video of an account that is gone; or the database
\* fails.  Nothing takes the file away.
UploadRefused(v) ==
    /\ uPc[v] = "written"
    /\ \/ OwnerOf[v] \notin accounts /\ UNCHANGED faults
       \/ Fault
    /\ uPc' = [uPc EXCEPT ![v] = "done"]
    /\ excused' = excused \cup {<<v, "raw">>}
    /\ UNCHANGED <<accounts, videoRows, disk, run, deletion, runs, purged, rerun>>

-----------------------------------------------------------------------------
(* A run of the transcode. *)

\* _run_job() reads the video's row; without raw_path it gives up at once.
Begin(v) ==
    /\ ~Running(v) /\ job[v] /\ Exists(v) /\ runs[v] < MaxRuns
    /\ IF rawPath[v]
         THEN /\ Goto(v, "mkdir")
              /\ UNCHANGED <<status, job>>
         ELSE /\ status' = [status EXCEPT ![v] = "failed"]
              /\ job' = [job EXCEPT ![v] = FALSE]
              /\ UNCHANGED rPc
    /\ at' = [at EXCEPT ![v] = 1]
    /\ runs' = [runs EXCEPT ![v] = @ + 1]
    /\ excused' = excused \cup
            {<<v, "dir">> : d \in {d \in Deletes : Deleting(d) /\ v \in selected[d] \ todo[d]}}
    /\ UNCHANGED <<accounts, rawPath, posterPath, named, ready, disk, uPc, rc,
                   deletion, faults, purged, rerun>>

MakeDir(v) ==
    /\ rPc[v] = "mkdir"
    /\ files' = [files EXCEPT ![v] = @ \cup {"dir"}]
    /\ Goto(v, "probe")
    /\ UNCHANGED <<accounts, videoRows, whole, uPc, at, rc, deletion, runs, faults,
                   history>>

\* raw.exists(): without the original the run is over.
Probe(v) ==
    /\ rPc[v] = "probe"
    /\ IF "raw" \in files[v]
         THEN SetStatus(v, "processing") /\ Goto(v, "poster")
         ELSE SetStatus(v, "failed") /\ Goto(v, "end")
    /\ UNCHANGED <<accounts, rawPath, posterPath, named, ready, job, disk, uPc, at,
                   rc, deletion, runs, faults, history>>

\* _extract_thumbnail(): ffmpeg reads the original and creates the file; it may
\* fail before and after that.
Poster(v) ==
    /\ rPc[v] = "poster"
    /\ \/ /\ {"raw", "dir"} \subseteq files[v]
          /\ files' = [files EXCEPT ![v] = @ \cup {"poster"}]
          /\ \E ok \in BOOLEAN : Goto(v, IF ok THEN "setPoster" ELSE "insert")
       \/ Goto(v, "insert") /\ UNCHANGED files
    /\ UNCHANGED <<accounts, videoRows, whole, uPc, at, rc, deletion, runs, faults,
                   history>>

SetPoster(v) ==
    /\ rPc[v] = "setPoster"
    /\ posterPath' = [posterPath EXCEPT ![v] = Exists(v)]
    /\ Goto(v, "insert")
    /\ UNCHANGED <<accounts, status, rawPath, named, ready, job, disk, uPc, at, rc,
                   deletion, runs, faults, history>>

\* A pending row per rendition, besides those of earlier runs.
InsertRows(v) ==
    /\ rPc[v] = "insert" /\ Exists(v)
    /\ named' = [named EXCEPT ![v] = TRUE]
    /\ Goto(v, "open")
    /\ rerun' = IF ready[v] # {} THEN rerun \cup {v} ELSE rerun
    /\ UNCHANGED <<accounts, status, rawPath, posterPath, ready, job, disk, uPc, at,
                   rc, deletion, runs, faults, purged, excused>>

\* _ffmpeg_transcode(): the original is opened ...
OpenInput(v) ==
    /\ rPc[v] = "open"
    /\ \/ "raw" \in files[v] /\ Goto(v, "create")
       \/ Goto(v, "record")
    /\ rc' = [rc EXCEPT ![v] = FALSE]
    /\ UNCHANGED <<accounts, videoRows, disk, uPc, at, deletion, runs, faults, history>>

\* ... the output is created, or what is there is overwritten (-y) ...
CreateOutput(v) ==
    LET out == Renditions[at[v]] IN
    /\ rPc[v] = "create"
    /\ IF "dir" \in files[v]
         THEN /\ files' = [files EXCEPT ![v] = @ \cup {out}]
              /\ whole' = [whole EXCEPT ![v] = @ \ {out}]
              /\ Goto(v, "encode")
         ELSE Goto(v, "record") /\ UNCHANGED disk
    /\ UNCHANGED <<accounts, videoRows, uPc, at, rc, deletion, runs, faults, history>>

\* ... and completed, or left as it is.  A file that was unlinked stays away.
Encode(v) ==
    LET out == Renditions[at[v]] IN
    /\ rPc[v] = "encode"
    /\ \E ok \in BOOLEAN :
        /\ rc' = [rc EXCEPT ![v] = ok]
        /\ whole' = [whole EXCEPT ![v] = IF ok /\ out \in files[v] THEN @ \cup {out} ELSE @]
    /\ Goto(v, "record")
    /\ UNCHANGED <<accounts, videoRows, files, uPc, at, deletion, runs, faults, history>>

\* Mutant: the exit status of ffmpeg is not looked at.
RecordIfThere(v) ==
    LET out == Renditions[at[v]] IN
    /\ rPc[v] = "record"
    /\ ready' = [ready EXCEPT ![v] = IF out \in files[v] /\ Exists(v) THEN @ \cup {out} ELSE @]
    /\ at' = [at EXCEPT ![v] = @ + 1]
    /\ Goto(v, IF at[v] < Len(Renditions) THEN "open" ELSE "verdict")
    /\ UNCHANGED <<accounts, status, rawPath, posterPath, named, job, disk, uPc, rc,
                   deletion, runs, faults, history>>

\* dest.exists(), and the UPDATE of the row that this run inserted: in between
\* only a deletion can take the file away.
Record(v) ==
    LET out == Renditions[at[v]] IN
    /\ rPc[v] = "record"
    /\ ready' = [ready EXCEPT ![v] =
            IF rc[v] /\ out \in files[v] /\ Exists(v) THEN @ \cup {out} ELSE @]
    /\ at' = [at EXCEPT ![v] = @ + 1]
    /\ Goto(v, IF at[v] < Len(Renditions) THEN "open" ELSE "verdict")
    /\ UNCHANGED <<accounts, status, rawPath, posterPath, named, job, disk, uPc, rc,
                   deletion, runs, faults, history>>

\* Mutant: counts every row of the video.
VerdictOfAnyRow(v) ==
    /\ rPc[v] = "verdict"
    /\ SetStatus(v, "ready") /\ Goto(v, IF KeepRaw THEN "end" ELSE "unlink")
    /\ UNCHANGED <<accounts, rawPath, posterPath, named, ready, job, disk, uPc, at,
                   rc, deletion, runs, faults, history>>

\* The count of ready rows, and the status: in between the rows can only
\* vanish with the video, and then the UPDATE has no effect.
Verdict(v) ==
    /\ rPc[v] = "verdict"
    /\ IF ready[v] # {}
         THEN SetStatus(v, "ready") /\ Goto(v, IF KeepRaw THEN "end" ELSE "unlink")
         ELSE SetStatus(v, "failed") /\ Goto(v, "end")
    /\ UNCHANGED <<accounts, rawPath, posterPath, named, ready, job, disk, uPc, at,
                   rc, deletion, runs, faults, history>>

\* Mutant: the column is cleared though the file could not be removed.
UnlinkRawOrNot(v) ==
    /\ rPc[v] = "unlink"
    /\ \/ /\ files' = [files EXCEPT ![v] = @ \ {"raw"}]
          /\ UNCHANGED faults
       \/ Fault /\ UNCHANGED files
    /\ Goto(v, "nullRaw")
    /\ UNCHANGED <<accounts, videoRows, whole, uPc, at, rc, deletion, runs, history>>

\* _purge_raw_original(): the file (an OSError is logged) ...
UnlinkRaw(v) ==
    /\ rPc[v] = "unlink"
    /\ \/ /\ "raw" \in files[v]
          /\ files' = [files EXCEPT ![v] = @ \ {"raw"}]
          /\ Goto(v, "nullRaw") /\ UNCHANGED faults
       \/ "raw" \notin files[v] /\ Goto(v, "end") /\ UNCHANGED <<files, faults>>
       \/ Fault /\ Goto(v, "end") /\ UNCHANGED files
    /\ UNCHANGED <<accounts, videoRows, whole, uPc, at, rc, deletion, runs, history>>

\* ... then the column.
NullRaw(v) ==
    /\ rPc[v] = "nullRaw"
    /\ rawPath' = [rawPath EXCEPT ![v] = FALSE]
    /\ Goto(v, "end")
    /\ UNCHANGED <<accounts, status, posterPath, named, ready, job, disk, uPc, at, rc,
                   deletion, runs, faults, history>>

\* An exception; InsertRows raises if the video is gone.
Raise(v) ==
    /\ rPc[v] \notin {"none", "end", "fail", "unlink"}
    /\ \/ rPc[v] = "insert" /\ ~Exists(v) /\ UNCHANGED faults
       \/ Fault
    /\ Goto(v, "fail")
    /\ UNCHANGED <<accounts, videoRows, disk, uPc, at, rc, deletion, runs, history>>

\* _run_job() reads the status back ...
FinishDone(v) ==
    /\ rPc[v] = "end" /\ status[v] = "ready"
    /\ job' = [job EXCEPT ![v] = FALSE]
    /\ Goto(v, "none")
    /\ UNCHANGED <<accounts, status, rawPath, posterPath, named, ready, disk, uPc, at,
                   rc, deletion, runs, faults, history>>

\* ... and _handle_failure() queues the job again, or gives it up.  Rows and
\* files of the run stay.
HandleFailure(v) ==
    /\ rPc[v] = "fail" \/ (rPc[v] = "end" /\ status[v] # "ready")
    /\ \E again \in BOOLEAN :
        /\ SetStatus(v, IF again THEN "uploading" ELSE "failed")
        /\ job' = [job EXCEPT ![v] = again /\ Exists(v)]
    /\ Goto(v, "none")
    /\ UNCHANGED <<accounts, rawPath, posterPath, named, ready, disk, uPc, at, rc,
                   deletion, runs, faults, history>>

\* retry_video_transcode(); TranscodeQueue looks between its check and its
\* transaction.
Retry(v) ==
    /\ Exists(v) /\ rawPath[v] /\ ~job[v]
    /\ named' = [named EXCEPT ![v] = FALSE]
    /\ ready' = [ready EXCEPT ![v] = {}]
    /\ status' = [status EXCEPT ![v] = "uploading"]
    /\ job' = [job EXCEPT ![v] = TRUE]
    /\ UNCHANGED <<accounts, rawPath, posterPath, disk, uPc, run, deletion, runs,
                   faults, history>>

-----------------------------------------------------------------------------
(* Deletions. *)

\* raw_path and thumbnail_path of the selected rows.
PathsOf(S) == {<<v, "raw">> : v \in {v \in S : rawPath[v]}}
                \cup {<<v, "poster">> : v \in {v \in S : posterPath[v]}}

Select(d, S) ==
    /\ dPc[d] = "new"
    /\ dPc' = [dPc EXCEPT ![d] = "next"]
    /\ selected' = [selected EXCEPT ![d] = S]
    /\ paths' = [paths EXCEPT ![d] = PathsOf(S)]
    /\ todo' = [todo EXCEPT ![d] = S]
    /\ UNCHANGED <<accounts, videoRows, disk, uPc, run, current, runs, faults, history>>

\* delete_own_video(), admin_delete_video()
SelectVideo(d, v) ==
    /\ d \in VideoDeletes /\ Exists(v)
    /\ Select(d, {v}) /\ UNCHANGED account

\* delete_user(): the videos that the account has now.
SelectAccount(d, o) ==
    /\ d \in AccountDeletes /\ o \in accounts
    /\ Select(d, {v \in Videos : Exists(v) /\ OwnerOf[v] = o})
    /\ account' = [account EXCEPT ![d] = o]

\* purge_video_files(): the paths that were read and those of the renditions;
\* _unlink_all() logs what it cannot remove.
Unlink(d, v) ==
    /\ dPc[d] = "next" /\ v \in todo[d]
    /\ LET doomed == {f \in Inside \cup {"raw"} : <<v, f>> \in paths[d]}
                        \cup (IF named[v] THEN Labels ELSE {})
           overrun == IF Running(v) THEN {<<v, "dir">>} ELSE {}
       IN \/ /\ files' = [files EXCEPT ![v] = @ \ doomed]
             /\ whole' = [whole EXCEPT ![v] = @ \ doomed]
             /\ excused' = excused \cup overrun
             /\ UNCHANGED faults
          \/ /\ Fault
             /\ files' = [files EXCEPT ![v] = @ \ (doomed \ {"raw"})]
             /\ whole' = [whole EXCEPT ![v] = @ \ doomed]
             /\ excused' = excused \cup overrun \cup {<<v, "raw">>}
    /\ purged' = purged \cup {v}
    /\ todo' = [todo EXCEPT ![d] = @ \ {v}]
    /\ current' = [current EXCEPT ![d] = v]
    /\ dPc' = [dPc EXCEPT ![d] = "scan"]
    /\ UNCHANGED <<accounts, videoRows, uPc, run, selected, paths, account, runs, rerun>>

\* rmtree(ignore_errors=True): what the directory holds now ...
Scan(d) ==
    LET v == current[d] IN
    /\ dPc[d] = "scan"
    /\ \E kept \in SUBSET (files[v] \cap Inside) :
        /\ IF kept = {} THEN UNCHANGED <<faults, excused>>
                        ELSE Fault /\ excused' = excused \cup {<<v, "dir">>}
        /\ files' = [files EXCEPT ![v] = @ \ (Inside \ kept)]
        /\ whole' = [whole EXCEPT ![v] = @ \cap kept]
    /\ dPc' = [dPc EXCEPT ![d] = "rmdir"]
    /\ UNCHANGED <<accounts, videoRows, uPc, run, selected, paths, todo, current,
                   account, runs, purged, rerun>>

\* ... then the directory itself, if it is empty by now.
RemoveDir(d) ==
    LET v == current[d] IN
    /\ dPc[d] = "rmdir"
    /\ files' = [files EXCEPT ![v] = IF @ \cap Inside = {} THEN @ \ {"dir"} ELSE @]
    /\ current' = [current EXCEPT ![d] = NoVideo]
    /\ dPc' = [dPc EXCEPT ![d] = "next"]
    /\ UNCHANGED <<accounts, videoRows, whole, uPc, run, selected, paths, todo,
                   account, runs, faults, history>>

\* DELETE of the video, or of the account: ON DELETE CASCADE takes every video
\* that the account has by now, and the rendition rows and jobs of a video.
DeleteRow(d) ==
    LET fallen == IF d \in AccountDeletes
                    THEN {v \in Videos : Exists(v) /\ OwnerOf[v] = account[d]}
                    ELSE {v \in selected[d] : Exists(v)}
        Without(f, none) == [v \in Videos |-> IF v \in fallen THEN none ELSE f[v]]
    IN
    /\ dPc[d] = "next" /\ todo[d] = {}
    /\ accounts' = accounts \ {account[d]}
    /\ status' = Without(status, "gone")
    /\ rawPath' = Without(rawPath, FALSE) /\ posterPath' = Without(posterPath, FALSE)
    /\ named' = Without(named, FALSE) /\ ready' = Without(ready, {})
    /\ job' = Without(job, FALSE)
    /\ excused' = excused \cup ((fallen \ selected[d]) \X Places)
    /\ dPc' = [dPc EXCEPT ![d] = "done"]
    /\ UNCHANGED <<disk, uPc, run, selected, paths, todo, current, account, runs,
                   faults, purged, rerun>>

\* A kill of the process: uploads, runs and deletions end where they are.
Kill ==
    /\ Fault
    /\ excused' = excused \cup {<<v, "raw">> : v \in {v \in Videos : uPc[v] = "written"}}
    /\ uPc' = [v \in Videos |-> IF uPc[v] = "written" THEN "done" ELSE uPc[v]]
    /\ rPc' = [v \in Videos |-> "none"]
    /\ dPc' = [d \in Deletes |-> IF dPc[d] = "new" THEN "new" ELSE "done"]
    /\ UNCHANGED <<accounts, videoRows, disk, at, rc, selected, paths, todo, current,
                   account, runs, purged, rerun>>

-----------------------------------------------------------------------------
Upload(v) == UploadWrite(v) \/ UploadReject(v) \/ UploadInsert(v) \/ UploadRefused(v)

RunStep(v) ==
    \/ Begin(v) \/ MakeDir(v) \/ Probe(v) \/ Poster(v) \/ SetPoster(v) \/ InsertRows(v)
    \/ OpenInput(v) \/ CreateOutput(v) \/ Encode(v) \/ Record(v) \/ Verdict(v)
    \/ UnlinkRaw(v) \/ NullRaw(v) \/ Raise(v) \/ FinishDone(v) \/ HandleFailure(v)

DeleteStep(d) ==
    \/ \E v \in Videos : SelectVideo(d, v) \/ Unlink(d, v)
    \/ \E o \in Owners : SelectAccount(d, o)
    \/ Scan(d) \/ RemoveDir(d) \/ DeleteRow(d)

Next ==
    \/ \E v \in Videos : Upload(v) \/ RunStep(v) \/ Retry(v)
    \/ \E d \in Deletes : DeleteStep(d)
    \/ Kill

Spec == Init /\ [][Next]_vars

-----------------------------------------------------------------------------
RowTypes ==
    /\ accounts \subseteq Owners
    /\ status \in [Videos -> Statuses]
    /\ rawPath \in [Videos -> BOOLEAN] /\ posterPath \in [Videos -> BOOLEAN]
    /\ named \in [Videos -> BOOLEAN] /\ ready \in [Videos -> SUBSET Labels]
    /\ job \in [Videos -> BOOLEAN]

DiskTypes == files \in [Videos -> SUBSET Files] /\ whole \in [Videos -> SUBSET Labels]

RunTypes ==
    /\ uPc \in [Videos -> {"new", "written", "done"}]
    /\ rPc \in [Videos -> RunPcs] /\ at \in [Videos -> 1..Len(Renditions) + 1]
    /\ rc \in [Videos -> BOOLEAN]

DeletionTypes ==
    /\ dPc \in [Deletes -> {"new", "next", "scan", "rmdir", "done"}]
    /\ selected \in [Deletes -> SUBSET Videos] /\ todo \in [Deletes -> SUBSET Videos]
    /\ paths \in [Deletes -> SUBSET (Videos \X {"raw", "poster"})]
    /\ current \in [Deletes -> Videos \cup {NoVideo}]
    /\ account \in [Deletes -> Owners \cup {NoOwner}]

HistoryTypes ==
    /\ runs \in [Videos -> 0..MaxRuns] /\ faults \in 0..MaxFaults
    /\ purged \subseteq Videos /\ rerun \subseteq Videos
    /\ excused \subseteq Videos \X Places

\* Every variable stays within its domain.
TypeOK == RowTypes /\ DiskTypes /\ RunTypes /\ DeletionTypes /\ HistoryTypes

\* stream_video() and thumbnail(): the labels of ready rows of a ready video
\* whose file is there, and the poster.
Served(v) == IF status[v] = "ready" THEN ready[v] \cap files[v] ELSE {}
PosterServed(v) == posterPath[v] /\ "poster" \in files[v]

\* No file is left behind for ever, but where it must be expected: of a video
\* that has no row and is not being uploaded, the original stays only if its
\* INSERT never came, it was inserted while its account was being deleted, or
\* the unlink failed; the directory only if a run was at work during the
\* purge, or, again, the account or the disk is to blame.
LeftoversHaveACause ==
    \A v \in Videos : ~Exists(v) =>
        /\ "raw" \in files[v] => uPc[v] = "written" \/ <<v, "raw">> \in excused
        /\ files[v] \ {"raw"} # {} => <<v, "dir">> \in excused

\* A ready row stands for a file that ffmpeg has completed, and thumbnail_path
\* for a poster, until somebody deletes the video or a further run meets
\* ready rows of an earlier one.
RowsStandForFiles ==
    \A v \in Videos \ purged :
        /\ v \notin rerun => ready[v] \subseteq whole[v]
        /\ posterPath[v] => PosterServed(v)

\* No video is lost: while nobody has deleted it, it has its original or a
\* whole rendition, unless a further run met ready rows of an earlier one.
NothingIsLost ==
    \A v \in Videos : Exists(v) /\ v \notin purged \cup rerun =>
        "raw" \in files[v] \/ whole[v] # {}
=============================================================================
