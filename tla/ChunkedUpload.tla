---------------------------- MODULE ChunkedUpload ----------------------------
(***************************************************************************)
(* One chunked upload: the browser of app/static/js/upload.js against      *)
(* upload_chunk() and upload_complete() of app/videos.py.                  *)
(*                                                                         *)
(* The browser sends one chunk after the other and tries a chunk again     *)
(* after a network error or a 5xx, when the request it gave up may still   *)
(* be at work.  The server stages the bytes in a .part file and the list   *)
(* of received chunks in a .meta file, which each request reads, extends   *)
(* and writes in separate steps.                                           *)
(***************************************************************************)
EXTENDS Integers

CONSTANTS
    Total,       \* the chunks of the file
    MaxRetries,  \* MAX_RETRIES of upload.js
    Linger,      \* the chunks whose request may outlive its connection
    Sweepers,    \* requests of other uploads, which remove old staging files
    MaxFaults    \* bound: kills of the server and errors of the disk or database

ASSUME UploadAssumption ==
    /\ Total \in Nat \ {0} /\ MaxRetries \in Nat /\ MaxFaults \in Nat
    /\ Linger \subseteq 0 .. Total - 1

Chunks == 0 .. Total - 1
Requests == Chunks \X (0 .. MaxRetries)

VARIABLES
    \* the browser: what it does, the chunk and the attempt it is at
    cPc, index, attempt,
    \* the requests for chunks: where they are, meta["received"], whether the
    \* file is to be created, and the file that is open
    pc, seen, creates, fd,
    fPc,            \* the request for completion
    sPc,            \* the requests of other uploads: the file they remove next
    \* .part: whether it exists, the chunks whose bytes it has
    staged, part,
    \* .meta: its state, what it lists, and whether it is past its age
    meta, received, old,
    raw, video,     \* the chunks in the file in raw/, and its row
    \* history: a request outlived its connection, the upload lay idle for
    \* STAGING_MAX_AGE_SECONDS, .part was created between the removals of .part
    \* and .meta, completion was asked for during a removal and with a request
    \* for a chunk at work, the faults so far
    late, aged, overtaken, overrun, faults

client == <<cPc, index, attempt>>
requests == <<pc, seen, creates, fd>>
partFile == <<staged, part>>
metaFile == <<meta, received, old>>
library == <<raw, video>>
history == <<late, aged, overtaken, overrun, faults>>
vars == <<client, requests, fPc, sPc, partFile, metaFile, library, history>>

Steps == {"gc", "gcPart", "gcMeta", "read", "look", "open", "data", "metaOpen", "metaWrite"}
FinalSteps == {"read", "check", "probe", "reject", "rejectMeta", "move", "delete",
               "deleteMeta", "insert"}
Current == <<index, attempt>>
InFlight(r) == pc[r] \in Steps
Quiet ==
    /\ fPc \notin FinalSteps
    /\ \A r \in Requests : ~InFlight(r)
    /\ \A s \in Sweepers : sPc[s] = "idle"

\* An old upload is being removed.
Removing ==
    \/ \E r \in Requests : pc[r] \in {"gcPart", "gcMeta"}
    \/ \E s \in Sweepers : sPc[s] # "idle"

\* Someone has removed .part and has yet to remove .meta.
Between ==
    \/ \E r \in Requests : pc[r] = "gcMeta"
    \/ \E s \in Sweepers : sPc[s] = "meta"
    \/ fPc \in {"rejectMeta", "deleteMeta"}

Init ==
    /\ cPc = "send" /\ index = 0 /\ attempt = 0
    /\ pc = [r \in Requests |-> "new"]
    /\ seen = [r \in Requests |-> {}]
    /\ creates = [r \in Requests |-> FALSE]
    /\ fd = [r \in Requests |-> "none"]
    /\ fPc = "idle" /\ sPc = [s \in Sweepers |-> "idle"]
    /\ staged = FALSE /\ part = {}
    /\ meta = "none" /\ received = {} /\ old = FALSE
    /\ raw = {} /\ video = FALSE
    /\ late = FALSE /\ aged = FALSE /\ overtaken = FALSE /\ overrun = FALSE /\ faults = 0

-----------------------------------------------------------------------------
(* The browser. *)

\* doSend()
Send ==
    /\ cPc = "send"
    /\ cPc' = "wait"
    /\ pc' = [pc EXCEPT ![Current] = "gc"]
    /\ UNCHANGED <<index, attempt, seen, creates, fd, fPc, sPc, partFile, metaFile, library,
                   history>>

\* Mutant: sendChunk() compares with > instead of >=.
AnsweredOneMore ==
    /\ cPc = "wait" /\ pc[Current] = "ok"
    /\ cPc' = IF index = Total THEN "complete" ELSE "send"
    /\ index' = IF index = Total THEN index ELSE index + 1
    /\ attempt' = 0
    /\ UNCHANGED <<requests, fPc, sPc, partFile, metaFile, library, history>>

\* sendChunk(i + 1)
Answered ==
    /\ cPc = "wait" /\ pc[Current] = "ok"
    /\ IF index = Total - 1 THEN cPc' = "complete" /\ UNCHANGED index
                            ELSE cPc' = "send" /\ index' = index + 1
    /\ attempt' = 0
    /\ UNCHANGED <<requests, fPc, sPc, partFile, metaFile, library, history>>

TryAgain ==
    /\ cPc' = IF attempt < MaxRetries THEN "send" ELSE "failed"
    /\ attempt' = IF attempt < MaxRetries THEN attempt + 1 ELSE attempt
    /\ UNCHANGED index

\* xhr.onload with a 5xx
Refused ==
    /\ cPc = "wait" /\ pc[Current] = "error"
    /\ TryAgain
    /\ UNCHANGED <<requests, fPc, sPc, partFile, metaFile, library, history>>

\* xhr.onerror: the request is lost on its way, or its answer is ...
ConnectionLost ==
    /\ cPc = "wait" /\ pc[Current] \in {"gc", "ok"}
    /\ pc' = [pc EXCEPT ![Current] = "over"]
    /\ TryAgain
    /\ UNCHANGED <<seen, creates, fd, fPc, sPc, partFile, metaFile, library, history>>

\* ... or it goes on without the browser.
Outlived ==
    /\ cPc = "wait" /\ InFlight(Current) /\ index \in Linger
    /\ TryAgain
    /\ late' = TRUE
    /\ UNCHANGED <<requests, fPc, sPc, partFile, metaFile, library, aged, overtaken, overrun,
                   faults>>

\* complete(), which is not tried again.
Complete ==
    /\ cPc = "complete"
    /\ cPc' = "finishing"
    /\ fPc' = "read"
    /\ overrun' = (overrun \/ (Removing /\ \E r \in Requests : InFlight(r)))
    /\ UNCHANGED <<index, attempt, requests, sPc, partFile, metaFile, library, late, aged,
                   overtaken, faults>>

\* Its answer, or a network error.
Completed ==
    /\ cPc = "finishing"
    /\ cPc' \in (IF fPc = "ok" THEN {"done", "failed"} ELSE {"failed"})
    /\ UNCHANGED <<index, attempt, requests, fPc, sPc, partFile, metaFile, library, history>>

-----------------------------------------------------------------------------
(* The staging files. *)

\* An open file that is removed is written in vain.
Unlinked(step, file) ==
    [r \in Requests |-> IF pc[r] = step /\ fd[r] = file THEN "lost" ELSE fd[r]]

\* Mutant: the bytes are left behind.
LeavePart == UNCHANGED <<fd, partFile, metaFile>>

\* The first half of _delete_staging(), and of the removal of an old upload ...
UnlinkPart ==
    /\ staged' = FALSE /\ part' = {}
    /\ fd' = Unlinked("data", "part")
    /\ UNCHANGED metaFile

\* ... and the second half.
UnlinkMeta ==
    /\ meta' = "none" /\ received' = {} /\ old' = FALSE
    /\ fd' = Unlinked("metaWrite", "meta")
    /\ UNCHANGED partFile

\* The upload lies idle for longer than STAGING_MAX_AGE_SECONDS; no request
\* takes that long.
Age ==
    /\ meta # "none" /\ ~old /\ Quiet
    /\ old' = TRUE /\ aged' = TRUE
    /\ UNCHANGED <<client, requests, fPc, sPc, partFile, meta, received, library, late,
                   overtaken, overrun, faults>>

-----------------------------------------------------------------------------
(* _cleanup_staging() by a request of another upload, in a thread of its own. *)

SGoto(s, where) == sPc' = [sPc EXCEPT ![s] = where]

SweepLook(s) ==
    /\ sPc[s] = "idle" /\ old
    /\ SGoto(s, "part")
    /\ UNCHANGED <<client, requests, fPc, partFile, metaFile, library, history>>

SweepPart(s) ==
    /\ sPc[s] = "part"
    /\ SGoto(s, "meta")
    /\ UnlinkPart
    /\ UNCHANGED <<client, pc, seen, creates, fPc, library, history>>

SweepMeta(s) ==
    /\ sPc[s] = "meta"
    /\ SGoto(s, "idle")
    /\ UnlinkMeta
    /\ UNCHANGED <<client, pc, seen, creates, fPc, library, history>>

Sweep(s) == SweepLook(s) \/ SweepPart(s) \/ SweepMeta(s)

-----------------------------------------------------------------------------
(* upload_chunk() *)

Goto(r, where) == pc' = [pc EXCEPT ![r] = where]
Close(r) == fd' = [fd EXCEPT ![r] = "none"]

\* _cleanup_staging(), as far as it meets this upload: its age ...
CleanupLook(r) ==
    /\ pc[r] = "gc"
    /\ Goto(r, IF old THEN "gcPart" ELSE "read")
    /\ UNCHANGED <<client, seen, creates, fd, fPc, sPc, partFile, metaFile, library, history>>

\* ... and its files.
CleanupPart(r) ==
    /\ pc[r] = "gcPart"
    /\ Goto(r, "gcMeta")
    /\ UnlinkPart
    /\ UNCHANGED <<client, seen, creates, fPc, sPc, library, history>>

CleanupMeta(r) ==
    /\ pc[r] = "gcMeta"
    /\ Goto(r, "read")
    /\ UnlinkMeta
    /\ UNCHANGED <<client, seen, creates, fPc, sPc, library, history>>

\* Mutant: every request starts a new list.
ReadNothing(r) ==
    /\ pc[r] = "read"
    /\ Goto(r, "look")
    /\ seen' = [seen EXCEPT ![r] = {}]
    /\ UNCHANGED <<client, creates, fd, fPc, sPc, partFile, metaFile, library, history>>

\* _read_meta(): a file that is missing, or does not parse, lists nothing.
ReadMeta(r) ==
    /\ pc[r] = "read"
    /\ Goto(r, "look")
    /\ seen' = [seen EXCEPT ![r] = received]
    /\ UNCHANGED <<client, creates, fd, fPc, sPc, partFile, metaFile, library, history>>

\* _write_chunk_at(): exists() ...
Look(r) ==
    /\ pc[r] = "look"
    /\ Goto(r, "open")
    /\ creates' = [creates EXCEPT ![r] = ~staged]
    /\ UNCHANGED <<client, seen, fd, fPc, sPc, partFile, metaFile, library, history>>

\* ... open(), which with "w+b" empties a file that has come up meanwhile, and
\* with "r+b" raises if it has gone ...
Open(r) ==
    /\ pc[r] = "open"
    /\ IF creates[r] \/ staged
         THEN /\ Goto(r, "data")
              /\ fd' = [fd EXCEPT ![r] = "part"]
              /\ staged' = TRUE
              /\ part' = IF creates[r] THEN {} ELSE part
              /\ overtaken' = (overtaken \/ (creates[r] /\ Between))
         ELSE /\ Goto(r, "error")
              /\ UNCHANGED <<fd, partFile, overtaken>>
    /\ UNCHANGED <<client, seen, creates, fPc, sPc, metaFile, library, late, aged, overrun,
                   faults>>

\* Mutant: the offset is taken from the length of the chunk at hand, and the
\* last, shorter chunk misses its place.
WriteAtOwnLength(r) ==
    /\ pc[r] = "data"
    /\ Goto(r, "metaOpen")
    /\ part' = IF fd[r] = "part" /\ r[1] < Total - 1 THEN part \cup {r[1]} ELSE part
    /\ raw' = IF fd[r] = "raw" THEN raw \cup {r[1]} ELSE raw
    /\ Close(r)
    /\ UNCHANGED <<client, seen, creates, fPc, sPc, staged, metaFile, video, history>>

\* ... and write(), into whatever has become of the file.
WriteData(r) ==
    /\ pc[r] = "data"
    /\ Goto(r, "metaOpen")
    /\ part' = IF fd[r] = "part" THEN part \cup {r[1]} ELSE part
    /\ raw' = IF fd[r] = "raw" THEN raw \cup {r[1]} ELSE raw
    /\ Close(r)
    /\ UNCHANGED <<client, seen, creates, fPc, sPc, staged, metaFile, video, history>>

\* _write_meta(): write_text() empties the file ...
OpenMeta(r) ==
    /\ pc[r] = "metaOpen"
    /\ Goto(r, "metaWrite")
    /\ seen' = [seen EXCEPT ![r] = @ \cup {r[1]}]
    /\ fd' = [fd EXCEPT ![r] = "meta"]
    /\ meta' = "empty" /\ received' = {} /\ old' = FALSE
    /\ UNCHANGED <<client, creates, fPc, sPc, partFile, library, history>>

\* ... and writes at its start.  Over the text of another request, a shorter
\* list leaves the end of a longer one behind it.
WriteMeta(r) ==
    /\ pc[r] = "metaWrite"
    /\ Goto(r, "ok")
    /\ \/ /\ fd[r] = "meta"
          /\ meta' = "listed" /\ received' = seen[r]
       \/ /\ fd[r] = "meta" /\ meta \in {"listed", "garbled"}
          /\ meta' = "garbled" /\ received' = {}
       \/ /\ fd[r] = "lost"
          /\ UNCHANGED <<meta, received>>
    /\ Close(r)
    /\ seen' = [seen EXCEPT ![r] = {}] /\ creates' = [creates EXCEPT ![r] = FALSE]
    /\ UNCHANGED <<client, fPc, sPc, partFile, old, library, history>>

UploadChunk(r) ==
    \/ CleanupLook(r) \/ CleanupPart(r) \/ CleanupMeta(r) \/ ReadMeta(r) \/ Look(r)
    \/ Open(r) \/ WriteData(r) \/ OpenMeta(r) \/ WriteMeta(r)

-----------------------------------------------------------------------------
(* upload_complete() *)

FGoto(where) == fPc' = where

FinalRead ==
    /\ fPc = "read"
    /\ FGoto(IF received = Chunks THEN "check" ELSE "incomplete")
    /\ UNCHANGED <<client, requests, sPc, partFile, metaFile, library, history>>

\* The file is there; its first bytes are those of a video, or not.
FinalCheck ==
    /\ fPc = "check"
    /\ \/ ~staged /\ FGoto("incomplete")
       \/ staged /\ 0 \in part /\ FGoto("probe")
       \/ staged /\ FGoto("reject")
    /\ UNCHANGED <<client, requests, sPc, partFile, metaFile, library, history>>

\* _probe_height()
FinalProbe ==
    /\ fPc = "probe"
    /\ FGoto("move") \/ FGoto("reject")
    /\ UNCHANGED <<client, requests, sPc, partFile, metaFile, library, history>>

\* _delete_staging(), before the upload is refused ...
FinalReject ==
    /\ \/ fPc = "reject" /\ FGoto("rejectMeta") /\ UnlinkPart
       \/ fPc = "rejectMeta" /\ FGoto("error") /\ UnlinkMeta
    /\ UNCHANGED <<client, pc, seen, creates, sPc, library, history>>

\* shutil.move(); a file that is being written is written on under its new name.
FinalMove ==
    /\ fPc = "move"
    /\ IF staged
         THEN /\ FGoto("delete")
              /\ raw' = part
              /\ staged' = FALSE /\ part' = {}
              /\ fd' = [r \in Requests |->
                          IF pc[r] = "data" /\ fd[r] = "part" THEN "raw" ELSE fd[r]]
         ELSE FGoto("error") /\ UNCHANGED <<raw, partFile, fd>>
    /\ UNCHANGED <<client, pc, seen, creates, sPc, metaFile, video, history>>

\* ... and once its bytes have moved.
FinalDelete ==
    /\ \/ fPc = "delete" /\ FGoto("deleteMeta") /\ UnlinkPart
       \/ fPc = "deleteMeta" /\ FGoto("insert") /\ UnlinkMeta
    /\ UNCHANGED <<client, pc, seen, creates, sPc, library, history>>

\* The row is committed; jobs.enqueue() follows (TranscodeQueue).
FinalInsert ==
    /\ fPc = "insert"
    /\ FGoto("ok")
    /\ video' = TRUE
    /\ UNCHANGED <<client, requests, sPc, partFile, metaFile, raw, history>>

UploadComplete ==
    \/ FinalRead \/ FinalCheck \/ FinalProbe \/ FinalReject \/ FinalMove \/ FinalDelete
    \/ FinalInsert

-----------------------------------------------------------------------------
(* Faults: the server is killed, or one request meets an error of the disk or   *)
(* the database.                                                               *)

Fault == faults < MaxFaults /\ faults' = faults + 1

Kill ==
    /\ Fault /\ ~Quiet
    /\ pc' = [r \in Requests |-> IF InFlight(r) THEN "error" ELSE pc[r]]
    /\ fPc' = IF fPc \in FinalSteps THEN "error" ELSE fPc
    /\ sPc' = [s \in Sweepers |-> "idle"]
    /\ UNCHANGED <<client, seen, creates, fd, partFile, metaFile, library, late, aged,
                   overtaken, overrun>>

\* _cleanup_staging() goes on after an error, a list that cannot be read is
\* taken for none, and any other error is the answer.
Fail(r) ==
    /\ Fault
    /\ \/ pc[r] \in {"gc", "gcPart", "gcMeta"} /\ Goto(r, "read") /\ UNCHANGED seen
       \/ pc[r] = "read" /\ Goto(r, "look") /\ seen' = [seen EXCEPT ![r] = {}]
       \/ /\ pc[r] \in {"look", "open", "data", "metaOpen", "metaWrite"}
          /\ Goto(r, "error") /\ UNCHANGED seen
    /\ UNCHANGED <<client, creates, fd, fPc, sPc, partFile, metaFile, library, late, aged,
                   overtaken, overrun>>

SweepFail(s) ==
    /\ Fault
    /\ sPc[s] # "idle" /\ SGoto(s, "idle")
    /\ UNCHANGED <<client, requests, fPc, partFile, metaFile, library, late, aged, overtaken,
                   overrun>>

FinalFail ==
    /\ Fault
    /\ fPc \in FinalSteps /\ FGoto(IF fPc = "read" THEN "incomplete" ELSE "error")
    /\ UNCHANGED <<client, requests, sPc, partFile, metaFile, library, late, aged, overtaken,
                   overrun>>

-----------------------------------------------------------------------------
Browser == Send \/ Answered \/ Refused \/ ConnectionLost \/ Outlived \/ Complete \/ Completed

Next ==
    \/ Browser \/ Age \/ UploadComplete \/ Kill \/ FinalFail
    \/ \E r \in Requests : UploadChunk(r) \/ Fail(r)
    \/ \E s \in Sweepers : Sweep(s) \/ SweepFail(s)

Spec == Init /\ [][Next]_vars

-----------------------------------------------------------------------------
\* Every variable stays within its domain.
TypeOK ==
    /\ cPc \in {"send", "wait", "complete", "finishing", "done", "failed"}
    /\ index \in Chunks /\ attempt \in 0..MaxRetries
    /\ pc \in [Requests -> Steps \cup {"new", "ok", "error", "over"}]
    /\ seen \in [Requests -> SUBSET Chunks]
    /\ creates \in [Requests -> BOOLEAN]
    /\ fd \in [Requests -> {"none", "part", "raw", "meta", "lost"}]
    /\ fPc \in FinalSteps \cup {"idle", "ok", "incomplete", "error"}
    /\ sPc \in [Sweepers -> {"idle", "part", "meta"}]
    /\ staged \in BOOLEAN /\ part \in SUBSET Chunks
    /\ meta \in {"none", "empty", "garbled", "listed"} /\ received \in SUBSET Chunks
    /\ old \in BOOLEAN /\ raw \in SUBSET Chunks /\ video \in BOOLEAN
    /\ late \in BOOLEAN /\ aged \in BOOLEAN /\ overtaken \in BOOLEAN /\ overrun \in BOOLEAN
    /\ faults \in 0..MaxFaults

\* A video is made of every chunk of its file, although no step compares what was
\* assembled with what was sent: retries, late requests, kills and the removal of
\* old uploads may end an upload but not leave a hole in it.  Only a removal that
\* lasts until completion is asked for, beside a request that is late, may do so:
\* it takes .part away after the checks, and the late request creates it again.
VideoIsWhole == video => raw = Chunks \/ overrun

\* A .part file without the .meta file by which _cleanup_staging() would find it
\* belongs to a request at work, or is left from a fault, or was created by a
\* request that came between the removal of .part and that of .meta: .part is
\* removed first, so that the removal itself never leaves it alone.
StagingIsSeen ==
    staged /\ meta = "none" =>
        \/ faults > 0 \/ overtaken
        \/ \E r \in Requests : pc[r] \in {"data", "metaOpen"}

\* An upload whose chunks were all acknowledged is refused as incomplete only after
\* a request outlived its connection, six idle hours, or a fault: lost requests
\* and lost answers alone never cost the upload.
RefusalHasACause == fPc = "incomplete" => late \/ aged \/ faults > 0
=============================================================================
