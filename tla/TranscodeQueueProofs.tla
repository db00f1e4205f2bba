------------------------ MODULE TranscodeQueueProofs ------------------------
(***************************************************************************)
(* Theorems about TranscodeQueue for every number of processes, workers,   *)
(* videos, jobs, attempts and crashes: type correctness and who may decide *)
(* over a running row, whatever renewals are missed; and, when workers     *)
(* renew their leases in time, the exclusive use of a job by one live      *)
(* worker, the finality of outcomes and the refinement of JobBoard.        *)
(***************************************************************************)
EXTENDS TranscodeQueue, TLAPS, FiniteSetTheorems

USE DEF JobIds, NoJob

-----------------------------------------------------------------------------
(* Type correctness. *)

\* Arithmetic on the intervals the counters live in.
LEMMA Intervals ==
  /\ 0 \in 0..Lease /\ Lease \in 0..Lease
  /\ \A n \in 0..Lease : n > 0 => n - 1 \in 0..Lease
  /\ 0 \in 0..MaxGap
  /\ \A n \in 0..MaxGap : n < MaxGap => n + 1 \in 0..MaxGap
  /\ 0 \in 0..Renditions /\ Renditions \in 0..Renditions
  /\ \A n \in 0..Renditions : n > 0 => n - 1 \in 0..Renditions
  BY LimitAssumption

LEMMA TypeInit == Init => TypeOK
  BY LimitAssumption
     DEF Init, TypeOK, JobTypes, VideoTypes, LocalTypes, ControlTypes,
         RequestTypes, BoundTypes, JobStatus, VideoStatus, Pcs

\* A part of the state that does not change keeps its type.
LEMMA TypeUnchanged ==
  ASSUME TypeOK
  PROVE  /\ UNCHANGED jobVars => JobTypes'
         /\ UNCHANGED videoVars => VideoTypes'
         /\ UNCHANGED localVars => LocalTypes'
         /\ UNCHANGED requestVars => RequestTypes'
         /\ UNCHANGED boundVars => BoundTypes'
  BY DEF TypeOK, JobTypes, VideoTypes, LocalTypes, RequestTypes, BoundTypes, jobVars,
         videoVars, localVars, requestVars, retryVars, deleteVars, boundVars

LEMMA TypeEnqueue ==
  ASSUME JobTypes, NEW v \in Videos \cup {NoVideo}, Enqueue(v)
  PROVE  JobTypes'
  BY LimitAssumption DEF Enqueue, JobTypes, JobStatus

LEMMA TypeFinishJob ==
  ASSUME JobTypes, NEW w \in Workers, NEW s \in JobStatus, FinishJob(w, s)
  PROVE  JobTypes'
<1>1. CASE MayWrite(w)
  BY <1>1, Intervals DEF FinishJob, JobTypes
<1>2. CASE ~MayWrite(w)
  BY <1>2 DEF FinishJob, JobTypes, jobVars
<1> QED
  BY <1>1, <1>2

LEMMA TypeGoto ==
  ASSUME ControlTypes, NEW w \in Workers, NEW s \in Pcs, Goto(w, s), UNCHANGED up
  PROVE  ControlTypes'
  BY DEF Goto, ControlTypes

LEMMA TypeReturn ==
  ASSUME ControlTypes, LocalTypes, NEW w \in Workers, Return(w), UNCHANGED up
  PROVE  ControlTypes' /\ LocalTypes'
  BY LimitAssumption DEF Return, Goto, ControlTypes, LocalTypes, Pcs

\* An UPDATE of one video's status, whether or not its row exists.
LEMMA TypeVideoStatus ==
  ASSUME VideoTypes, NEW v, NEW s \in VideoStatus, SetVideoStatus(v, s),
         UNCHANGED <<rawPath, hasReady, announced, rawFile>>
  PROVE  VideoTypes'
  BY DEF SetVideoStatus, VideoTypes

LEMMA TypeRequest == TypeOK /\ RequestStep => TypeOK'
<1> SUFFICES ASSUME TypeOK, RequestStep PROVE TypeOK'
  OBVIOUS
<1> USE LimitAssumption DEF TypeOK, JobTypes, VideoTypes, LocalTypes, ControlTypes,
        RequestTypes, BoundTypes, JobStatus, VideoStatus, jobVars, videoVars, localVars,
        workerVars, retryVars, deleteVars, requestVars, boundVars
<1>1. CASE \E p \in Procs, v \in Videos : InsertVideo(p, v)
  BY <1>1 DEF InsertVideo
<1>2. CASE \E v \in Videos : EnqueueUpload(v)
  <2> PICK v \in Videos : EnqueueUpload(v)
    BY <1>2
  <2>1. CASE Exists(v)
    BY <2>1, TypeEnqueue DEF EnqueueUpload
  <2>2. CASE ~Exists(v)
    BY <2>2 DEF EnqueueUpload
  <2> QED
    BY <2>1, <2>2
<1>3. CASE \E r \in Retries, p \in Procs, v \in Videos : RetryCheck(r, p, v)
  BY <1>3 DEF RetryCheck
<1>4. CASE \E r \in Retries : RetryCommit(r)
  <2> PICK r \in Retries : RetryCommit(r)
    BY <1>4
  <2>1. CASE Exists(rVideo[r])
    <3>1. rowsLive' = [w \in Workers |->
                rowsLive[w] /\ (job[w] # 0 => VideoOf(w) # rVideo[r])]
      BY <2>1 DEF RetryCommit
    <3>2. rowsLive' \in [Workers -> BOOLEAN]
      BY <3>1, Zenon
    <3>3. vStatus' \in [Videos -> VideoStatus]
      BY <2>1 DEF RetryCommit
    <3>4. hasReady' \in [Videos -> BOOLEAN]
      <4>1. hasReady' = [hasReady EXCEPT ![rVideo[r]] = FALSE]
        BY <2>1 DEF RetryCommit
      <4>2. hasReady \in [Videos -> BOOLEAN]
        OBVIOUS
      <4> QED
        BY <4>1, <4>2, Zenon
    <3>5. rPc' \in [Retries -> {"new", "checked", "done"}]
      BY DEF RetryCommit
    <3>6. Enqueue(rVideo[r])
      BY <2>1 DEF RetryCommit
    <3> QED
      BY <3>2, <3>3, <3>4, <3>5, <3>6, TypeEnqueue DEF RetryCommit
  <2>2. CASE ~Exists(rVideo[r])
    BY <2>2 DEF RetryCommit
  <2> QED
    BY <2>1, <2>2
<1>5. CASE \E d \in Deletes, p \in Procs, v \in Videos : DeletePurge(d, p, v)
  <2> PICK d \in Deletes, p \in Procs, v \in Videos : DeletePurge(d, p, v)
    BY <1>5
  <2>1. rawFile' \in [Videos -> BOOLEAN]
    <3>1. rawFile' = [rawFile EXCEPT ![v] = rawFile[v] /\ ~rawPath[v]]
      BY DEF DeletePurge
    <3>2. rawFile \in [Videos -> BOOLEAN]
      OBVIOUS
    <3> QED
      BY <3>1, <3>2, Zenon
  <2>2. /\ dPc' \in [Deletes -> {"new", "purged", "done"}]
        /\ dVideo' = [dVideo EXCEPT ![d] = v] /\ dProc' = [dProc EXCEPT ![d] = p]
        /\ UNCHANGED <<vStatus, rawPath, hasReady, announced, jobVars, workerVars,
                       uploader, retryVars, boundVars>>
    BY DEF DeletePurge
  <2> QED
    BY <2>1, <2>2
<1>6. CASE \E d \in Deletes : DeleteRow(d)
  <2> PICK d \in Deletes : DeleteRow(d)
    BY <1>6
  <2>1. /\ jStatus' \in [JobIds -> JobStatus]
        /\ owner' \in [JobIds -> Procs \cup {Nobody, Dead}]
        /\ lease' \in [JobIds -> 0..Lease]
    BY DEF DeleteRow
  <2>2. /\ vStatus' \in [Videos -> VideoStatus]
        /\ hasReady' \in [Videos -> BOOLEAN] /\ rawPath' \in [Videos -> BOOLEAN]
        /\ dPc' \in [Deletes -> {"new", "purged", "done"}]
    BY DEF DeleteRow
  <2> QED
    BY <2>1, <2>2 DEF DeleteRow
<1> QED
  BY <1>1, <1>2, <1>3, <1>4, <1>5, <1>6 DEF RequestStep

LEMMA TypeProcess ==
  ASSUME TypeOK, NEW p \in Procs, Start(p) \/ Crash(p) PROVE TypeOK'
<1> USE LimitAssumption, ProcAssumption
    DEF TypeOK, JobTypes, VideoTypes, LocalTypes, ControlTypes, RequestTypes,
        BoundTypes, JobStatus, VideoStatus, Pcs, jobVars, videoVars, localVars,
        workerVars, retryVars, deleteVars, requestVars, boundVars
<1>1. CASE Start(p)
  <2> PICK last \in (nextJob - 1)..MaxJobs :
         \E f \in Numberings(nextJob..last, Orphans) : Recover(nextJob..last, f, last)
    BY <1>1 DEF Start, RequeueOrphans
  <2>1. PICK f \in Numberings(nextJob..last, Orphans) : Recover(nextJob..last, f, last)
    OBVIOUS
  <2>2. \A j \in nextJob..last : f[j] \in Videos
    BY DEF Numberings, Orphans
  <2>3. jVideo' \in [JobIds -> Videos \cup {NoVideo}]
    BY <2>1, <2>2 DEF Recover
  <2>4. jStatus' \in [JobIds -> JobStatus] /\ nextJob' \in 1..(MaxJobs + 1)
    BY <2>1 DEF Recover
  <2>5. owner' \in [JobIds -> Procs \cup {Nobody, Dead}]
    BY <2>1 DEF Recover
  <2>6. pc' \in [Workers -> Pcs] /\ up' \in [Procs -> BOOLEAN]
    BY <1>1 DEF Start
  <2> QED
    BY <1>1, <2>1, <2>3, <2>4, <2>5, <2>6 DEF Start, Recover
<1>2. CASE Crash(p)
  <2>1. /\ up' \in [Procs -> BOOLEAN] /\ pc' \in [Workers -> Pcs]
        /\ job' \in [Workers -> JobIds \cup {NoJob}] /\ tries' \in [Workers -> Nat]
        /\ beat' \in [Workers -> 0..MaxGap] /\ left' \in [Workers -> 0..Renditions]
    BY <1>2 DEF Crash
  <2>2. rowsLive' \in [Workers -> BOOLEAN] /\ opened' \in [Workers -> BOOLEAN]
    BY <1>2 DEF Crash
  <2>3. /\ owner' \in [JobIds -> Procs \cup {Nobody, Dead}]
        /\ uploader' \in [Videos -> Procs \cup {Nobody}]
    BY <1>2 DEF Crash
  <2>4. /\ rPc' \in [Retries -> {"new", "checked", "done"}]
        /\ dPc' \in [Deletes -> {"new", "purged", "done"}]
        /\ crashes' \in 0..MaxCrashes
    BY <1>2 DEF Crash
  <2> QED
    BY <1>2, <2>1, <2>2, <2>3, <2>4 DEF Crash
<1> QED
  BY <1>1, <1>2

LEMMA TypeOutcome ==
  ASSUME TypeOK, NEW w \in Workers, Outcome(w) PROVE TypeOK'
<1> USE DEF TypeOK, Pcs, HeldPcs, TranscodePcs, JobStatus, VideoStatus
<1>1. CASE LoadVideo(w)
  BY <1>1, TypeUnchanged, TypeGoto DEF LoadVideo
<1>2. CASE FinishGone(w)
  BY <1>2, TypeUnchanged, TypeFinishJob, TypeReturn DEF FinishGone
<1>3. CASE FinishNoRaw(w)
  BY <1>3, TypeUnchanged, TypeFinishJob, TypeGoto DEF FinishNoRaw
<1>4. CASE MarkFailed(w)
  BY <1>4, TypeUnchanged, TypeVideoStatus, TypeReturn DEF MarkFailed
<1>5. CASE ReadVerdict(w)
  BY <1>5, TypeUnchanged, TypeGoto DEF ReadVerdict
<1>6. CASE FinishDone(w)
  BY <1>6, TypeUnchanged, TypeFinishJob, TypeGoto DEF FinishDone
<1>7. CASE Notify(w)
  <2>1. VideoTypes'
    BY <1>7 DEF Notify, VideoTypes
  <2> QED
    BY <1>7, <2>1, TypeUnchanged, TypeReturn DEF Notify
<1>8. CASE RequeueJob(w)
  <2>1. JobTypes'
    BY <1>8, Intervals DEF RequeueJob, JobTypes
  <2>2. VideoTypes'
    BY <1>8, TypeVideoStatus DEF RequeueJob, VideoTypes
  <2> QED
    BY <1>8, <2>1, <2>2, TypeUnchanged, TypeReturn DEF RequeueJob
<1>9. CASE GiveUp(w)
  <2>1. ControlTypes' /\ LocalTypes'
    BY <1>9, TypeUnchanged, TypeGoto, TypeReturn DEF GiveUp
  <2> QED
    BY <1>9, <2>1, TypeUnchanged, TypeFinishJob DEF GiveUp
<1> QED
  BY <1>1, <1>2, <1>3, <1>4, <1>5, <1>6, <1>7, <1>8, <1>9 DEF Outcome

\* A task inside transcode_video() works on a video that has had a row.
LEMMA BusyOnVideo ==
  ASSUME RowsConsistent, NEW w \in Workers, pc[w] \in HeldPcs
  PROVE  VideoOf(w) \in Videos
  BY DEF RowsConsistent, VideoOf

LEMMA TypeTranscode ==
  ASSUME TypeOK, RowsConsistent, NEW w \in Workers, Transcode(w) PROVE TypeOK'
<1> USE DEF TypeOK, Pcs, HeldPcs, TranscodePcs, JobStatus, VideoStatus
<1>1. CASE Probe(w)
  BY <1>1, TypeUnchanged, TypeVideoStatus, TypeGoto DEF Probe
<1>2. CASE ServeOriginal(w)
  <2>1. VideoTypes'
    BY <1>2 DEF ServeOriginal, VideoTypes
  <2> QED
    BY <1>2, <2>1, TypeUnchanged, TypeGoto DEF ServeOriginal
<1>3. CASE InsertRenditions(w)
  <2>1. rowsLive' \in [Workers -> BOOLEAN]
    BY <1>3 DEF InsertRenditions, LocalTypes
  <2>2. rawFile[VideoOf(w)] \in BOOLEAN
    BY <1>3, BusyOnVideo DEF InsertRenditions, VideoTypes
  <2>3. opened' \in [Workers -> BOOLEAN]
    BY <1>3, <2>2 DEF InsertRenditions, LocalTypes
  <2>4. LocalTypes'
    BY <1>3, <2>1, <2>3, Intervals DEF InsertRenditions, LocalTypes
  <2> QED
    BY <1>3, <2>4, TypeUnchanged, TypeGoto DEF InsertRenditions
<1>4. CASE EncodeOne(w)
  <2>1. VideoTypes'
    BY <1>4 DEF EncodeOne, VideoTypes
  <2>2. rawFile[VideoOf(w)] \in BOOLEAN
    BY <1>4, BusyOnVideo DEF EncodeOne, VideoTypes
  <2>3. opened' \in [Workers -> BOOLEAN]
    BY <1>4, <2>2 DEF EncodeOne, LocalTypes
  <2>4. left' \in [Workers -> 0..Renditions]
    BY <1>4, Intervals DEF EncodeOne, LocalTypes
  <2>5. LocalTypes'
    BY <1>4, <2>3, <2>4 DEF EncodeOne, LocalTypes
  <2> QED
    BY <1>4, <2>1, <2>5, TypeUnchanged DEF EncodeOne, ControlTypes
<1>5. CASE CountReady(w)
  BY <1>5, TypeUnchanged, TypeGoto DEF CountReady
<1>6. CASE SetReady(w)
  BY <1>6, TypeUnchanged, TypeVideoStatus, TypeGoto DEF SetReady
<1>7. CASE SetFailed(w)
  BY <1>7, TypeUnchanged, TypeVideoStatus, TypeGoto DEF SetFailed
<1>8. CASE UnlinkRaw(w)
  <2>1. VideoTypes'
    BY <1>8 DEF UnlinkRaw, VideoTypes
  <2>2. ControlTypes'
    BY <1>8, TypeGoto DEF UnlinkRaw
  <2> QED
    BY <1>8, <2>1, <2>2, TypeUnchanged DEF UnlinkRaw
<1>9. CASE NullRaw(w)
  <2>1. VideoTypes'
    BY <1>9 DEF NullRaw, VideoTypes
  <2> QED
    BY <1>9, <2>1, TypeUnchanged, TypeGoto DEF NullRaw
<1>10. CASE Raise(w)
  BY <1>10, TypeUnchanged, TypeGoto DEF Raise
<1> QED
  BY <1>1, <1>2, <1>3, <1>4, <1>5, <1>6, <1>7, <1>8, <1>9, <1>10 DEF Transcode

LEMMA TypeLease ==
  ASSUME TypeOK, RowsConsistent,
         Tick \/ \E w \in Workers : ClaimSelect(w) \/ ClaimUpdate(w)
                                      \/ WorkerDies(w) \/ Heartbeat(w)
  PROVE  TypeOK'
<1> USE DEF TypeOK, Pcs, HeldPcs, TranscodePcs
<1>1. CASE Tick
  <2>1. JobTypes' /\ LocalTypes'
    BY <1>1, Intervals DEF Tick, JobTypes, LocalTypes
  <2> QED
    BY <1>1, <2>1, TypeUnchanged DEF Tick, ControlTypes
<1>2. ASSUME NEW w \in Workers, ClaimSelect(w) PROVE TypeOK'
  <2>1. PICK j \in Queued : /\ job' = [job EXCEPT ![w] = j]
                            /\ tries' = [tries EXCEPT ![w] = attempts[j] + 1]
    BY <1>2 DEF ClaimSelect
  <2>2. j \in JobIds /\ attempts[j] + 1 \in Nat
    BY <2>1 DEF Queued, JobTypes
  <2>3. LocalTypes'
    BY <1>2, <2>1, <2>2 DEF ClaimSelect, LocalTypes
  <2> QED
    BY <1>2, <2>3, TypeUnchanged, TypeGoto DEF ClaimSelect
<1>3. ASSUME NEW w \in Workers, ClaimUpdate(w) PROVE TypeOK'
  <2>1. JobTypes'
    <3>1. CASE jStatus[job[w]] = "queued"
      <4>1. /\ jStatus' = [jStatus EXCEPT ![job[w]] = "running"]
            /\ attempts' = [attempts EXCEPT ![job[w]] = @ + 1]
            /\ owner' = [owner EXCEPT ![job[w]] = ProcOf[w]]
            /\ lease' = [lease EXCEPT ![job[w]] = Lease]
            /\ UNCHANGED <<jVideo, nextJob>>
        BY <1>3, <3>1 DEF ClaimUpdate, StillQueued
      <4>2. ProcOf[w] \in Procs
        BY ProcAssumption
      <4>3. jStatus' \in [JobIds -> JobStatus]
        BY <4>1 DEF JobTypes, JobStatus
      <4>6. attempts[job[w]] + 1 \in Nat
        BY <1>3 DEF ClaimUpdate, StillQueued, RowsConsistent, JobTypes
      <4>7. attempts' \in [JobIds -> Nat]
        BY <4>1, <4>6 DEF JobTypes
      <4>4. owner' \in [JobIds -> Procs \cup {Nobody, Dead}]
        BY <4>1, <4>2 DEF JobTypes
      <4>5. lease' \in [JobIds -> 0..Lease]
        BY <4>1, Intervals DEF JobTypes
      <4> QED
        BY <4>1, <4>3, <4>4, <4>5, <4>7 DEF JobTypes
    <3>2. CASE jStatus[job[w]] # "queued"
      BY <1>3, <3>2 DEF ClaimUpdate, StillQueued, JobTypes
    <3> QED
      BY <3>1, <3>2
  <2>2. LocalTypes' /\ ControlTypes'
    <3>1. CASE jStatus[job[w]] = "queued"
      BY <1>3, <3>1, TypeGoto, LimitAssumption DEF ClaimUpdate, StillQueued, LocalTypes
    <3>2. CASE jStatus[job[w]] # "queued"
      BY <1>3, <3>2, TypeReturn DEF ClaimUpdate, StillQueued
    <3> QED
      BY <3>1, <3>2
  <2> QED
    BY <1>3, <2>1, <2>2, TypeUnchanged DEF ClaimUpdate, StillQueued
<1>4. ASSUME NEW w \in Workers, WorkerDies(w) PROVE TypeOK'
  <2>1. BoundTypes'
    BY <1>4, LimitAssumption DEF WorkerDies, BoundTypes
  <2> QED
    BY <1>4, <2>1, TypeUnchanged, TypeGoto DEF WorkerDies
<1>5. ASSUME NEW w \in Workers, Heartbeat(w) PROVE TypeOK'
  <2>1. JobTypes' /\ LocalTypes'
    BY <1>5, Intervals DEF Heartbeat, JobTypes, LocalTypes
  <2> QED
    BY <1>5, <2>1, TypeUnchanged DEF Heartbeat, ControlTypes
<1> QED
  BY <1>1, <1>2, <1>3, <1>4, <1>5

LEMMA TypeStep == TypeOK /\ RowsConsistent /\ [Next]_vars => TypeOK'
<1> SUFFICES ASSUME TypeOK, RowsConsistent, [Next]_vars PROVE TypeOK'
  OBVIOUS
<1>1. CASE Next
  BY <1>1, TypeRequest, TypeProcess, TypeOutcome, TypeTranscode, TypeLease
     DEF Next, WorkerStep
<1>2. CASE UNCHANGED vars
  BY <1>2, TypeUnchanged DEF TypeOK, ControlTypes, vars, workerVars
<1> QED
  BY <1>1, <1>2

-----------------------------------------------------------------------------
(* Rows, tasks and requests refer to each other consistently. *)

LEMMA RowsInit == Init => RowsConsistent
  BY ProcAssumption DEF Init, RowsConsistent, HeldPcs, TranscodePcs

\* What a step does to the rows, as far as RowsConsistent can tell: some rows
\* are inserted from nextJob on, every other row stays or is deleted.
RowsGrow ==
    /\ \A j \in JobIds : jStatus'[j] = "absent" <=> j >= nextJob'
    /\ \A j \in JobIds : jStatus[j] # "absent" =>
            jStatus'[j] # "absent" /\ jVideo'[j] = jVideo[j]
    /\ \A j \in JobIds : jStatus'[j] # "absent" => jVideo'[j] \in Videos
    /\ \A j \in JobIds : jStatus'[j] = "absent" => jVideo'[j] = NoVideo

LEMMA EnqueueGrows ==
  ASSUME TypeOK, RowsConsistent, NEW v \in Videos, Enqueue(v)
  PROVE  RowsGrow
<1> USE LimitAssumption DEF Enqueue, JobIds
<1>1. /\ jStatus \in [JobIds -> JobStatus] /\ jVideo \in [JobIds -> Videos \cup {NoVideo}]
      /\ nextJob \in JobIds /\ nextJob' = nextJob + 1
  BY DEF TypeOK, JobTypes
<1>2. \A j \in JobIds : /\ jStatus'[j] = IF j = nextJob THEN "queued" ELSE jStatus[j]
                        /\ jVideo'[j] = IF j = nextJob THEN v ELSE jVideo[j]
  BY <1>1
<1>3. \A j \in JobIds : jStatus'[j] = "absent" <=> j >= nextJob'
  BY <1>1, <1>2 DEF RowsConsistent
<1>4. jStatus[nextJob] = "absent"
  BY <1>1 DEF RowsConsistent
<1>5. \A j \in JobIds : /\ jStatus[j] # "absent" =>
                              jStatus'[j] # "absent" /\ jVideo'[j] = jVideo[j]
                        /\ jStatus'[j] # "absent" => jVideo'[j] \in Videos
                        /\ jStatus'[j] = "absent" => jVideo'[j] = NoVideo
  BY <1>2, <1>4 DEF RowsConsistent
<1> QED
  BY <1>3, <1>5 DEF RowsGrow

LEMMA RecoverGrows ==
  ASSUME TypeOK, RowsConsistent, RequeueOrphans
  PROVE  RowsGrow
<1> PICK last \in (nextJob - 1)..MaxJobs :
       \E f \in Numberings(nextJob..last, Orphans) : Recover(nextJob..last, f, last)
  BY DEF RequeueOrphans
<1>1. PICK f \in Numberings(nextJob..last, Orphans) : Recover(nextJob..last, f, last)
  OBVIOUS
<1>2. \A j \in nextJob..last : f[j] \in Videos
  BY DEF Numberings, Orphans
<1> USE LimitAssumption DEF TypeOK, JobTypes, RowsConsistent, Recover
<1>3. \A j \in JobIds : j \in nextJob..last <=> j >= nextJob /\ j < nextJob'
  BY <1>1
<1>4. \A j \in Lapsed : jStatus[j] = "running"
  BY DEF Lapsed
<1>5. \A j \in JobIds : jStatus'[j] = "absent" <=> j >= nextJob'
  <2> TAKE j \in JobIds
  <2>1. CASE j \in nextJob..last
    BY <1>1, <2>1
  <2>2. CASE j \notin nextJob..last
    <3>1. jStatus'[j] = "absent" <=> jStatus[j] = "absent"
      BY <1>1, <1>4, <2>2
    <3>2. j >= nextJob' <=> j >= nextJob
      BY <1>1, <2>2
    <3> QED
      BY <3>1, <3>2
  <2> QED
    BY <2>1, <2>2
<1>6. \A j \in JobIds : jStatus[j] # "absent" =>
            jStatus'[j] # "absent" /\ jVideo'[j] = jVideo[j]
  <2> SUFFICES ASSUME NEW j \in JobIds, jStatus[j] # "absent"
               PROVE  jStatus'[j] # "absent" /\ jVideo'[j] = jVideo[j]
    OBVIOUS
  <2>1. ~(j >= nextJob) /\ j \notin nextJob..last
    BY <1>3
  <2> QED
    BY <1>1, <2>1
<1>7. \A j \in JobIds : jStatus'[j] # "absent" => jVideo'[j] \in Videos
  <2> SUFFICES ASSUME NEW j \in JobIds, jStatus'[j] # "absent"
               PROVE  jVideo'[j] \in Videos
    OBVIOUS
  <2>1. CASE j \in nextJob..last
    BY <1>1, <1>2, <2>1
  <2>2. CASE j \notin nextJob..last
    <3>1. jVideo'[j] = jVideo[j] /\ jStatus[j] # "absent"
      BY <1>1, <1>4, <2>2
    <3> QED
      BY <3>1
  <2> QED
    BY <2>1, <2>2
<1>8. \A j \in JobIds : jStatus'[j] = "absent" => jVideo'[j] = NoVideo
  BY <1>1, <1>3, <1>5
<1> QED
  BY <1>5, <1>6, <1>7, <1>8 DEF RowsGrow

\* A step that keeps or updates rows in place.
LEMMA UpdateGrows ==
  ASSUME TypeOK, RowsConsistent, UNCHANGED <<jVideo, nextJob>>,
         \A j \in JobIds : jStatus'[j] = "absent" <=> jStatus[j] = "absent"
  PROVE  RowsGrow
  BY DEF RowsConsistent, RowsGrow

-----------------------------------------------------------------------------
(* The shapes a step of a worker can have, as far as jobs are concerned. *)

OthersStay(w) == /\ \A x \in Workers \ {w} : /\ pc'[x] = pc[x] /\ job'[x] = job[x]
                                             /\ beat'[x] = beat[x]
                 /\ UNCHANGED <<up, jVideo, nextJob, requestVars>>

\* The worker goes on with its job.
Move(w) == /\ Held(w) /\ pc'[w] \in HeldPcs
           /\ OthersStay(w) /\ UNCHANGED <<job, beat, jobVars>>

\* The worker ends its hold on the job, and records an outcome if it may.
Release(w) ==
    /\ Held(w) /\ pc'[w] \in {"idle", "markFailed", "notify", "dead"}
    /\ pc'[w] \in {"markFailed", "notify"} => job'[w] = job[w]
    /\ OthersStay(w)
    /\ \/ UNCHANGED jobVars
       \/ /\ MayWrite(w)
          /\ jStatus'[job[w]] \in {"queued", "done", "failed"}
          /\ \A j \in JobIds \ {job[w]} : /\ jStatus'[j] = jStatus[j]
                                          /\ owner'[j] = owner[j] /\ lease'[j] = lease[j]

\* The worker, which holds nothing, goes back to the top of its loop or ends.
Leave(w) == /\ pc[w] \in {"idle", "markFailed", "notify"} /\ pc'[w] \in {"idle", "dead"}
            /\ OthersStay(w) /\ UNCHANGED jobVars

LEMMA FinishShape ==
  ASSUME TypeOK, RowsConsistent, NEW w \in Workers, pc[w] \in HeldPcs,
         NEW s \in {"done", "failed"}, FinishJob(w, s)
  PROVE  /\ UNCHANGED <<jVideo, nextJob>>
         /\ \/ UNCHANGED jobVars
            \/ /\ MayWrite(w) /\ jStatus'[job[w]] = s
               /\ \A j \in JobIds \ {job[w]} : /\ jStatus'[j] = jStatus[j]
                                               /\ owner'[j] = owner[j] /\ lease'[j] = lease[j]
<1>1. CASE MayWrite(w)
  BY <1>1 DEF FinishJob, RowsConsistent, TypeOK, JobTypes
<1>2. CASE ~MayWrite(w)
  BY <1>2 DEF FinishJob, jobVars
<1> QED
  BY <1>1, <1>2

LEMMA OutcomeShape ==
  ASSUME TypeOK, RowsConsistent, NEW w \in Workers, Outcome(w)
  PROVE  Move(w) \/ Release(w) \/ Leave(w)
<1> USE DEF TypeOK, ControlTypes, LocalTypes, OthersStay, Goto, Return, localVars,
            HeldPcs, TranscodePcs, Held
<1>1. CASE LoadVideo(w)
  BY <1>1 DEF LoadVideo, Move, jobVars
<1>2. CASE FinishGone(w)
  BY <1>2, FinishShape DEF FinishGone, Release
<1>3. CASE FinishNoRaw(w)
  BY <1>3, FinishShape DEF FinishNoRaw, Release
<1>4. CASE MarkFailed(w)
  BY <1>4 DEF MarkFailed, Leave, jobVars
<1>5. CASE ReadVerdict(w)
  BY <1>5 DEF ReadVerdict, Move, jobVars
<1>6. CASE FinishDone(w)
  BY <1>6, FinishShape DEF FinishDone, Release
<1>7. CASE Notify(w)
  BY <1>7 DEF Notify, Leave, jobVars
<1>8. CASE RequeueJob(w)
  <2>1. CASE MayWrite(w)
    BY <1>8, <2>1 DEF RequeueJob, Release, JobTypes, MayWrite, RowsConsistent
  <2>2. CASE ~MayWrite(w)
    BY <1>8, <2>2 DEF RequeueJob, Release, jobVars
  <2> QED
    BY <2>1, <2>2
<1>9. CASE GiveUp(w)
  BY <1>9, FinishShape DEF GiveUp, Release
<1> QED
  BY <1>1, <1>2, <1>3, <1>4, <1>5, <1>6, <1>7, <1>8, <1>9 DEF Outcome

LEMMA TranscodeShape ==
  ASSUME TypeOK, NEW w \in Workers, Transcode(w)
  PROVE  Move(w)
<1> USE DEF TypeOK, ControlTypes, OthersStay, Goto, localVars, jobVars, HeldPcs,
            TranscodePcs, Held, Move
<1>1. CASE Probe(w)
  BY <1>1 DEF Probe
<1>2. CASE ServeOriginal(w)
  BY <1>2 DEF ServeOriginal
<1>3. CASE InsertRenditions(w)
  BY <1>3 DEF InsertRenditions
<1>4. CASE EncodeOne(w)
  BY <1>4 DEF EncodeOne
<1>5. CASE CountReady(w)
  BY <1>5 DEF CountReady
<1>6. CASE SetReady(w)
  BY <1>6 DEF SetReady
<1>7. CASE SetFailed(w)
  BY <1>7 DEF SetFailed
<1>8. CASE UnlinkRaw(w)
  BY <1>8 DEF UnlinkRaw
<1>9. CASE NullRaw(w)
  BY <1>9 DEF NullRaw
<1>10. CASE Raise(w)
  BY <1>10 DEF Raise
<1> QED
  BY <1>1, <1>2, <1>3, <1>4, <1>5, <1>6, <1>7, <1>8, <1>9, <1>10 DEF Transcode

LEMMA DeathShape ==
  ASSUME TypeOK, NEW w \in Workers, WorkerDies(w)
  PROVE  Release(w) \/ Leave(w)
  BY DEF WorkerDies, Release, Leave, OthersStay, TypeOK, ControlTypes, Goto, localVars,
         jobVars, HeldPcs, TranscodePcs, Held

-----------------------------------------------------------------------------
(* RowsConsistent is preserved. *)

TasksOnRows ==
    \A w \in Workers : pc[w] \in HeldPcs \cup {"picked", "markFailed", "notify"} =>
        job[w] \in JobIds /\ jStatus[job[w]] # "absent"
RequestsOnRows ==
    /\ \A r \in Retries : rPc[r] = "checked" => rVideo[r] \in Videos
    /\ \A d \in Deletes : dPc[d] = "purged" => dVideo[d] \in Videos
DownTasks == \A w \in Workers : ~up[ProcOf[w]] => pc[w] = "down"

LEMMA RowsAssemble ==
  ASSUME RowsGrow, TasksOnRows', RequestsOnRows', DownTasks'
  PROVE  RowsConsistent'
  BY DEF RowsGrow, TasksOnRows, RequestsOnRows, DownTasks, RowsConsistent

LEMMA RowsSplit == RowsConsistent => TasksOnRows /\ RequestsOnRows /\ DownTasks
  BY DEF RowsConsistent, TasksOnRows, RequestsOnRows, DownTasks

LEMMA RowsRequest ==
  ASSUME TypeOK, RowsConsistent, RequestStep PROVE RowsConsistent'
<1> USE DEF jobVars, localVars, workerVars, retryVars, deleteVars, requestVars
<1>1. UNCHANGED <<up, pc, job>>
  BY DEF RequestStep, InsertVideo, EnqueueUpload, RetryCheck, RetryCommit,
         DeletePurge, DeleteRow
<1>2. RequestsOnRows'
  BY RowsSplit DEF RequestsOnRows, RequestStep, InsertVideo, EnqueueUpload, RetryCheck,
         RetryCommit, DeletePurge, DeleteRow, TypeOK, RequestTypes
<1>3. RowsGrow
  <2>1. CASE \E p \in Procs, v \in Videos : InsertVideo(p, v)
    BY <2>1, UpdateGrows DEF InsertVideo
  <2>2. CASE \E v \in Videos : EnqueueUpload(v)
    BY <2>2, UpdateGrows, EnqueueGrows DEF EnqueueUpload
  <2>3. CASE \E r \in Retries, p \in Procs, v \in Videos : RetryCheck(r, p, v)
    BY <2>3, UpdateGrows DEF RetryCheck
  <2>4. CASE \E r \in Retries : RetryCommit(r)
    BY <2>4, UpdateGrows, EnqueueGrows DEF RetryCommit, RowsConsistent
  <2>5. CASE \E d \in Deletes, p \in Procs, v \in Videos : DeletePurge(d, p, v)
    BY <2>5, UpdateGrows DEF DeletePurge
  <2>6. CASE \E d \in Deletes : DeleteRow(d)
    <3> PICK d \in Deletes : DeleteRow(d)
      BY <2>6
    <3>1. dVideo[d] \in Videos
      BY DEF DeleteRow, RowsConsistent
    <3>2. \A j \in JobIds : jStatus'[j] = "absent" <=> jStatus[j] = "absent"
      BY <3>1, ProcAssumption DEF DeleteRow, RowsConsistent
    <3> QED
      BY <3>2, UpdateGrows DEF DeleteRow
  <2> QED
    BY <2>1, <2>2, <2>3, <2>4, <2>5, <2>6 DEF RequestStep
<1>4. TasksOnRows' /\ DownTasks'
  BY <1>1, <1>3, RowsSplit DEF TasksOnRows, DownTasks, RowsGrow
<1> QED
  BY <1>2, <1>3, <1>4, RowsAssemble

LEMMA RowsProcess ==
  ASSUME TypeOK, RowsConsistent, NEW p \in Procs, Start(p) \/ Crash(p)
  PROVE  RowsConsistent'
<1> USE ProcAssumption DEF TypeOK, ControlTypes, LocalTypes
<1>1. CASE Start(p)
  <2>1. RowsGrow
    BY <1>1, RecoverGrows DEF Start
  <2>2. /\ \A w \in Workers : pc'[w] = IF ProcOf[w] = p THEN "idle" ELSE pc[w]
        /\ \A q \in Procs : up'[q] <=> (q = p \/ up[q])
        /\ UNCHANGED <<job, requestVars>>
    BY <1>1 DEF Start, localVars
  <2>3. TasksOnRows'
    BY <2>1, <2>2, RowsSplit DEF TasksOnRows, RowsGrow, HeldPcs, TranscodePcs
  <2>4. DownTasks'
    BY <2>2, RowsSplit DEF DownTasks
  <2>5. RequestsOnRows'
    BY <2>2, RowsSplit DEF RequestsOnRows, requestVars, retryVars, deleteVars
  <2> QED
    BY <2>1, <2>3, <2>4, <2>5, RowsAssemble
<1>2. CASE Crash(p)
  <2>1. RowsGrow
    BY <1>2, UpdateGrows DEF Crash
  <2>2. /\ \A w \in Workers : /\ pc'[w] = IF ProcOf[w] = p THEN "down" ELSE pc[w]
                              /\ job'[w] = IF ProcOf[w] = p THEN 0 ELSE job[w]
        /\ \A q \in Procs : up'[q] <=> (q # p /\ up[q])
        /\ \A r \in Retries : rPc'[r] = "checked" => rPc[r] = "checked"
        /\ \A d \in Deletes : dPc'[d] = "purged" => dPc[d] = "purged"
        /\ UNCHANGED <<rVideo, dVideo>>
    BY <1>2 DEF Crash
  <2>3. TasksOnRows'
    BY <2>1, <2>2, RowsSplit DEF TasksOnRows, RowsGrow, HeldPcs, TranscodePcs
  <2>4. DownTasks'
    BY <2>2, RowsSplit DEF DownTasks
  <2>5. RequestsOnRows'
    BY <2>2, RowsSplit DEF RequestsOnRows
  <2> QED
    BY <2>1, <2>3, <2>4, <2>5, RowsAssemble
<1> QED
  BY <1>1, <1>2

LEMMA RowsShaped ==
  ASSUME TypeOK, RowsConsistent, NEW w \in Workers, Move(w) \/ Release(w) \/ Leave(w)
  PROVE  RowsConsistent'
<1> USE DEF OthersStay, HeldPcs, TranscodePcs, Held, jobVars
<1>1. RowsGrow
  BY UpdateGrows, RowsSplit DEF Move, Release, Leave, TasksOnRows
<1>2. TasksOnRows'
  BY <1>1, RowsSplit DEF TasksOnRows, Move, Release, Leave, RowsGrow
<1>3. RequestsOnRows'
  BY RowsSplit DEF RequestsOnRows, Move, Release, Leave, requestVars, retryVars, deleteVars
<1>4. DownTasks'
  BY RowsSplit DEF DownTasks, Move, Release, Leave
<1> QED
  BY <1>1, <1>2, <1>3, <1>4, RowsAssemble

LEMMA RowsClaim ==
  ASSUME TypeOK, RowsConsistent, NEW w \in Workers,
         ClaimSelect(w) \/ ClaimUpdate(w) \/ Heartbeat(w)
  PROVE  RowsConsistent'
<1> USE DEF TypeOK, ControlTypes, LocalTypes, HeldPcs, TranscodePcs, jobVars, requestVars,
            retryVars, deleteVars
<1>1. CASE ClaimSelect(w)
  <2>1. PICK j \in Queued : job' = [job EXCEPT ![w] = j]
    BY <1>1 DEF ClaimSelect
  <2>2. RowsGrow
    BY <1>1, UpdateGrows DEF ClaimSelect
  <2>3. TasksOnRows'
    BY <1>1, <2>1, RowsSplit DEF ClaimSelect, TasksOnRows, Goto, Queued
  <2>4. RequestsOnRows' /\ DownTasks'
    BY <1>1, RowsSplit DEF ClaimSelect, RequestsOnRows, DownTasks, Goto
  <2> QED
    BY <2>2, <2>3, <2>4, RowsAssemble
<1>2. CASE ClaimUpdate(w)
  <2>1. RowsGrow
    BY <1>2, UpdateGrows DEF ClaimUpdate, StillQueued, JobTypes
  <2>2. TasksOnRows'
    BY <1>2, <2>1, RowsSplit DEF ClaimUpdate, StillQueued, TasksOnRows, Goto, Return, RowsGrow
  <2>3. RequestsOnRows' /\ DownTasks'
    BY <1>2, RowsSplit DEF ClaimUpdate, StillQueued, RequestsOnRows, DownTasks, Goto, Return
  <2> QED
    BY <2>1, <2>2, <2>3, RowsAssemble
<1>3. CASE Heartbeat(w)
  <2>1. UNCHANGED <<jStatus, jVideo, nextJob, up, pc, job, requestVars>>
    BY <1>3 DEF Heartbeat
  <2>2. RowsGrow
    BY <2>1, UpdateGrows
  <2>3. TasksOnRows' /\ RequestsOnRows' /\ DownTasks'
    BY <2>1, RowsSplit DEF TasksOnRows, RequestsOnRows, DownTasks
  <2> QED
    BY <2>2, <2>3, RowsAssemble
<1> QED
  BY <1>1, <1>2, <1>3

LEMMA RowsStep == TypeOK /\ RowsConsistent /\ [Next]_vars => RowsConsistent'
<1> SUFFICES ASSUME TypeOK, RowsConsistent, [Next]_vars PROVE RowsConsistent'
  OBVIOUS
<1>1. CASE RequestStep
  BY <1>1, RowsRequest
<1>2. CASE \E p \in Procs : Start(p) \/ Crash(p)
  BY <1>2, RowsProcess
<1>3. ASSUME NEW w \in Workers, WorkerStep(w) \/ WorkerDies(w) \/ Heartbeat(w)
      PROVE  RowsConsistent'
  BY <1>3, RowsClaim, RowsShaped, OutcomeShape, TranscodeShape, DeathShape DEF WorkerStep
<1>4. CASE Tick
  <2>1. UNCHANGED <<jStatus, jVideo, nextJob, up, pc, job, requestVars>>
    BY <1>4 DEF Tick
  <2> QED
    BY <2>1 DEF RowsConsistent, requestVars, retryVars, deleteVars
<1>5. CASE UNCHANGED vars
  BY <1>5 DEF RowsConsistent, vars, jobVars, workerVars, localVars, requestVars,
              retryVars, deleteVars
<1> QED
  BY <1>1, <1>2, <1>3, <1>4, <1>5 DEF Next

\* Every variable of the queue keeps its type, and rows, tasks and requests
\* stay consistent, in every behaviour, stalls and crashes included.
THEOREM TypeCorrect == Spec => [](TypeOK /\ RowsConsistent)
<1>1. Init => TypeOK /\ RowsConsistent
  BY TypeInit, RowsInit
<1>2. TypeOK /\ RowsConsistent /\ [Next]_vars => (TypeOK /\ RowsConsistent)'
  BY TypeStep, RowsStep
<1> QED
  BY <1>1, <1>2, PTL DEF Spec

-----------------------------------------------------------------------------
(* Exclusive use of a job. *)

\* The inductive invariant: exclusiveness alone is not inductive, because what
\* keeps a second worker off a job is the row (running, not lapsed), and what
\* keeps the row so is the age of the holder's last renewal.
Exclusive == SoleRunner /\ RunnerHoldsLease
QueueInv == TypeOK /\ RowsConsistent /\ Exclusive

LEMMA ExclusiveInit == Init => Exclusive
  BY DEF Init, Exclusive, SoleRunner, RunnerHoldsLease, Held, HeldPcs, TranscodePcs

\* A holder's lease has not lapsed.
LEMMA LeaseLeft ==
  ASSUME TypeOK, RowsConsistent, Exclusive, NEW w \in Workers, Held(w),
         jStatus[job[w]] # "gone"
  PROVE  lease[job[w]] > 0 /\ job[w] \notin Lapsed
  BY LimitAssumption
     DEF TypeOK, LocalTypes, Exclusive, RunnerHoldsLease, Lapsed

\* It is enough that the holders, their jobs and ages are as before, and that
\* the row of a job held before is as before or gone.
LEMMA ExclusiveFrame ==
  ASSUME Exclusive, RowsConsistent,
         \A w \in Workers : Held(w)' => Held(w) /\ job'[w] = job[w] /\ beat'[w] = beat[w],
         \A w \in Workers : Held(w)' =>
            \/ jStatus'[job[w]] = "gone"
            \/ /\ jStatus[job[w]] # "gone"
               /\ jStatus'[job[w]] = jStatus[job[w]]
               /\ owner'[job[w]] = owner[job[w]]
               /\ lease'[job[w]] = lease[job[w]]
  PROVE  Exclusive'
  BY DEF Exclusive, SoleRunner, RunnerHoldsLease

RowsKept ==
    \A j \in JobIds : jStatus[j] # "absent" =>
        \/ jStatus'[j] = "gone"
        \/ jStatus'[j] = jStatus[j] /\ owner'[j] = owner[j] /\ lease'[j] = lease[j]

LEMMA RequestKeepsRows ==
  ASSUME TypeOK, RowsConsistent, RequestStep PROVE RowsKept
<1>1. ASSUME NEW v, Enqueue(v) PROVE RowsKept
  BY <1>1 DEF Enqueue, RowsKept, RowsConsistent, TypeOK, JobTypes
<1>2. CASE UNCHANGED jobVars
  BY <1>2 DEF RowsKept, jobVars
<1>3. CASE \E v \in Videos : EnqueueUpload(v)
  BY <1>1, <1>2, <1>3 DEF EnqueueUpload
<1>4. CASE \E r \in Retries : RetryCommit(r)
  BY <1>1, <1>2, <1>4 DEF RetryCommit
<1>5. CASE \E d \in Deletes : DeleteRow(d)
  BY <1>5 DEF DeleteRow, RowsKept
<1> QED
  BY <1>2, <1>3, <1>4, <1>5 DEF RequestStep, InsertVideo, RetryCheck, DeletePurge

\* Recovery writes lapsed rows and new ones only.
LEMMA RecoverKeepsRows ==
  ASSUME TypeOK, RowsConsistent, RequeueOrphans
  PROVE  \A j \in JobIds : jStatus[j] # "absent" /\ j \notin Lapsed =>
            jStatus'[j] = jStatus[j] /\ owner'[j] = owner[j] /\ lease'[j] = lease[j]
<1>1. PICK last \in (nextJob - 1)..MaxJobs :
         \E f \in Numberings(nextJob..last, Orphans) : Recover(nextJob..last, f, last)
  BY DEF RequeueOrphans
<1> SUFFICES ASSUME NEW j \in JobIds, jStatus[j] # "absent", j \notin Lapsed
             PROVE  /\ jStatus'[j] = jStatus[j] /\ owner'[j] = owner[j]
                    /\ lease'[j] = lease[j]
  OBVIOUS
<1>2. j \notin nextJob..last
  BY DEF RowsConsistent, TypeOK, JobTypes
<1> QED
  BY <1>1, <1>2 DEF Recover

LEMMA ExclusiveRequest ==
  ASSUME TypeOK, RowsConsistent, Exclusive, RequestStep PROVE Exclusive'
<1>1. UNCHANGED <<up, pc, job, beat>>
  BY DEF RequestStep, InsertVideo, EnqueueUpload, RetryCheck, RetryCommit,
         DeletePurge, DeleteRow, workerVars, localVars
<1>2. \A w \in Workers : Held(w) => job[w] \in JobIds /\ jStatus[job[w]] # "absent"
  BY RowsSplit DEF TasksOnRows, Held
<1> QED
  BY <1>1, <1>2, RequestKeepsRows, ExclusiveFrame DEF Held, RowsKept

LEMMA ExclusiveProcess ==
  ASSUME TypeOK, RowsConsistent, Exclusive, NEW p \in Procs, Start(p) \/ Crash(p)
  PROVE  Exclusive'
<1> USE ProcAssumption DEF TypeOK, ControlTypes, LocalTypes, JobTypes
<1>1. CASE Start(p)
  <2>1. RequeueOrphans
    BY <1>1 DEF Start
  <2>2. \A w \in Workers : Held(w)' => Held(w) /\ job'[w] = job[w] /\ beat'[w] = beat[w]
    BY <1>1 DEF Start, Held, HeldPcs, TranscodePcs, localVars
  <2>3. \A j \in JobIds : jStatus[j] # "absent" /\ j \notin Lapsed =>
            jStatus'[j] = jStatus[j] /\ owner'[j] = owner[j] /\ lease'[j] = lease[j]
    BY <2>1, RecoverKeepsRows
  <2>4. \A w \in Workers : Held(w) => job[w] \in JobIds /\ jStatus[job[w]] # "absent"
    BY RowsSplit DEF TasksOnRows, Held
  <2>5. \A w \in Workers : Held(w) => job[w] \notin Lapsed
    BY LeaseLeft DEF Lapsed
  <2> QED
    BY <2>2, <2>3, <2>4, <2>5, ExclusiveFrame
<1>2. CASE Crash(p)
  <2>1. \A w \in Workers : Held(w)' => /\ Held(w) /\ ProcOf[w] # p
                                       /\ job'[w] = job[w] /\ beat'[w] = beat[w]
    BY <1>2 DEF Crash, Held, HeldPcs, TranscodePcs
  <2>2. \A j \in JobIds : /\ jStatus'[j] = jStatus[j] /\ lease'[j] = lease[j]
                          /\ owner[j] # p => owner'[j] = owner[j]
    BY <1>2 DEF Crash
  <2>3. \A w \in Workers : Held(w) => job[w] \in JobIds
    BY RowsSplit DEF TasksOnRows, Held
  <2>4. \A w \in Workers : Held(w) /\ jStatus[job[w]] # "gone" => owner[job[w]] = ProcOf[w]
    BY DEF Exclusive, RunnerHoldsLease
  <2> QED
    BY <2>1, <2>2, <2>3, <2>4, ExclusiveFrame
<1> QED
  BY <1>1, <1>2

\* Whoever may not write the row of the job it holds has lost it to a deletion.
LEMMA ExclusiveShaped ==
  ASSUME TypeOK, RowsConsistent, Exclusive, NEW w \in Workers,
         Move(w) \/ Release(w) \/ Leave(w)
  PROVE  Exclusive'
<1>1. \A x \in Workers : Held(x)' => Held(x) /\ job'[x] = job[x] /\ beat'[x] = beat[x]
  BY DEF Move, Release, Leave, OthersStay, Held, HeldPcs, TranscodePcs
<1>2. \A x \in Workers : Held(x) => job[x] \in JobIds
  BY RowsSplit DEF TasksOnRows, Held
<1>3. CASE UNCHANGED jobVars
  BY <1>1, <1>3, ExclusiveFrame DEF jobVars
<1>4. CASE Release(w) /\ MayWrite(w)
          /\ \A j \in JobIds \ {job[w]} : /\ jStatus'[j] = jStatus[j]
                                          /\ owner'[j] = owner[j] /\ lease'[j] = lease[j]
  <2>1. \A x \in Workers : Held(x)' => x # w
    BY <1>4 DEF Release, Held, HeldPcs, TranscodePcs
  <2>2. \A x \in Workers : Held(x)' => job[x] # job[w]
    BY <1>1, <1>4, <2>1 DEF Release, MayWrite, Exclusive, SoleRunner
  <2> QED
    BY <1>1, <1>2, <1>4, <2>2, ExclusiveFrame
<1> QED
  BY <1>3, <1>4 DEF Move, Release, Leave

LEMMA ExclusiveClaim ==
  ASSUME TypeOK, RowsConsistent, Exclusive, NEW w \in Workers,
         ClaimSelect(w) \/ ClaimUpdate(w)
  PROVE  Exclusive'
<1> USE DEF TypeOK, ControlTypes, LocalTypes, HeldPcs, TranscodePcs
<1>1. \A x \in Workers : Held(x) => job[x] \in JobIds
  BY RowsSplit DEF TasksOnRows, Held
<1>2. \A x \in Workers \ {w} : /\ Held(x)' <=> Held(x)
                               /\ job'[x] = job[x] /\ beat'[x] = beat[x]
  BY DEF ClaimSelect, ClaimUpdate, StillQueued, Goto, Return, Held
<1>3. CASE ~Held(w)' /\ UNCHANGED jobVars
  BY <1>1, <1>2, <1>3, ExclusiveFrame DEF jobVars
<1>4. CASE ClaimUpdate(w) /\ jStatus[job[w]] = "queued"
  <2> DEFINE j == job[w]
  <2>1. j \in JobIds
    BY <1>4, RowsSplit DEF TasksOnRows, ClaimUpdate, StillQueued
  <2>2. \A x \in Workers : Held(x) => job[x] # j
    BY <1>4 DEF Exclusive, RunnerHoldsLease
  <2>3. /\ \A i \in JobIds \ {j} : /\ jStatus'[i] = jStatus[i]
                                  /\ owner'[i] = owner[i] /\ lease'[i] = lease[i]
        /\ jStatus'[j] = "running" /\ owner'[j] = ProcOf[w] /\ lease'[j] = Lease
        /\ job'[w] = j /\ beat'[w] = 0
    BY <1>4, <2>1 DEF ClaimUpdate, StillQueued, JobTypes
  <2>4. SoleRunner'
    BY <1>1, <1>2, <2>2, <2>3 DEF SoleRunner, Exclusive
  <2>5. RunnerHoldsLease'
    BY <1>1, <1>2, <2>2, <2>3, LimitAssumption DEF RunnerHoldsLease, Exclusive
  <2> QED
    BY <2>4, <2>5 DEF Exclusive
<1> QED
  BY <1>3, <1>4 DEF ClaimSelect, ClaimUpdate, StillQueued, Goto, Return, Held, jobVars

LEMMA ExclusiveHeartbeat ==
  ASSUME TypeOK, RowsConsistent, Exclusive, NEW w \in Workers, Heartbeat(w)
  PROVE  Exclusive'
<1> USE DEF TypeOK, LocalTypes, JobTypes
<1>1. Held(w) /\ jStatus[job[w]] = "running"
  BY DEF Heartbeat, Held, HeldPcs
<1>2. job[w] \in JobIds
  BY <1>1, RowsSplit DEF TasksOnRows, Held
<1>3. /\ UNCHANGED <<pc, job, jStatus, owner>>
      /\ \A i \in JobIds \ {job[w]} : lease'[i] = lease[i]
      /\ \A x \in Workers \ {w} : beat'[x] = beat[x]
      /\ lease'[job[w]] = Lease /\ beat'[w] = 0
  BY <1>2 DEF Heartbeat
<1>4. \A x \in Workers \ {w} : Held(x) => job[x] \in JobIds \ {job[w]}
  BY <1>1, RowsSplit DEF TasksOnRows, Held, Exclusive, SoleRunner
<1>5. SoleRunner'
  BY <1>3 DEF Exclusive, SoleRunner, Held
<1>6. RunnerHoldsLease'
  <2> SUFFICES ASSUME NEW x \in Workers, Held(x), jStatus[job[x]] # "gone"
               PROVE  /\ jStatus[job[x]] = "running" /\ owner[job[x]] = ProcOf[x]
                      /\ lease'[job[x]] = Lease - beat'[x]
    BY <1>3 DEF RunnerHoldsLease, Held
  <2>1. /\ jStatus[job[x]] = "running" /\ owner[job[x]] = ProcOf[x]
        /\ lease[job[x]] = Lease - beat[x]
    BY DEF Exclusive, RunnerHoldsLease
  <2>2. CASE x = w
    BY <1>3, <2>1, <2>2, LimitAssumption
  <2>3. CASE x # w
    BY <1>3, <1>4, <2>1, <2>3
  <2> QED
    BY <2>1, <2>2, <2>3
<1> QED
  BY <1>5, <1>6 DEF Exclusive

\* Time passes only as long as no live worker is overdue.
LEMMA ExclusiveTick ==
  ASSUME TypeOK, RowsConsistent, Exclusive, Tick, Stalls = FALSE
  PROVE  Exclusive'
<1> USE DEF TypeOK, LocalTypes, JobTypes
<1>1. UNCHANGED <<pc, job, jStatus, owner>>
  BY DEF Tick
<1>2. ASSUME NEW w \in Workers, Held(w), jStatus[job[w]] # "gone"
      PROVE  lease'[job[w]] = Lease - beat'[w]
  <2>1. job[w] \in JobIds
    BY <1>2, RowsSplit DEF TasksOnRows, Held
  <2>2. owner[job[w]] = ProcOf[w] /\ lease[job[w]] = Lease - beat[w]
        /\ jStatus[job[w]] = "running"
    BY <1>2 DEF Exclusive, RunnerHoldsLease
  <2>3. beat[w] < MaxGap
    <3>1. MayWrite(w) /\ ~Due(w)
      BY <1>2, <2>2 DEF Tick, MayWrite
    <3>2. beat[w] \in 0..MaxGap
      OBVIOUS
    <3> QED
      BY <1>2, <3>1, <3>2, LimitAssumption DEF Due
  <2>4. beat'[w] = beat[w] + 1
    BY <1>2, <2>3 DEF Tick
  <2>5. lease'[job[w]] = lease[job[w]] - 1
    BY <2>1, <2>2, <2>3, LimitAssumption DEF Tick
  <2> QED
    BY <2>2, <2>4, <2>5, LimitAssumption
<1> QED
  BY <1>1, <1>2 DEF Exclusive, SoleRunner, RunnerHoldsLease, Held

LEMMA ExclusiveStep ==
  ASSUME Stalls = FALSE
  PROVE  TypeOK /\ RowsConsistent /\ Exclusive /\ [Next]_vars => Exclusive'
<1> SUFFICES ASSUME TypeOK, RowsConsistent, Exclusive, [Next]_vars PROVE Exclusive'
  OBVIOUS
<1>1. CASE RequestStep
  BY <1>1, ExclusiveRequest
<1>2. CASE \E p \in Procs : Start(p) \/ Crash(p)
  BY <1>2, ExclusiveProcess
<1>3. ASSUME NEW w \in Workers, WorkerStep(w) \/ WorkerDies(w) \/ Heartbeat(w)
      PROVE  Exclusive'
  BY <1>3, ExclusiveClaim, ExclusiveHeartbeat, ExclusiveShaped, OutcomeShape,
     TranscodeShape, DeathShape DEF WorkerStep
<1>4. CASE Tick
  BY <1>4, ExclusiveTick
<1>5. CASE UNCHANGED vars
  BY <1>5 DEF Exclusive, SoleRunner, RunnerHoldsLease, Held, vars, jobVars, workerVars,
              localVars
<1> QED
  BY <1>1, <1>2, <1>3, <1>4, <1>5 DEF Next

LEMMA QueueInit == Init => QueueInv
  BY TypeInit, RowsInit, ExclusiveInit DEF QueueInv

LEMMA QueueStep ==
  ASSUME Stalls = FALSE
  PROVE  QueueInv /\ [Next]_vars => QueueInv'
  BY TypeStep, RowsStep, ExclusiveStep DEF QueueInv

\* As long as live workers renew in time, no two of them ever work on one job,
\* and the row of a job being worked on is running, under its worker's id and
\* with time left on the lease.
THEOREM Exclusivity ==
  ASSUME Stalls = FALSE
  PROVE  Spec => [](SoleRunner /\ RunnerHoldsLease)
<1>1. Init => TypeOK /\ RowsConsistent /\ Exclusive
  BY TypeInit, RowsInit, ExclusiveInit
<1>2. TypeOK /\ RowsConsistent /\ Exclusive /\ [Next]_vars
        => (TypeOK /\ RowsConsistent /\ Exclusive)'
  BY TypeStep, RowsStep, ExclusiveStep
<1>3. Exclusive => SoleRunner /\ RunnerHoldsLease
  BY DEF Exclusive
<1> QED
  BY <1>1, <1>2, <1>3, PTL DEF Spec

\* As long as live workers renew in time, a worker that works on a job has its row:
\* _heartbeat() renews it before it lapses, and no recovery or claim takes it.
THEOREM LeaseIsHeld ==
  ASSUME Stalls = FALSE
  PROVE  Spec => []RunnerHoldsLease
  BY Exclusivity, PTL

\* As long as live workers renew in time, a start of any process, at any moment,
\* leaves every job some live worker holds as it is.
THEOREM RecoveryIsSafe ==
  ASSUME Stalls = FALSE
  PROVE  Spec => RecoveryTakesOnlyDeadWork
<1>1. ASSUME TypeOK, RowsConsistent, Exclusive, [Next]_vars PROVE [RecoverySpares]_vars
  <2> SUFFICES ASSUME NEW p \in Procs, Start(p), NEW w \in Workers, Held(w)
               PROVE  jStatus'[job[w]] = jStatus[job[w]]
    BY DEF RecoverySpares
  <2>1. job[w] \in JobIds /\ jStatus[job[w]] # "absent"
    BY <1>1, RowsSplit DEF TasksOnRows, Held
  <2>2. job[w] \notin Lapsed
    BY <1>1, LeaseLeft DEF Lapsed
  <2> QED
    BY <1>1, <2>1, <2>2, RecoverKeepsRows DEF Start
<1>2. Init => TypeOK /\ RowsConsistent /\ Exclusive
  BY TypeInit, RowsInit, ExclusiveInit
<1>3. TypeOK /\ RowsConsistent /\ Exclusive /\ [Next]_vars
        => (TypeOK /\ RowsConsistent /\ Exclusive)'
  BY TypeStep, RowsStep, ExclusiveStep
<1> QED
  BY <1>1, <1>2, <1>3, PTL DEF Spec, RecoveryTakesOnlyDeadWork

\* A step of a worker writes an outcome only over 'running'.
LEMMA OutcomeWorker ==
  ASSUME TypeOK, RowsConsistent, Exclusive, NEW w \in Workers,
         Move(w) \/ Release(w) \/ Leave(w)
  PROVE  OutcomeKept
<1>1. CASE UNCHANGED jobVars
  BY <1>1 DEF OutcomeKept, jobVars
<1>2. CASE Held(w) /\ MayWrite(w)
           /\ \A j \in JobIds \ {job[w]} : jStatus'[j] = jStatus[j]
  <2>1. jStatus[job[w]] = "running"
    BY <1>2 DEF Exclusive, RunnerHoldsLease, MayWrite
  <2> QED
    BY <1>2, <2>1 DEF OutcomeKept
<1> QED
  BY <1>1, <1>2 DEF Move, Release, Leave

LEMMA OutcomeStep ==
  ASSUME TypeOK, RowsConsistent, Exclusive, [Next]_vars
  PROVE  OutcomeKept
<1>1. CASE UNCHANGED jStatus
  BY <1>1 DEF OutcomeKept
<1>2. CASE RequestStep
  BY <1>2, RequestKeepsRows DEF RowsKept, OutcomeKept
<1>3. CASE \E p \in Procs : Start(p)
  <2>1. \A j \in JobIds : jStatus[j] \in {"done", "failed"} => j \notin Lapsed
    BY DEF Lapsed
  <2> QED
    BY <1>3, <2>1, RecoverKeepsRows DEF Start, OutcomeKept
<1>4. CASE \E w \in Workers : Outcome(w) \/ Transcode(w) \/ WorkerDies(w)
  BY <1>4, OutcomeWorker, OutcomeShape, TranscodeShape, DeathShape
<1>5. CASE \E w \in Workers : ClaimUpdate(w)
  BY <1>5 DEF ClaimUpdate, StillQueued, OutcomeKept, TypeOK, JobTypes
<1>6. CASE \E p \in Procs : Crash(p)
  BY <1>1, <1>6 DEF Crash
<1>7. CASE Tick \/ \E w \in Workers : ClaimSelect(w) \/ Heartbeat(w)
  BY <1>1, <1>7 DEF Tick, ClaimSelect, Heartbeat, jobVars
<1>8. CASE UNCHANGED vars
  BY <1>1, <1>8 DEF vars, jobVars
<1> QED
  BY <1>2, <1>3, <1>4, <1>5, <1>6, <1>7, <1>8 DEF Next, WorkerStep

\* As long as live workers renew in time, a job recorded as done or failed is
\* never queued, claimed or given another outcome.
THEOREM Finality ==
  ASSUME Stalls = FALSE
  PROVE  Spec => OutcomeIsFinal
<1>1. TypeOK /\ RowsConsistent /\ Exclusive /\ [Next]_vars => [OutcomeKept]_vars
  BY OutcomeStep
<1>2. Init => TypeOK /\ RowsConsistent /\ Exclusive
  BY TypeInit, RowsInit, ExclusiveInit
<1>3. TypeOK /\ RowsConsistent /\ Exclusive /\ [Next]_vars
        => (TypeOK /\ RowsConsistent /\ Exclusive)'
  BY TypeStep, RowsStep, ExclusiveStep
<1> QED
  BY <1>1, <1>2, <1>3, PTL DEF Spec, OutcomeIsFinal

-----------------------------------------------------------------------------
(* Who runs a job, also when workers miss renewals. *)

HIDE DEF JobIds, NoJob

\* A worker that may write its row and lets go of it records an outcome, or dies
\* with it.
LEMMA ReleaseRecords ==
  ASSUME TypeOK, RowsConsistent, NEW w \in Workers, Outcome(w) \/ WorkerDies(w),
         Held(w), ~Held(w)', MayWrite(w)
  PROVE  \/ jStatus'[job[w]] \in {"queued", "done", "failed"}
         \/ pc'[w] = "dead" /\ job'[w] = job[w]
<1>1. job[w] \in JobIds
  BY RowsSplit DEF TasksOnRows, Held
<1> USE DEF TypeOK, ControlTypes, LocalTypes, JobTypes, Goto, Return, localVars, jobVars,
            HeldPcs, TranscodePcs, Held
<1>2. CASE LoadVideo(w) \/ MarkFailed(w) \/ ReadVerdict(w) \/ Notify(w)
  BY <1>2 DEF LoadVideo, MarkFailed, ReadVerdict, Notify
<1>3. CASE FinishGone(w) \/ FinishNoRaw(w) \/ FinishDone(w) \/ GiveUp(w)
  <2>1. jStatus' \in {[jStatus EXCEPT ![job[w]] = "done"], [jStatus EXCEPT ![job[w]] = "failed"]}
    BY <1>3 DEF FinishGone, FinishNoRaw, FinishDone, GiveUp, FinishJob
  <2> QED
    BY <1>1, <2>1
<1>4. CASE RequeueJob(w)
  BY <1>1, <1>4 DEF RequeueJob
<1>5. CASE WorkerDies(w)
  BY <1>5 DEF WorkerDies
<1> QED
  BY <1>2, <1>3, <1>4, <1>5 DEF Outcome

\* Worker w works on job j for the process that owns the row, or died doing so.
Answers(w, j) == ProcOf[w] = owner[j] /\ job[w] = j /\ (Held(w) \/ pc[w] = "dead")

\* A row that runs under a live process has a task of that process that answers
\* for it.
RunningIsAnswered ==
    \A j \in JobIds : jStatus[j] = "running" /\ owner[j] # Dead =>
        \E w \in Workers : Answers(w, j)

LEMMA RunningInit == Init => RunningIsAnswered
  BY DEF Init, RunningIsAnswered

\* It is enough that a row that runs did so before, for the same owner, and that
\* the tasks that answer for it still do.
LEMMA RunningFrame ==
  ASSUME RunningIsAnswered,
         \A j \in JobIds : jStatus'[j] = "running" /\ owner'[j] # Dead =>
            /\ jStatus[j] = "running" /\ owner'[j] = owner[j]
            /\ \A w \in Workers : Answers(w, j) => Answers(w, j)'
  PROVE  RunningIsAnswered'
  BY DEF RunningIsAnswered, Answers

LEMMA RunningRequest ==
  ASSUME TypeOK, RowsConsistent, RunningIsAnswered, RequestStep
  PROVE  RunningIsAnswered'
<1>1. UNCHANGED <<pc, job>>
  BY DEF RequestStep, InsertVideo, EnqueueUpload, RetryCheck, RetryCommit, DeletePurge,
         DeleteRow, workerVars, localVars
<1>2. \A j \in JobIds : jStatus'[j] = "running" =>
          jStatus[j] = "running" /\ owner'[j] = owner[j]
  <2>1. ASSUME NEW v, Enqueue(v)
        PROVE  \A j \in JobIds : jStatus'[j] = "running" =>
                   jStatus[j] = "running" /\ owner'[j] = owner[j]
    BY <2>1 DEF Enqueue, TypeOK, JobTypes
  <2>2. CASE UNCHANGED jobVars
    BY <2>2 DEF jobVars
  <2>3. CASE \E d \in Deletes : DeleteRow(d)
    BY <2>3 DEF DeleteRow
  <2> QED
    BY <2>1, <2>2, <2>3
       DEF RequestStep, InsertVideo, EnqueueUpload, RetryCheck, RetryCommit, DeletePurge
<1> QED
  BY <1>1, <1>2, RunningFrame DEF Answers, Held

LEMMA RunningProcess ==
  ASSUME TypeOK, RowsConsistent, RunningIsAnswered, NEW p \in Procs, Start(p) \/ Crash(p)
  PROVE  RunningIsAnswered'
<1> USE ProcAssumption DEF TypeOK, ControlTypes, LocalTypes, JobTypes
<1>1. CASE Start(p)
  <2>1. \A w \in Workers : ProcOf[w] = p => pc[w] = "down"
    BY <1>1, RowsSplit DEF Start, DownTasks
  <2>2. job' = job /\ \A w \in Workers : ProcOf[w] # p => pc'[w] = pc[w]
    BY <1>1 DEF Start, localVars
  <2>3. \A w \in Workers : (Held(w) => Held(w)') /\ (pc[w] = "dead" => pc'[w] = "dead")
    BY <2>1, <2>2 DEF Held, HeldPcs, TranscodePcs
  <2>4. \A j \in JobIds : jStatus'[j] = "running" =>
            jStatus[j] = "running" /\ owner'[j] = owner[j]
    BY <1>1 DEF Start, RequeueOrphans, Recover
  <2> QED
    BY <2>2, <2>3, <2>4, RunningFrame DEF Answers
<1>2. CASE Crash(p)
  <2>1. \A w \in Workers : ProcOf[w] # p => pc'[w] = pc[w] /\ job'[w] = job[w]
    BY <1>2 DEF Crash
  <2>2. \A j \in JobIds : /\ jStatus'[j] = jStatus[j]
                          /\ owner'[j] = IF owner[j] = p THEN Dead ELSE owner[j]
    BY <1>2 DEF Crash
  <2> QED
    BY <2>1, <2>2, RunningFrame DEF Answers, Held
<1> QED
  BY <1>1, <1>2

LEMMA RunningOutcome ==
  ASSUME TypeOK, RowsConsistent, RunningIsAnswered, NEW w \in Workers,
         Outcome(w) \/ WorkerDies(w)
  PROVE  RunningIsAnswered'
<1>1. Move(w) \/ Release(w) \/ Leave(w)
  BY OutcomeShape, DeathShape
<1>2. \A x \in Workers \ {w} : pc'[x] = pc[x] /\ job'[x] = job[x]
  BY <1>1 DEF Move, Release, Leave, OthersStay
<1>3. ASSUME NEW j \in JobIds, jStatus'[j] = "running"
      PROVE  /\ jStatus[j] = "running" /\ owner'[j] = owner[j]
             /\ Answers(w, j) => Answers(w, j)'
  <2>1. CASE Move(w) \/ Leave(w)
    BY <1>3, <2>1 DEF Move, Leave, jobVars, Answers, Held, HeldPcs, TranscodePcs
  <2>2. CASE Release(w) /\ UNCHANGED jobVars
    <3>1. Held(w) /\ ~Held(w)'
      BY <2>2 DEF Release, Held, HeldPcs, TranscodePcs
    <3>2. Answers(w, j) => MayWrite(w) /\ job[w] = j
      BY <1>3, <2>2 DEF Answers, MayWrite, jobVars
    <3>3. Answers(w, j) => pc'[w] = "dead" /\ job'[w] = job[w]
      BY <1>3, <3>1, <3>2, ReleaseRecords
    <3> QED
      BY <1>3, <2>2, <3>3 DEF jobVars, Answers
  <2>3. CASE Release(w) /\ ~UNCHANGED jobVars
    <3>1. /\ jStatus'[job[w]] # "running"
          /\ \A i \in JobIds \ {job[w]} : jStatus'[i] = jStatus[i] /\ owner'[i] = owner[i]
      BY <2>3 DEF Release
    <3>2. Answers(w, j) => FALSE
      BY <1>3, <3>1 DEF Answers
    <3> QED
      BY <1>3, <3>1, <3>2
  <2> QED
    BY <1>1, <2>1, <2>2, <2>3
<1>4. \A x \in Workers \ {w} : \A j \in JobIds :
          owner'[j] = owner[j] /\ Answers(x, j) => Answers(x, j)'
  BY <1>2 DEF Answers, Held
<1> QED
  BY <1>3, <1>4, RunningFrame

LEMMA RunningClaim ==
  ASSUME TypeOK, RowsConsistent, RunningIsAnswered, NEW w \in Workers,
         ClaimSelect(w) \/ ClaimUpdate(w)
  PROVE  RunningIsAnswered'
<1> USE DEF TypeOK, ControlTypes, LocalTypes, HeldPcs, TranscodePcs
<1>1. \A x \in Workers \ {w} : pc'[x] = pc[x] /\ job'[x] = job[x]
  BY DEF ClaimSelect, ClaimUpdate, StillQueued, Goto, Return
<1>2. ~Held(w) /\ pc[w] # "dead"
  BY DEF ClaimSelect, ClaimUpdate, Held
<1>3. CASE UNCHANGED jobVars
  <2>1. \A j \in JobIds, x \in Workers : Answers(x, j) => Answers(x, j)'
    BY <1>1, <1>2, <1>3 DEF Answers, Held, jobVars
  <2> QED
    BY <1>3, <2>1, RunningFrame DEF jobVars
<1>4. CASE ClaimUpdate(w) /\ jStatus[job[w]] = "queued"
  <2> DEFINE j == job[w]
  <2>1. j \in JobIds
    BY <1>4, RowsSplit DEF TasksOnRows, ClaimUpdate
  <2>2. /\ \A i \in JobIds \ {j} : jStatus'[i] = jStatus[i] /\ owner'[i] = owner[i]
        /\ owner'[j] = ProcOf[w] /\ job'[w] = j /\ Held(w)'
    BY <1>4, <2>1 DEF ClaimUpdate, StillQueued, JobTypes, Goto, Held
  <2>3. \A i \in JobIds \ {j}, x \in Workers : Answers(x, i) => Answers(x, i)'
    BY <1>1, <1>2, <2>2 DEF Answers, Held
  <2>4. ASSUME NEW i \in JobIds, jStatus'[i] = "running", owner'[i] # Dead
        PROVE  \E x \in Workers : Answers(x, i)'
    <3>1. CASE i = j
      BY <2>2, <3>1 DEF Answers
    <3>2. CASE i # j
      BY <2>2, <2>3, <2>4, <3>2 DEF RunningIsAnswered, Answers
    <3> QED
      BY <3>1, <3>2
  <2> QED
    BY <2>4 DEF RunningIsAnswered, Answers
<1> QED
  BY <1>3, <1>4 DEF ClaimSelect, ClaimUpdate, StillQueued, jobVars

LEMMA RunningStep == TypeOK /\ RowsConsistent /\ RunningIsAnswered /\ [Next]_vars => RunningIsAnswered'
<1> SUFFICES ASSUME TypeOK, RowsConsistent, RunningIsAnswered, [Next]_vars
             PROVE  RunningIsAnswered'
  OBVIOUS
<1>1. CASE RequestStep
  BY <1>1, RunningRequest
<1>2. CASE \E p \in Procs : Start(p) \/ Crash(p)
  BY <1>2, RunningProcess
<1>3. ASSUME NEW w \in Workers, Outcome(w) \/ WorkerDies(w) PROVE RunningIsAnswered'
  BY <1>3, RunningOutcome
<1>4. ASSUME NEW w \in Workers, ClaimSelect(w) \/ ClaimUpdate(w) PROVE RunningIsAnswered'
  BY <1>4, RunningClaim
<1>5. ASSUME NEW w \in Workers, Transcode(w) PROVE RunningIsAnswered'
  <2>1. Move(w)
    BY <1>5, TranscodeShape
  <2>2. /\ UNCHANGED <<jobVars, job>> /\ Held(w) /\ Held(w)'
        /\ \A x \in Workers \ {w} : pc'[x] = pc[x]
    BY <2>1 DEF Move, OthersStay, Held
  <2> QED
    BY <2>2, RunningFrame DEF Answers, Held, jobVars
<1>6. CASE Tick \/ (\E w \in Workers : Heartbeat(w)) \/ UNCHANGED vars
  <2>1. UNCHANGED <<jStatus, owner, pc, job>>
    BY <1>6 DEF Tick, Heartbeat, vars, jobVars, workerVars, localVars
  <2> QED
    BY <2>1, RunningFrame DEF Answers, Held
<1> QED
  BY <1>1, <1>2, <1>3, <1>4, <1>5, <1>6 DEF Next, WorkerStep

\* The tasks that have ended by an error.
Ended == {w \in Workers : pc[w] = "dead"}
EndedInv == IsFiniteSet(Ended) /\ Cardinality(Ended) <= dbErrors

LEMMA EndedInit == Init => EndedInv
<1> SUFFICES ASSUME Init PROVE EndedInv
  OBVIOUS
<1>1. Ended = {} /\ dbErrors = 0
  BY DEF Init, Ended
<1> QED
  BY <1>1, FS_EmptySet DEF EndedInv

LEMMA EndedStep == TypeOK /\ EndedInv /\ [Next]_vars => EndedInv'
<1> SUFFICES ASSUME TypeOK, EndedInv, [Next]_vars PROVE EndedInv'
  OBVIOUS
<1> USE DEF TypeOK, ControlTypes, BoundTypes
<1>0. dbErrors \in Nat
  BY LimitAssumption
<1>1. CASE \E w \in Workers : WorkerDies(w)
  <2>1. PICK w \in Workers : WorkerDies(w)
    BY <1>1
  <2>2. Ended' = Ended \cup {w} /\ dbErrors' = dbErrors + 1
    BY <2>1 DEF WorkerDies, Ended, Goto
  <2>3. /\ IsFiniteSet(Ended \cup {w})
        /\ Cardinality(Ended \cup {w}) \in {Cardinality(Ended), Cardinality(Ended) + 1}
    BY FS_AddElement DEF EndedInv
  <2> QED
    BY <1>0, <2>2, <2>3, FS_CardinalityType DEF EndedInv
<1>2. CASE ~ \E w \in Workers : WorkerDies(w)
  <2>1. Ended' \subseteq Ended /\ dbErrors' = dbErrors
    <3>1. CASE RequestStep
      BY <3>1 DEF RequestStep, InsertVideo, EnqueueUpload, RetryCheck, RetryCommit,
                  DeletePurge, DeleteRow, workerVars, boundVars, Ended
    <3>2. CASE \E p \in Procs : Start(p) \/ Crash(p)
      BY <3>2 DEF Start, Crash, boundVars, Ended
    <3>3. ASSUME NEW w \in Workers, ClaimSelect(w) \/ ClaimUpdate(w)
          PROVE  Ended' \subseteq Ended /\ dbErrors' = dbErrors
      BY <3>3 DEF ClaimSelect, ClaimUpdate, StillQueued, Goto, Return, boundVars, Ended
    <3>4. ASSUME NEW w \in Workers, Outcome(w)
          PROVE  Ended' \subseteq Ended /\ dbErrors' = dbErrors
      BY <3>4 DEF Outcome, LoadVideo, FinishGone, FinishNoRaw, MarkFailed, ReadVerdict,
                  FinishDone, Notify, RequeueJob, GiveUp, Goto, Return, boundVars, Ended
    <3>5. ASSUME NEW w \in Workers, Transcode(w)
          PROVE  Ended' \subseteq Ended /\ dbErrors' = dbErrors
      BY <3>5 DEF Transcode, Probe, ServeOriginal, InsertRenditions, EncodeOne, CountReady,
                  SetReady, SetFailed, UnlinkRaw, NullRaw, Raise, Goto, boundVars, Ended
    <3>6. CASE Tick \/ (\E w \in Workers : Heartbeat(w)) \/ UNCHANGED vars
      BY <3>6 DEF Tick, Heartbeat, vars, workerVars, boundVars, Ended
    <3> QED
      BY <1>2, <3>1, <3>2, <3>3, <3>4, <3>5, <3>6 DEF Next, WorkerStep
  <2>2. IsFiniteSet(Ended') /\ Cardinality(Ended') <= Cardinality(Ended)
    BY <2>1, FS_Subset DEF EndedInv
  <2> QED
    BY <1>0, <2>1, <2>2, FS_CardinalityType DEF EndedInv
<1> QED
  BY <1>1, <1>2

\* A dropped row is the job of a task that has ended.
LEMMA DroppedByEnded ==
  ASSUME TypeOK, RunningIsAnswered, EndedInv
  PROVE  DropsArePaidFor
<1> DEFINE Last == {job[w] : w \in Ended}
<1>1. IsFiniteSet(Last) /\ Cardinality(Last) <= Cardinality(Ended)
  <2> DEFINE f == [w \in Ended |-> job[w]]
  <2>1. f \in Surjection(Ended, Last)
    BY DEF Surjection
  <2> HIDE DEF f, Last
  <2> QED
    BY <2>1, FS_Surjection DEF EndedInv
<1>2. Dropped \subseteq Last
  BY DEF Dropped, RunningIsAnswered, Answers, Ended
<1>3. IsFiniteSet(Dropped) /\ Cardinality(Dropped) <= Cardinality(Last)
  BY <1>1, <1>2, FS_Subset
<1>4. /\ Cardinality(Dropped) \in Nat /\ Cardinality(Last) \in Nat
      /\ Cardinality(Ended) \in Nat /\ dbErrors \in Nat
  BY <1>1, <1>3, FS_CardinalityType, LimitAssumption DEF EndedInv, TypeOK, BoundTypes
<1> QED
  BY <1>1, <1>3, <1>4 DEF EndedInv, DropsArePaidFor

\* Whatever renewals are missed, the rows left running under a live process with
\* none of its workers at work on them are no more than the database errors that
\* ended a worker: a claim sets the owner, and short of a kill only recording an
\* outcome and such an error end the work.
THEOREM OnlyErrorsDropRows == Spec => []DropsArePaidFor
<1>1. TypeOK /\ RowsConsistent /\ RunningIsAnswered /\ EndedInv => DropsArePaidFor
  BY DroppedByEnded
<1> QED
  BY <1>1, TypeInit, RowsInit, RunningInit, EndedInit, TypeStep, RowsStep, RunningStep,
     EndedStep, PTL DEF Spec

\* A row is queued again or given its outcome only by those who may.
LEMMA OwnerStep ==
  ASSUME TypeOK, RowsConsistent, RunningIsAnswered, [Next]_vars
  PROVE  OwnerDecides
<1> SUFFICES ASSUME NEW j \in JobIds, jStatus[j] = "running",
                    jStatus'[j] \in {"queued", "done", "failed"}
             PROVE  \/ lease[j] = 0 /\ \E p \in Procs : Start(p)
                    \/ \E w \in Workers : /\ ProcOf[w] = owner[j] /\ job[w] = j
                                          /\ Held(w) /\ ~Held(w)'
  BY DEF OwnerDecides
<1>1. owner[j] # Nobody
  BY ProcAssumption DEF RunningIsAnswered, Answers
<1>2. CASE RequestStep
  BY <1>2, RequestKeepsRows DEF RowsKept
<1>3. ASSUME NEW p \in Procs, Start(p) PROVE lease[j] = 0
  BY <1>3, RecoverKeepsRows DEF Start, Lapsed
<1>4. CASE \E p \in Procs : Crash(p)
  BY <1>4 DEF Crash
<1>5. ASSUME NEW w \in Workers, Outcome(w) \/ Transcode(w) \/ WorkerDies(w)
      PROVE  ProcOf[w] = owner[j] /\ job[w] = j /\ Held(w) /\ ~Held(w)'
  <2>1. Move(w) \/ Release(w) \/ Leave(w)
    BY <1>5, OutcomeShape, TranscodeShape, DeathShape
  <2>2. Release(w) /\ MayWrite(w) /\ job[w] = j
    BY <2>1 DEF Move, Release, Leave, jobVars
  <2> QED
    BY <1>1, <2>2 DEF MayWrite, Release, Held, HeldPcs, TranscodePcs
<1>6. CASE \E w \in Workers : ClaimUpdate(w)
  BY <1>6 DEF ClaimUpdate, StillQueued, TypeOK, JobTypes
<1>7. CASE Tick \/ (\E w \in Workers : ClaimSelect(w) \/ Heartbeat(w)) \/ UNCHANGED vars
  BY <1>7 DEF Tick, ClaimSelect, Heartbeat, vars, jobVars
<1> QED
  BY <1>2, <1>3, <1>4, <1>5, <1>6, <1>7 DEF Next, WorkerStep

\* Whatever renewals are missed, a running row is given its outcome, or queued
\* again, only by a worker of the process that owns it, or by recovery once its
\* lease has lapsed.
THEOREM OwnersDecideOutcomes == Spec => OwnersDecide
<1>1. TypeOK /\ RowsConsistent /\ RunningIsAnswered /\ [Next]_vars => [OwnerDecides]_vars
  BY OwnerStep
<1> QED
  BY <1>1, TypeInit, RowsInit, RunningInit, TypeStep, RowsStep, RunningStep, PTL
     DEF Spec, OwnersDecide

-----------------------------------------------------------------------------
(* The rows and leases implement JobBoard, as long as live workers renew in time. *)

\* Worker w works on job j, and the row of j still stands for it.
WorksOn(w, j) == Held(w) /\ job[w] = j /\ jStatus[j] = "running"

\* The board as it is read off the rows, without a choice of the holder.
BoardView ==
    /\ BoardState = [j \in JobIds |-> BoardState[j]]
    /\ BoardHolder = [j \in JobIds |-> BoardHolder[j]]
    /\ \A j \in JobIds : \A w \in Workers : WorksOn(w, j) =>
            BoardState[j] = "held" /\ BoardHolder[j] = w
    /\ \A j \in JobIds : (\A w \in Workers : ~WorksOn(w, j)) =>
            /\ BoardHolder[j] = Nobody
            /\ BoardState[j] = IF jStatus[j] = "running" THEN "lost" ELSE jStatus[j]

LEMMA ViewIsTrue == Exclusive => BoardView
<1> SUFFICES ASSUME Exclusive PROVE BoardView
  OBVIOUS
<1>1. /\ BoardState = [j \in JobIds |-> BoardState[j]]
      /\ BoardHolder = [j \in JobIds |-> BoardHolder[j]]
  BY DEF BoardState, BoardHolder
<1>2. ASSUME NEW j \in JobIds, NEW w \in Workers, WorksOn(w, j)
      PROVE  BoardState[j] = "held" /\ BoardHolder[j] = w
  <2>1. Holder(j) \in Workers /\ Held(Holder(j)) /\ job[Holder(j)] = j
    BY <1>2 DEF WorksOn, Holder
  <2>2. Holder(j) = w
    BY <1>2, <2>1 DEF WorksOn, Exclusive, SoleRunner
  <2> QED
    BY <1>2, <2>2 DEF WorksOn, BoardState, BoardHolder
<1>3. ASSUME NEW j \in JobIds, \A w \in Workers : ~WorksOn(w, j)
      PROVE  /\ BoardHolder[j] = Nobody
             /\ BoardState[j] = IF jStatus[j] = "running" THEN "lost" ELSE jStatus[j]
  BY <1>3 DEF WorksOn, BoardState, BoardHolder
<1> QED
  BY <1>1, <1>2, <1>3 DEF BoardView

\* A job's place on the board: what its row says, and who works on it.
SamePlace(j) == /\ jStatus'[j] = jStatus[j]
                /\ \A w \in Workers : WorksOn(w, j)' <=> WorksOn(w, j)

LEMMA PlaceKept ==
  ASSUME BoardView, BoardView', NEW j \in JobIds, SamePlace(j)
  PROVE  BoardState'[j] = BoardState[j] /\ BoardHolder'[j] = BoardHolder[j]
<1>1. CASE \E w \in Workers : WorksOn(w, j)
  <2>1. PICK w \in Workers : WorksOn(w, j) /\ WorksOn(w, j)'
    BY <1>1 DEF SamePlace
  <2> QED
    BY <2>1 DEF BoardView
<1>2. CASE \A w \in Workers : ~WorksOn(w, j)
  BY <1>2 DEF BoardView, SamePlace
<1> QED
  BY <1>1, <1>2

LEMMA BoardStutters ==
  ASSUME BoardView, BoardView', \A j \in JobIds : SamePlace(j)
  PROVE  UNCHANGED Board!bvars
  BY PlaceKept DEF BoardView, Board!bvars

-----------------------------------------------------------------------------
(* The board: the steps of requests and processes. *)

\* Tasks go on with their jobs.
TasksStay == \A w \in Workers : (Held(w)' <=> Held(w)) /\ (Held(w) => job'[w] = job[w])

\* A job that is inserted appears on the board.
LEMMA EnqueuePosts ==
  ASSUME QueueInv, BoardView, BoardView', NEW v, Enqueue(v), TasksStay,
         NEW n \in JobIds, n = nextJob
  PROVE  Board!Post({n}, {})
<1>1. n \in JobIds /\ jStatus[n] = "absent" /\ jStatus'[n] = "queued"
      /\ \A j \in JobIds \ {n} : jStatus'[j] = jStatus[j]
  <2>1. n \in JobIds /\ jStatus \in [JobIds -> JobStatus]
        /\ jStatus' = [jStatus EXCEPT ![n] = "queued"]
    BY DEF Enqueue, QueueInv, TypeOK, JobTypes
  <2>2. jStatus[n] = "absent"
    BY <2>1, LimitAssumption DEF QueueInv, RowsConsistent, JobIds
  <2> QED
    BY <2>1, <2>2
<1>2. \A w \in Workers : ~WorksOn(w, n) /\ ~WorksOn(w, n)'
  BY <1>1 DEF WorksOn
<1>3. \A j \in JobIds \ {n} : SamePlace(j)
  BY <1>1 DEF SamePlace, WorksOn, TasksStay
<1>4. BoardState[n] = "absent" /\ BoardHolder[n] = Nobody
      /\ BoardState'[n] = "queued" /\ BoardHolder'[n] = Nobody
  BY <1>1, <1>2 DEF BoardView
<1>5. \A j \in JobIds \ {n} : BoardState'[j] = BoardState[j] /\ BoardHolder'[j] = BoardHolder[j]
  BY <1>3, PlaceKept
<1>6. BoardState' = [j \in JobIds |-> IF j \in {n} \cup {} THEN "queued" ELSE BoardState[j]]
  BY <1>4, <1>5 DEF BoardView
<1>7. BoardHolder' = BoardHolder
  BY <1>4, <1>5 DEF BoardView
<1> QED
  BY <1>1, <1>4, <1>6, <1>7 DEF Board!Post

LEMMA DeletionRemoves ==
  ASSUME QueueInv, BoardView, BoardView', NEW d \in Deletes, DeleteRow(d)
  PROVE  \E old \in SUBSET JobIds : Board!Remove(old)
<1> DEFINE old == {j \in JobIds : jVideo[j] = dVideo[d]}
<1>1. \A j \in JobIds : jStatus'[j] = IF j \in old THEN "gone" ELSE jStatus[j]
  BY DEF DeleteRow
<1>2. TasksStay
  BY DEF DeleteRow, workerVars, localVars, TasksStay, Held
<1>3. \A j \in old : jStatus[j] # "absent"
  BY ProcAssumption DEF QueueInv, RowsConsistent, DeleteRow
<1>4. \A j \in JobIds \ old : BoardState'[j] = BoardState[j] /\ BoardHolder'[j] = BoardHolder[j]
  BY <1>1, <1>2, PlaceKept DEF SamePlace, WorksOn, TasksStay
<1>5. \A j \in old : BoardState'[j] = "gone" /\ BoardHolder'[j] = Nobody
  BY <1>1 DEF BoardView, WorksOn
<1>6. \A j \in old : BoardState[j] # "absent"
  <2> TAKE j \in old
  <2>1. CASE \E w \in Workers : WorksOn(w, j)
    BY <2>1 DEF BoardView
  <2>2. CASE \A w \in Workers : ~WorksOn(w, j)
    BY <1>3, <2>2 DEF BoardView
  <2> QED
    BY <2>1, <2>2
<1>7. /\ BoardState' = [j \in JobIds |-> IF j \in old THEN "gone" ELSE BoardState[j]]
      /\ BoardHolder' = [j \in JobIds |-> IF j \in old THEN Nobody ELSE BoardHolder[j]]
  BY <1>4, <1>5 DEF BoardView
<1> QED
  BY <1>6, <1>7 DEF Board!Remove

LEMMA RequestOnBoard ==
  ASSUME QueueInv, BoardView, BoardView', RequestStep
  PROVE  [Board!Next]_(Board!bvars)
<1>1. TasksStay
  BY DEF RequestStep, InsertVideo, EnqueueUpload, RetryCheck, RetryCommit, DeletePurge,
         DeleteRow, workerVars, localVars, TasksStay, Held
<1>2. CASE UNCHANGED jobVars
  BY <1>1, <1>2, BoardStutters DEF SamePlace, WorksOn, TasksStay, jobVars
<1>3. ASSUME NEW v, Enqueue(v) PROVE Board!Next
  <2>1. nextJob \in JobIds
    BY <1>3 DEF Enqueue
  <2> QED
    BY <1>1, <1>3, <2>1, EnqueuePosts DEF Board!Next
<1>4. CASE \E d \in Deletes : DeleteRow(d)
  BY <1>4, DeletionRemoves DEF Board!Next
<1>5. CASE \E v \in Videos : EnqueueUpload(v)
  BY <1>2, <1>3, <1>5 DEF EnqueueUpload
<1>6. CASE \E r \in Retries : RetryCommit(r)
  BY <1>2, <1>3, <1>6 DEF RetryCommit
<1> QED
  BY <1>2, <1>4, <1>5, <1>6 DEF RequestStep, InsertVideo, RetryCheck, DeletePurge

\* Recovery puts lost jobs back and posts one for each orphan.
LEMMA RecoveryPosts ==
  ASSUME QueueInv, BoardView, BoardView', RequeueOrphans, TasksStay
  PROVE  \E new, back \in SUBSET JobIds : Board!Post(new, back)
<1>1. PICK last \in (nextJob - 1)..MaxJobs :
         \E f \in Numberings(nextJob..last, Orphans) : Recover(nextJob..last, f, last)
  BY DEF RequeueOrphans
<1> DEFINE new == nextJob..last
<1>2. new \subseteq JobIds /\ Lapsed \subseteq JobIds
  BY LimitAssumption DEF QueueInv, TypeOK, JobTypes, JobIds, Lapsed
<1>3. \A j \in JobIds : jStatus'[j] = IF j \in Lapsed \cup new THEN "queued" ELSE jStatus[j]
  BY <1>1 DEF Recover
<1>4. \A j \in new : jStatus[j] = "absent"
  BY <1>2 DEF QueueInv, RowsConsistent, TypeOK, JobTypes, JobIds
<1>5. \A j \in Lapsed : jStatus[j] = "running" /\ \A w \in Workers : ~WorksOn(w, j)
  BY LeaseLeft DEF QueueInv, Lapsed, WorksOn
<1>6. \A j \in new : BoardState[j] = "absent" /\ BoardHolder[j] = Nobody
  BY <1>2, <1>4 DEF BoardView, WorksOn
<1>7. \A j \in Lapsed : BoardState[j] = "lost" /\ BoardHolder[j] = Nobody
  BY <1>2, <1>5 DEF BoardView
<1>8. \A j \in new \cup Lapsed : BoardState'[j] = "queued" /\ BoardHolder'[j] = Nobody
  BY <1>2, <1>3 DEF BoardView, WorksOn
<1>9. \A j \in JobIds \ (new \cup Lapsed) :
            BoardState'[j] = BoardState[j] /\ BoardHolder'[j] = BoardHolder[j]
  BY <1>3, PlaceKept DEF SamePlace, WorksOn, TasksStay
<1>10. BoardState' = [j \in JobIds |-> IF j \in new \cup Lapsed THEN "queued" ELSE BoardState[j]]
  BY <1>8, <1>9 DEF BoardView
<1>11. BoardHolder' = BoardHolder
  <2>1. \A j \in JobIds : BoardHolder'[j] = BoardHolder[j]
    BY <1>6, <1>7, <1>8, <1>9
  <2> QED
    BY <2>1 DEF BoardView
<1>12. Board!Post(new, Lapsed)
  BY <1>6, <1>7, <1>10, <1>11 DEF Board!Post
<1> QED
  BY <1>2, <1>12

\* What the workers of a killed process held is lost.
LEMMA CrashLoses ==
  ASSUME QueueInv, BoardView, BoardView', NEW p \in Procs, Crash(p)
  PROVE  \E W \in SUBSET Workers : Board!Lose(W)
<1> DEFINE W == {w \in Workers : ProcOf[w] = p}
<1>1. UNCHANGED jStatus
  BY DEF Crash
<1>2. \A w \in Workers, j \in JobIds : WorksOn(w, j)' <=> (WorksOn(w, j) /\ w \notin W)
  BY DEF Crash, WorksOn, Held, HeldPcs, TranscodePcs, QueueInv, TypeOK, ControlTypes, LocalTypes
<1>3. ASSUME NEW j \in JobIds
      PROVE  /\ BoardState'[j] = IF BoardHolder[j] \in W THEN "lost" ELSE BoardState[j]
             /\ BoardHolder'[j] = IF BoardHolder[j] \in W THEN Nobody ELSE BoardHolder[j]
  <2>1. CASE \E w \in W : WorksOn(w, j)
    <3>1. PICK w \in W : WorksOn(w, j)
      BY <2>1
    <3>2. BoardHolder[j] = w /\ jStatus[j] = "running"
      BY <3>1 DEF BoardView, WorksOn
    <3>3. \A x \in Workers : ~WorksOn(x, j)'
      BY <1>2, <3>1, <3>2 DEF BoardView
    <3> QED
      BY <1>1, <3>2, <3>3 DEF BoardView
  <2>2. CASE ~\E w \in W : WorksOn(w, j)
    <3>1. BoardHolder[j] \notin W
      BY <2>2, ProcAssumption DEF BoardView
    <3>2. SamePlace(j)
      BY <1>1, <1>2, <2>2 DEF SamePlace
    <3> QED
      BY <3>1, <3>2, PlaceKept
  <2> QED
    BY <2>1, <2>2
<1>4. /\ BoardState' = [j \in JobIds |-> IF BoardHolder[j] \in W THEN "lost" ELSE BoardState[j]]
      /\ BoardHolder' = [j \in JobIds |-> IF BoardHolder[j] \in W THEN Nobody ELSE BoardHolder[j]]
  BY <1>3 DEF BoardView
<1>5. Board!Lose(W)
  BY <1>4 DEF Board!Lose
<1> QED
  BY <1>5

LEMMA ProcessOnBoard ==
  ASSUME QueueInv, BoardView, BoardView', NEW p \in Procs, Start(p) \/ Crash(p)
  PROVE  Board!Next
<1>1. CASE Start(p)
  <2>1. TasksStay
    BY <1>1 DEF Start, TasksStay, Held, HeldPcs, TranscodePcs, localVars, QueueInv, TypeOK,
                ControlTypes, RowsConsistent
  <2> QED
    BY <1>1, <2>1, RecoveryPosts DEF Start, Board!Next
<1>2. CASE Crash(p)
  BY <1>2, CrashLoses DEF Board!Next
<1> QED
  BY <1>1, <1>2

-----------------------------------------------------------------------------
(* The board: the steps of workers. *)

LEMMA ClaimOnBoard ==
  ASSUME QueueInv, BoardView, BoardView', NEW w \in Workers, ClaimSelect(w) \/ ClaimUpdate(w)
  PROVE  [Board!Next]_(Board!bvars)
<1> USE DEF QueueInv, TypeOK, ControlTypes, LocalTypes, HeldPcs, TranscodePcs
<1>1. ~Held(w) /\ \A x \in Workers \ {w} : /\ Held(x)' <=> Held(x)
                                           /\ job'[x] = job[x]
  BY DEF ClaimSelect, ClaimUpdate, StillQueued, Goto, Return, Held
<1>2. CASE ~Held(w)' /\ UNCHANGED jobVars
  <2>1. \A j \in JobIds : SamePlace(j)
    BY <1>1, <1>2 DEF SamePlace, WorksOn, jobVars
  <2> QED
    BY <2>1, BoardStutters
<1>3. ASSUME NEW n \in JobIds, n = job[w], ClaimUpdate(w), jStatus[n] = "queued"
      PROVE  Board!Take(w, n)
  <2>1. /\ \A j \in JobIds \ {n} : jStatus'[j] = jStatus[j]
        /\ jStatus'[n] = "running" /\ job'[w] = n /\ Held(w)'
    BY <1>3 DEF ClaimUpdate, StillQueued, JobTypes, Goto, Held
  <2>2. \A j \in JobIds \ {n} : SamePlace(j)
    BY <1>1, <2>1 DEF SamePlace, WorksOn
  <2>3. \A x \in Workers : ~WorksOn(x, n)
    BY <1>3 DEF WorksOn
  <2>4. BoardState[n] = "queued" /\ BoardHolder[n] = Nobody
    BY <1>3, <2>3 DEF BoardView
  <2>5. WorksOn(w, n)'
    BY <2>1 DEF WorksOn
  <2>6. BoardState'[n] = "held" /\ BoardHolder'[n] = w
    BY <2>5 DEF BoardView
  <2>7. \A j \in JobIds \ {n} : BoardState'[j] = BoardState[j] /\ BoardHolder'[j] = BoardHolder[j]
    BY <2>2, PlaceKept
  <2>8. ASSUME NEW k \in JobIds PROVE BoardHolder[k] # w
    <3>1. ~WorksOn(w, k)
      BY <1>1 DEF WorksOn
    <3> QED
      BY <3>1, ProcAssumption DEF BoardView
  <2>9. /\ BoardState' = [BoardState EXCEPT ![n] = "held"]
        /\ BoardHolder' = [BoardHolder EXCEPT ![n] = w]
    BY <2>6, <2>7 DEF BoardView
  <2> QED
    BY <2>4, <2>8, <2>9 DEF Board!Take
<1>4. CASE ClaimUpdate(w) /\ jStatus[job[w]] = "queued"
  <2>1. job[w] \in JobIds
    BY <1>4, RowsSplit DEF TasksOnRows, ClaimUpdate
  <2> QED
    BY <1>3, <1>4, <2>1 DEF Board!Next
<1> QED
  BY <1>2, <1>4 DEF ClaimSelect, ClaimUpdate, StillQueued, Goto, Return, Held, jobVars

\* A worker that goes on, or that held nothing, does not touch the board.
LEMMA QuietOnBoard ==
  ASSUME QueueInv, BoardView, BoardView', NEW w \in Workers, Move(w) \/ Leave(w)
  PROVE  UNCHANGED Board!bvars
<1>1. \A x \in Workers : (Held(x)' <=> Held(x)) /\ (Held(x) => job'[x] = job[x])
  BY DEF Move, Leave, OthersStay, Held, HeldPcs, TranscodePcs
<1>2. \A j \in JobIds : SamePlace(j)
  BY <1>1 DEF SamePlace, WorksOn, Move, Leave, jobVars
<1> QED
  BY <1>2, BoardStutters

\* A worker that ends its hold releases the job with what it recorded; one that
\* recorded nothing has lost the row to a deletion, or is dying.
LEMMA ReleaseOnBoard ==
  ASSUME QueueInv, BoardView, BoardView', NEW w \in Workers, Release(w)
  PROVE  [Board!Next]_(Board!bvars)
<1> PICK n : n = job[w]
  OBVIOUS
<1>1. n \in JobIds /\ jStatus[n] # "absent"
  BY RowsSplit DEF TasksOnRows, Release, Held, QueueInv
<1>2. \A x \in Workers \ {w} : (Held(x)' <=> Held(x)) /\ job'[x] = job[x]
  BY DEF Release, OthersStay, Held
<1>3. Held(w) /\ ~Held(w)'
  BY DEF Release, Held, HeldPcs, TranscodePcs
<1>4. ASSUME NEW j \in JobIds \ {n}, jStatus'[j] = jStatus[j] PROVE SamePlace(j)
  BY <1>2, <1>3, <1>4 DEF SamePlace, WorksOn
<1>5. CASE jStatus[n] = "gone" /\ UNCHANGED jobVars
  <2>1. SamePlace(n)
    BY <1>5 DEF SamePlace, WorksOn, jobVars
  <2> QED
    BY <1>4, <1>5, <2>1, BoardStutters DEF jobVars
<1>6. CASE jStatus[n] # "gone"
  <2>1. WorksOn(w, n)
    BY <1>1, <1>3, <1>6 DEF WorksOn, QueueInv, Exclusive, RunnerHoldsLease
  <2>2. BoardState[n] = "held" /\ BoardHolder[n] = w
    BY <1>1, <2>1 DEF BoardView
  <2>3. \A x \in Workers : WorksOn(x, n) => x = w
    BY <1>1, <2>2 DEF BoardView
  <2>4. \A x \in Workers : ~WorksOn(x, n)'
    <3> SUFFICES ASSUME NEW x \in Workers, WorksOn(x, n)' PROVE FALSE
      OBVIOUS
    <3>1. x # w /\ Held(x) /\ job[x] = n
      BY <1>2, <1>3 DEF WorksOn
    <3> QED
      BY <2>1, <2>3, <3>1 DEF WorksOn
  <2>5. CASE UNCHANGED jobVars
    <3>1. BoardState'[n] = "lost" /\ BoardHolder'[n] = Nobody
      BY <1>1, <2>1, <2>4, <2>5 DEF BoardView, jobVars, WorksOn
    <3>2. \A j \in JobIds \ {n} : BoardState'[j] = BoardState[j] /\ BoardHolder'[j] = BoardHolder[j]
      BY <1>4, <2>5, PlaceKept DEF jobVars
    <3>3. \A j \in JobIds \ {n} : BoardHolder[j] # w
      <4> TAKE j \in JobIds \ {n}
      <4>1. ~WorksOn(w, j)
        BY DEF WorksOn
      <4> QED
        BY <4>1, ProcAssumption DEF BoardView
    <3>4. \A j \in JobIds :
              /\ BoardState'[j] = IF BoardHolder[j] \in {w} THEN "lost" ELSE BoardState[j]
              /\ BoardHolder'[j] = IF BoardHolder[j] \in {w} THEN Nobody ELSE BoardHolder[j]
      BY <2>2, <3>1, <3>2, <3>3
    <3>5. Board!Lose({w})
      BY <3>4 DEF Board!Lose, BoardView
    <3> QED
      BY <3>5 DEF Board!Next
  <2>6. CASE /\ jStatus'[n] \in {"queued", "done", "failed"}
             /\ \A j \in JobIds \ {n} : jStatus'[j] = jStatus[j]
    <3>1. BoardState'[n] = jStatus'[n] /\ BoardHolder'[n] = Nobody
      BY <1>1, <2>4, <2>6 DEF BoardView
    <3>2. \A j \in JobIds \ {n} : BoardState'[j] = BoardState[j] /\ BoardHolder'[j] = BoardHolder[j]
      BY <1>4, <2>6, PlaceKept
    <3>3. /\ BoardState' = [BoardState EXCEPT ![n] = jStatus'[n]]
          /\ BoardHolder' = [BoardHolder EXCEPT ![n] = Nobody]
      BY <3>1, <3>2 DEF BoardView
    <3>4. Board!Release(w, n, jStatus'[n])
      BY <2>2, <3>3 DEF Board!Release
    <3> QED
      BY <1>1, <2>6, <3>4 DEF Board!Next
  <2> QED
    BY <2>5, <2>6 DEF Release
<1> QED
  BY <1>5, <1>6 DEF Release, MayWrite

LEMMA TimeOnBoard ==
  ASSUME BoardView, BoardView', Tick \/ (\E w \in Workers : Heartbeat(w)) \/ UNCHANGED vars
  PROVE  UNCHANGED Board!bvars
<1>1. UNCHANGED <<jStatus, pc, job>>
  BY DEF Tick, Heartbeat, vars, jobVars, workerVars, localVars
<1>2. \A j \in JobIds : SamePlace(j)
  BY <1>1 DEF SamePlace, WorksOn, Held
<1> QED
  BY <1>2, BoardStutters

LEMMA StepOnBoard ==
  ASSUME QueueInv, BoardView, BoardView', [Next]_vars
  PROVE  [Board!Next]_(Board!bvars)
<1>1. CASE RequestStep
  BY <1>1, RequestOnBoard
<1>2. CASE \E p \in Procs : Start(p) \/ Crash(p)
  BY <1>2, ProcessOnBoard
<1>3. ASSUME NEW w \in Workers, WorkerStep(w) \/ WorkerDies(w)
      PROVE  [Board!Next]_(Board!bvars)
  <2>1. CASE ClaimSelect(w) \/ ClaimUpdate(w)
    BY <2>1, ClaimOnBoard
  <2>2. CASE Outcome(w) \/ Transcode(w) \/ WorkerDies(w)
    <3>1. Move(w) \/ Release(w) \/ Leave(w)
      BY <2>2, OutcomeShape, TranscodeShape, DeathShape DEF QueueInv
    <3> QED
      BY <3>1, QuietOnBoard, ReleaseOnBoard
  <2> QED
    BY <1>3, <2>1, <2>2 DEF WorkerStep
<1>4. CASE Tick \/ (\E w \in Workers : Heartbeat(w)) \/ UNCHANGED vars
  BY <1>4, TimeOnBoard
<1> QED
  BY <1>1, <1>2, <1>3, <1>4 DEF Next

LEMMA BoardInit == Init /\ BoardView => Board!Init
<1> SUFFICES ASSUME Init, BoardView PROVE Board!Init
  OBVIOUS
<1>1. \A j \in JobIds : BoardState[j] = "absent" /\ BoardHolder[j] = Nobody
  BY DEF Init, BoardView, WorksOn
<1> QED
  BY <1>1 DEF BoardView, Board!Init

\* As long as live workers renew in time, the rows, leases and tasks behave like
\* the board: each job waits, is held by one live worker, and is let go of only by
\* that worker, by its death or by the deletion of the job; outcomes are final.
THEOREM QueueImplementsBoard ==
  ASSUME Stalls = FALSE
  PROVE  Spec => BoardSpec
<1>1. QueueInv => BoardView
  BY ViewIsTrue DEF QueueInv
<1>2. Init /\ BoardView => Board!Init
  BY BoardInit
<1>3. QueueInv /\ BoardView /\ BoardView' /\ [Next]_vars => [Board!Next]_(Board!bvars)
  BY StepOnBoard
<1> QED
  BY <1>1, <1>2, <1>3, QueueInit, QueueStep, PTL DEF Spec, BoardSpec, Board!Spec
=============================================================================
