------------------------ MODULE TranscodeVideoProofs ------------------------
(***************************************************************************)
(* Theorems about TranscodeQueue when workers renew their leases in time:  *)
(* how often a job is attempted, for every number of processes; and, for   *)
(* one process, that a video has at most one job and one transcode, keeps  *)
(* a rendition to show, and is never left pending with nothing to come.    *)
(***************************************************************************)
EXTENDS TranscodeQueueProofs, FiniteSetTheorems

-----------------------------------------------------------------------------
(* Attempts. *)

WorkersAssumption == IsFiniteSet(Workers) /\ Workers # {}

\* Claims of j in progress whose SELECT read attempts that are now out of date:
\* their runs will not be the last.
StalePicks(j) == {w \in Workers : pc[w] = "picked" /\ job[w] = j /\ tries[w] < MaxAttempts}

\* The worker on j knows its attempt for the last one.
LastAttempt(j) == \E w \in Workers : Held(w) /\ job[w] = j /\ tries[w] >= MaxAttempts
MayRunAgain(j) == jStatus[j] = "queued" \/ (jStatus[j] = "running" /\ ~LastAttempt(j))
Again(j) == IF MayRunAgain(j) THEN 1 ELSE 0

\* From the last regular attempt on, attempts made and attempts still to come are
\* bounded together.
Budget == MaxAttempts + crashes + dbErrors + Cardinality(Workers) - 1
WithinBudget(j) ==
    attempts[j] >= MaxAttempts - 1 =>
        attempts[j] + Cardinality(StalePicks(j)) + Again(j) <= Budget

NoEarlyAttempts == \A j \in JobIds : jStatus[j] = "absent" => attempts[j] = 0
BudgetInv == NoEarlyAttempts /\ \A j \in JobIds : WithinBudget(j)

LEMMA PicksCounted ==
  ASSUME IsFiniteSet(Workers), NEW S \in SUBSET Workers
  PROVE  /\ Cardinality(S) \in Nat /\ Cardinality(S) <= Cardinality(Workers)
         /\ \A T \in SUBSET S : Cardinality(T) <= Cardinality(S)
         /\ \A w \in S : \A T \in SUBSET (S \ {w}) :
                Cardinality(T) <= Cardinality(S) - 1
<1>1. IsFiniteSet(S) /\ Cardinality(S) <= Cardinality(Workers)
  BY FS_Subset
<1>2. \A T \in SUBSET S : Cardinality(T) <= Cardinality(S)
  BY <1>1, FS_Subset
<1>3. ASSUME NEW w \in S, NEW T \in SUBSET (S \ {w})
      PROVE  Cardinality(T) <= Cardinality(S) - 1
  <2>1. IsFiniteSet(S \ {w}) /\ Cardinality(S \ {w}) = Cardinality(S) - 1
    BY <1>1, FS_RemoveElement
  <2> QED
    BY <2>1, FS_Subset
<1> QED
  BY <1>1, <1>2, <1>3, FS_CardinalityType

LEMMA BudgetTypes ==
  ASSUME TypeOK, WorkersAssumption, NEW j \in JobIds
  PROVE  /\ attempts[j] \in Nat /\ MaxAttempts \in Nat /\ MaxAttempts >= 1
         /\ crashes \in Nat /\ dbErrors \in Nat
         /\ Cardinality(Workers) \in Nat /\ Cardinality(Workers) >= 1
         /\ Cardinality(StalePicks(j)) \in Nat /\ StalePicks(j) \subseteq Workers
         /\ Again(j) \in {0, 1}
<1>1. StalePicks(j) \subseteq Workers
  BY DEF StalePicks
<1>2. PICK w : w \in Workers
  BY DEF WorkersAssumption
<1>3. Cardinality({w}) = 1
  BY FS_Singleton
<1>4. Cardinality(Workers) \in Nat /\ Cardinality(Workers) >= 1
  BY <1>2, <1>3, PicksCounted DEF WorkersAssumption
<1> QED
  BY <1>1, <1>4, LimitAssumption, PicksCounted
     DEF TypeOK, JobTypes, BoundTypes, Again, WorkersAssumption

\* It is enough that no attempt is made, that no claim becomes stale, and that a job
\* that may run again might before, or there was another fault.
LEMMA BudgetFrame ==
  ASSUME TypeOK, TypeOK', WorkersAssumption, NEW j \in JobIds, WithinBudget(j),
         attempts'[j] = attempts[j], StalePicks(j)' \subseteq StalePicks(j),
         crashes' >= crashes, dbErrors' >= dbErrors,
         MayRunAgain(j)' => MayRunAgain(j) \/ crashes' + dbErrors' > crashes + dbErrors
  PROVE  WithinBudget(j)'
<1>1. Cardinality(StalePicks(j)') <= Cardinality(StalePicks(j))
  BY PicksCounted, BudgetTypes DEF WorkersAssumption
<1>2. /\ attempts[j] \in Nat /\ MaxAttempts \in Nat
      /\ crashes \in Nat /\ dbErrors \in Nat /\ crashes' \in Nat /\ dbErrors' \in Nat
      /\ Cardinality(Workers) \in Nat /\ Cardinality(StalePicks(j)) \in Nat
      /\ Cardinality(StalePicks(j)') \in Nat
  BY BudgetTypes, PicksCounted DEF StalePicks, WorkersAssumption, TypeOK, BoundTypes
<1>3. Again(j)' <= Again(j) + (crashes' - crashes) + (dbErrors' - dbErrors)
  BY <1>2 DEF Again
<1>4. Again(j) \in {0, 1} /\ Again(j)' \in {0, 1}
  BY DEF Again
<1> QED
  BY <1>1, <1>2, <1>3, <1>4 DEF WithinBudget, Budget

\* Nobody is about to claim a job that is only now inserted.
LEMMA BudgetNew ==
  ASSUME TypeOK, TypeOK', RowsConsistent, WorkersAssumption, NEW j \in JobIds,
         jStatus[j] = "absent", BudgetInv, attempts'[j] = attempts[j],
         StalePicks(j)' \subseteq StalePicks(j)
  PROVE  WithinBudget(j)'
<1>1. StalePicks(j) = {}
  BY RowsSplit DEF StalePicks, TasksOnRows
<1>2. Cardinality(StalePicks(j)') = 0
  BY <1>1, FS_EmptySet
<1>3. attempts'[j] = 0
  BY DEF BudgetInv, NoEarlyAttempts
<1>4. Again(j)' \in {0, 1} /\ crashes' \in Nat /\ dbErrors' \in Nat
  BY DEF Again, TypeOK, BoundTypes
<1>5. MaxAttempts \in Nat /\ MaxAttempts >= 1
      /\ Cardinality(Workers) \in Nat /\ Cardinality(Workers) >= 1
  BY BudgetTypes
<1> QED
  BY <1>2, <1>3, <1>4, <1>5, LimitAssumption DEF WithinBudget, Budget

LEMMA BudgetRequest ==
  ASSUME TypeOK, TypeOK', RowsConsistent, WorkersAssumption, BudgetInv, RequestStep
  PROVE  BudgetInv'
<1>1. UNCHANGED <<pc, job, tries, attempts, boundVars>>
  BY DEF RequestStep, InsertVideo, EnqueueUpload, RetryCheck, RetryCommit, DeletePurge,
         DeleteRow, Enqueue, workerVars, localVars, jobVars
<1>2. \A j \in JobIds : jStatus'[j] = "absent" => jStatus[j] = "absent"
  <2>1. RowsConsistent'
    BY RowsRequest
  <2> QED
    BY <2>1, RequestKeepsRows DEF RowsKept
<1>3. \A j \in JobIds : StalePicks(j)' = StalePicks(j) /\ (LastAttempt(j)' <=> LastAttempt(j))
  BY <1>1 DEF StalePicks, LastAttempt, Held
<1>4. ASSUME NEW j \in JobIds PROVE WithinBudget(j)'
  <2>1. CASE jStatus[j] = "absent"
    BY <1>1, <1>3, <2>1, BudgetNew
  <2>2. CASE jStatus[j] # "absent"
    <3>1. MayRunAgain(j)' => MayRunAgain(j)
      BY <1>3, <2>2, RequestKeepsRows DEF RowsKept, MayRunAgain
    <3>2. crashes' >= crashes /\ dbErrors' >= dbErrors
      BY <1>1, BudgetTypes DEF boundVars
    <3> QED
      BY <1>1, <1>3, <3>1, <3>2, BudgetFrame DEF BudgetInv
  <2> QED
    BY <2>1, <2>2
<1> QED
  BY <1>1, <1>2, <1>4 DEF BudgetInv, NoEarlyAttempts

LEMMA BudgetProcess ==
  ASSUME TypeOK, TypeOK', RowsConsistent, Exclusive, WorkersAssumption, BudgetInv,
         NEW p \in Procs, Start(p) \/ Crash(p)
  PROVE  BudgetInv'
<1> USE ProcAssumption
<1>1. CASE Start(p)
  <2>1. RowsConsistent' /\ UNCHANGED <<job, tries, attempts, boundVars>>
    BY <1>1, RowsProcess DEF Start, RequeueOrphans, Recover, localVars
  <2>2. \A w \in Workers : ProcOf[w] = p => pc[w] = "down"
    BY <1>1, RowsSplit DEF Start, DownTasks
  <2>3. \A w \in Workers : pc'[w] = IF ProcOf[w] = p THEN "idle" ELSE pc[w]
    BY <1>1 DEF Start
  <2>4. \A w \in Workers : (Held(w)' <=> Held(w)) /\ (pc'[w] = "picked" <=> pc[w] = "picked")
    BY <2>2, <2>3 DEF Held, HeldPcs, TranscodePcs
  <2>5. \A j \in JobIds : StalePicks(j)' = StalePicks(j) /\ (LastAttempt(j)' <=> LastAttempt(j))
    BY <2>1, <2>4 DEF StalePicks, LastAttempt
  <2>6. \A j \in JobIds : jStatus[j] # "absent" /\ j \notin Lapsed => jStatus'[j] = jStatus[j]
    BY <1>1, RecoverKeepsRows DEF Start
  <2>7. \A j \in JobIds : jStatus'[j] = "absent" => jStatus[j] = "absent"
    BY <2>1, <2>6, <1>1 DEF Lapsed, Start, RequeueOrphans, Recover
  <2>8. \A j \in Lapsed : jStatus[j] = "running" /\ ~LastAttempt(j)
    BY LeaseLeft DEF Lapsed, LastAttempt
  <2>9. ASSUME NEW j \in JobIds PROVE WithinBudget(j)'
    <3>1. CASE jStatus[j] = "absent"
      BY <2>1, <2>5, <3>1, BudgetNew
    <3>2. CASE jStatus[j] # "absent"
      <4>1. MayRunAgain(j)' => MayRunAgain(j)
        BY <2>5, <2>6, <2>8, <3>2 DEF MayRunAgain
      <4>2. crashes' >= crashes /\ dbErrors' >= dbErrors
        BY <2>1, BudgetTypes DEF boundVars
      <4> QED
        BY <2>1, <2>5, <4>1, <4>2, BudgetFrame DEF BudgetInv
    <3> QED
      BY <3>1, <3>2
  <2> QED
    BY <2>1, <2>7, <2>9 DEF BudgetInv, NoEarlyAttempts
<1>2. CASE Crash(p)
  <2>1. UNCHANGED <<jStatus, attempts, dbErrors>> /\ crashes' = crashes + 1
    BY <1>2 DEF Crash
  <2>2. \A w \in Workers : /\ pc'[w] = "picked" => pc[w] = "picked" /\ ProcOf[w] # p
                           /\ ProcOf[w] # p => job'[w] = job[w] /\ tries'[w] = tries[w]
    BY <1>2 DEF Crash, TypeOK, LocalTypes, ControlTypes
  <2>3. \A j \in JobIds : StalePicks(j)' \subseteq StalePicks(j)
    BY <2>2 DEF StalePicks
  <2>4. crashes \in Nat /\ dbErrors \in Nat
    BY DEF TypeOK, BoundTypes
  <2>5. /\ crashes' >= crashes /\ dbErrors' >= dbErrors
        /\ crashes' + dbErrors' > crashes + dbErrors
    BY <2>1, <2>4
  <2>6. \A j \in JobIds : WithinBudget(j)'
    BY <2>1, <2>3, <2>5, BudgetFrame DEF BudgetInv
  <2> QED
    BY <2>1, <2>6 DEF BudgetInv, NoEarlyAttempts
<1> QED
  BY <1>1, <1>2

\* A task that goes on knows the same number of its attempt.
LEMMA TriesKept ==
  ASSUME TypeOK, NEW w \in Workers, Outcome(w) \/ Transcode(w) \/ WorkerDies(w)
  PROVE  /\ UNCHANGED <<attempts, crashes>>
         /\ \A x \in Workers : pc'[x] # "idle" => tries'[x] = tries[x]
         /\ pc'[w] # "picked"
<1> USE DEF TypeOK, LocalTypes, ControlTypes, Goto, Return, FinishJob, localVars, jobVars,
            boundVars
<1>1. CASE Outcome(w)
  <2>1. CASE LoadVideo(w) \/ MarkFailed(w) \/ ReadVerdict(w) \/ Notify(w)
    BY <2>1 DEF LoadVideo, MarkFailed, ReadVerdict, Notify
  <2>2. CASE FinishGone(w) \/ FinishNoRaw(w) \/ FinishDone(w)
    BY <2>2 DEF FinishGone, FinishNoRaw, FinishDone
  <2>3. CASE GiveUp(w) \/ RequeueJob(w)
    BY <2>3 DEF GiveUp, RequeueJob
  <2> QED
    BY <1>1, <2>1, <2>2, <2>3 DEF Outcome
<1>2. CASE Transcode(w)
  BY <1>2 DEF Transcode, Probe, ServeOriginal, InsertRenditions, EncodeOne, CountReady,
              SetReady, SetFailed, UnlinkRaw, NullRaw, Raise
<1>3. CASE WorkerDies(w)
  BY <1>3 DEF WorkerDies
<1> QED
  BY <1>1, <1>2, <1>3

\* A job is queued again by a worker that knows of an attempt left.
LEMMA RequeueShape ==
  ASSUME TypeOK, RowsConsistent, NEW w \in Workers, Outcome(w) \/ WorkerDies(w),
         Held(w), jStatus'[job[w]] = "queued", jStatus[job[w]] # "queued"
  PROVE  tries[w] < MaxAttempts
<1>1. job[w] \in JobIds
  BY RowsSplit DEF TasksOnRows, Held
<1> USE DEF TypeOK, JobTypes, FinishJob, jobVars
<1>2. CASE LoadVideo(w) \/ MarkFailed(w) \/ ReadVerdict(w) \/ Notify(w) \/ WorkerDies(w)
  BY <1>2 DEF LoadVideo, MarkFailed, ReadVerdict, Notify, WorkerDies
<1>3. CASE FinishGone(w) \/ FinishNoRaw(w) \/ FinishDone(w) \/ GiveUp(w)
  BY <1>1, <1>3 DEF FinishGone, FinishNoRaw, FinishDone, GiveUp
<1>4. CASE RequeueJob(w)
  BY <1>4 DEF RequeueJob
<1> QED
  BY <1>2, <1>3, <1>4 DEF Outcome

LEMMA BudgetOutcome ==
  ASSUME TypeOK, TypeOK', RowsConsistent, Exclusive, WorkersAssumption, BudgetInv,
         NEW w \in Workers, Outcome(w) \/ Transcode(w) \/ WorkerDies(w)
  PROVE  BudgetInv'
<1>1. Move(w) \/ Release(w) \/ Leave(w)
  BY OutcomeShape, TranscodeShape, DeathShape
<1>2. /\ \A x \in Workers \ {w} : pc'[x] = pc[x] /\ job'[x] = job[x]
      /\ Held(w)' => Held(w) /\ job'[w] = job[w]
  BY <1>1 DEF Move, Release, Leave, OthersStay, Held, HeldPcs, TranscodePcs
<1>3. /\ UNCHANGED <<attempts, crashes>> /\ pc'[w] # "picked"
      /\ \A x \in Workers : pc'[x] # "idle" => tries'[x] = tries[x]
  BY TriesKept
<1>4. \A j \in JobIds : StalePicks(j)' \subseteq StalePicks(j)
  BY <1>2, <1>3 DEF StalePicks
<1>5. crashes \in Nat /\ dbErrors \in Nat
  BY DEF TypeOK, BoundTypes
<1>6. dbErrors' = IF WorkerDies(w) THEN dbErrors + 1 ELSE dbErrors
  BY DEF WorkerDies, Outcome, LoadVideo, FinishGone, FinishNoRaw, MarkFailed, ReadVerdict,
         FinishDone, Notify, RequeueJob, GiveUp, Transcode, Probe, ServeOriginal,
         InsertRenditions, EncodeOne, CountReady, SetReady, SetFailed, UnlinkRaw, NullRaw,
         Raise, boundVars
<1>7. ASSUME NEW j \in JobIds, MayRunAgain(j)', ~WorkerDies(w) PROVE MayRunAgain(j)
  <2>1. ASSUME NEW x \in Workers \ {w}, Held(x), job[x] = j, tries[x] >= MaxAttempts
        PROVE  Held(x)' /\ job'[x] = j /\ tries'[x] >= MaxAttempts
    BY <1>2, <1>3, <2>1 DEF Held, HeldPcs, TranscodePcs
  <2>2. CASE Move(w) \/ Leave(w)
    <3>1. UNCHANGED jStatus /\ (LastAttempt(j) => LastAttempt(j)')
      BY <1>2, <1>3, <2>1, <2>2
         DEF LastAttempt, Move, Leave, jobVars, Held, HeldPcs, TranscodePcs
    <3> QED
      BY <1>7, <3>1 DEF MayRunAgain
  <2>3. CASE Release(w) /\ job[w] # j
    <3>1. jStatus'[j] = jStatus[j] /\ (LastAttempt(j) => LastAttempt(j)')
      BY <2>1, <2>3 DEF LastAttempt, Release, jobVars
    <3> QED
      BY <1>7, <3>1 DEF MayRunAgain
  <2>4. CASE Release(w) /\ job[w] = j
    <3>1. Held(w) /\ ~Held(w)' /\ pc'[w] # "dead" /\ (Outcome(w) \/ WorkerDies(w))
      <4>1. Held(w) /\ ~Held(w)'
        BY <2>4 DEF Release, Held, HeldPcs, TranscodePcs
      <4>2. ~Transcode(w)
        BY <4>1, TranscodeShape DEF Move, Held
      <4>3. pc'[w] # "dead"
        BY <1>7, <4>2 DEF TypeOK, ControlTypes, Goto, Return, Outcome, LoadVideo, FinishGone,
           FinishNoRaw, MarkFailed, ReadVerdict, FinishDone, Notify, RequeueJob, GiveUp
      <4> QED
        BY <4>1, <4>2, <4>3
    <3>2. CASE jStatus[j] = "gone"
      <4>1. jStatus'[j] = "gone"
        BY <2>4, <3>2 DEF Release, MayWrite, jobVars
      <4> QED
        BY <1>7, <4>1 DEF MayRunAgain
    <3>3. CASE jStatus[j] # "gone"
      <4>1. jStatus[j] = "running" /\ MayWrite(w)
        BY <2>4, <3>1, <3>3 DEF Exclusive, RunnerHoldsLease, MayWrite
      <4>2. jStatus'[j] = "queued"
        BY <1>7, <2>4, <3>1, <4>1, ReleaseRecords DEF MayRunAgain
      <4>3. tries[w] < MaxAttempts
        BY <2>4, <3>1, <4>1, <4>2, RequeueShape
      <4>4. ~LastAttempt(j)
        <5> SUFFICES ASSUME NEW x \in Workers, Held(x), job[x] = j, tries[x] >= MaxAttempts
                     PROVE  FALSE
          BY DEF LastAttempt
        <5>1. x = w
          BY <2>4, <3>1, <3>3 DEF Exclusive, SoleRunner
        <5> QED
          BY <4>3, <5>1, LimitAssumption DEF TypeOK, LocalTypes
      <4> QED
        BY <4>1, <4>4 DEF MayRunAgain
    <3> QED
      BY <3>2, <3>3
  <2> QED
    BY <1>1, <2>2, <2>3, <2>4
<1>8. \A j \in JobIds : WithinBudget(j)'
  BY <1>3, <1>4, <1>5, <1>6, <1>7, BudgetFrame DEF BudgetInv
<1>9. \A j \in JobIds : jStatus'[j] = "absent" => jStatus[j] = "absent"
  BY <1>1 DEF Move, Release, Leave, jobVars
<1> QED
  BY <1>3, <1>8, <1>9 DEF BudgetInv, NoEarlyAttempts

\* A claim makes an attempt: of the last ones, only a stale claim is followed by
\* another.
LEMMA BudgetClaim ==
  ASSUME TypeOK, TypeOK', RowsConsistent, Exclusive, WorkersAssumption, BudgetInv,
         NEW w \in Workers, ClaimUpdate(w), jStatus[job[w]] = "queued"
  PROVE  BudgetInv'
<1> PICK n : n = job[w]
  OBVIOUS
<1>1. n \in JobIds
  BY RowsSplit DEF TasksOnRows, ClaimUpdate
<1>2. /\ \A j \in JobIds \ {n} : jStatus'[j] = jStatus[j] /\ attempts'[j] = attempts[j]
      /\ jStatus'[n] = "running" /\ attempts'[n] = attempts[n] + 1
      /\ pc[w] = "picked" /\ pc'[w] = "load" /\ UNCHANGED <<job, tries, boundVars>>
      /\ \A x \in Workers \ {w} : pc'[x] = pc[x]
  BY <1>1 DEF ClaimUpdate, StillQueued, Goto, TypeOK, JobTypes, ControlTypes
<1>3. \A j \in JobIds : StalePicks(j)' \subseteq StalePicks(j)
  BY <1>2 DEF StalePicks
<1>4. crashes' >= crashes /\ dbErrors' >= dbErrors
  BY <1>1, <1>2, BudgetTypes DEF boundVars
<1>5. ASSUME NEW j \in JobIds \ {n} PROVE WithinBudget(j)'
  <2>1. LastAttempt(j) => LastAttempt(j)'
    BY <1>2 DEF LastAttempt, Held, HeldPcs, TranscodePcs
  <2> QED
    BY <1>2, <1>3, <1>4, <2>1, BudgetFrame DEF BudgetInv, MayRunAgain
<1>6. WithinBudget(n)'
  <2> DEFINE S == StalePicks(n)  T == StalePicks(n)'
  <2>1. /\ attempts[n] \in Nat /\ MaxAttempts \in Nat /\ tries[w] \in Nat
        /\ crashes \in Nat /\ dbErrors \in Nat /\ crashes' = crashes /\ dbErrors' = dbErrors
        /\ Cardinality(Workers) \in Nat /\ Cardinality(S) \in Nat /\ Cardinality(T) \in Nat
    BY <1>1, <1>2, BudgetTypes, PicksCounted
       DEF StalePicks, WorkersAssumption, boundVars, TypeOK, LocalTypes
  <2>2. T \subseteq Workers \ {w} /\ T \subseteq S /\ S \subseteq Workers
    BY <1>2, <1>3 DEF StalePicks
  <2>3. Cardinality(T) <= Cardinality(Workers) - 1 /\ Cardinality(T) <= Cardinality(S)
    <3> HIDE DEF S, T
    <3>1. Cardinality(T) <= Cardinality(S)
      BY <2>2, PicksCounted DEF WorkersAssumption
    <3>2. Cardinality(T) <= Cardinality(Workers) - 1
      BY <2>2, PicksCounted DEF WorkersAssumption
    <3> QED
      BY <3>1, <3>2
  <2>4. Again(n) = 1 /\ Again(n)' \in {0, 1}
    BY DEF Again, MayRunAgain
  <2>5. CASE tries[w] < MaxAttempts
    <3>1. w \in S /\ T \subseteq S \ {w}
      BY <1>2, <2>2, <2>5 DEF StalePicks
    <3>2. Cardinality(T) <= Cardinality(S) - 1
      <4> HIDE DEF S, T
      <4> QED
        BY <2>2, <3>1, PicksCounted DEF WorkersAssumption
    <3> HIDE DEF S, T
    <3>3. attempts[n] + 1 >= MaxAttempts - 1
            => attempts[n] + 1 + Cardinality(T) + Again(n)' <= Budget
      BY <1>1, <2>1, <2>3, <2>4, <3>2 DEF BudgetInv, WithinBudget, Budget, S
    <3> QED
      BY <1>2, <2>1, <3>3 DEF WithinBudget, Budget, T
  <2>6. CASE tries[w] >= MaxAttempts
    <3>1. Again(n)' = 0
      BY <1>2, <2>6 DEF Again, MayRunAgain, LastAttempt, Held, HeldPcs
    <3> HIDE DEF S, T
    <3>2. attempts[n] + 1 >= MaxAttempts - 1
            => attempts[n] + 1 + Cardinality(T) + Again(n)' <= Budget
      BY <1>1, <2>1, <2>3, <2>4, <3>1 DEF BudgetInv, WithinBudget, Budget, S
    <3> QED
      BY <1>2, <2>1, <3>2 DEF WithinBudget, Budget, T
  <2> QED
    BY <2>1, <2>5, <2>6
<1>7. NoEarlyAttempts'
  BY <1>1, <1>2 DEF BudgetInv, NoEarlyAttempts
<1> QED
  BY <1>5, <1>6, <1>7 DEF BudgetInv

\* A SELECT that reads the last attempts knows so, and a claim that is lost ends.
LEMMA BudgetSelect ==
  ASSUME TypeOK, TypeOK', RowsConsistent, WorkersAssumption, BudgetInv, NEW w \in Workers,
         ClaimSelect(w) \/ (ClaimUpdate(w) /\ jStatus[job[w]] # "queued")
  PROVE  BudgetInv'
<1>1. /\ UNCHANGED <<jobVars, boundVars>> /\ ~Held(w) /\ ~Held(w)'
      /\ \A x \in Workers \ {w} : pc'[x] = pc[x] /\ job'[x] = job[x] /\ tries'[x] = tries[x]
  BY DEF ClaimSelect, ClaimUpdate, StillQueued, Goto, Return, TypeOK, ControlTypes, LocalTypes,
         jobVars, Held, HeldPcs, TranscodePcs
<1>2. \A j \in JobIds : LastAttempt(j)' <=> LastAttempt(j)
  BY <1>1 DEF LastAttempt, Held
<1>3. ASSUME NEW j \in JobIds PROVE WithinBudget(j)'
  <2>1. CASE StalePicks(j)' \subseteq StalePicks(j)
    <3>1. crashes' >= crashes /\ dbErrors' >= dbErrors
      BY <1>1, BudgetTypes DEF boundVars
    <3> QED
      BY <1>1, <1>2, <2>1, <3>1, BudgetFrame DEF BudgetInv, MayRunAgain, jobVars
  <2>2. CASE ~(StalePicks(j)' \subseteq StalePicks(j))
    <3>1. pc'[w] = "picked" /\ job'[w] = j /\ tries'[w] < MaxAttempts
      BY <1>1, <2>2 DEF StalePicks
    <3>2. tries'[w] = attempts[j] + 1
      BY <3>1 DEF ClaimSelect, ClaimUpdate, StillQueued, Goto, Return, TypeOK, ControlTypes,
                  LocalTypes
    <3>3. ~(attempts'[j] >= MaxAttempts - 1)
      BY <1>1, <3>1, <3>2, BudgetTypes DEF jobVars
    <3> QED
      BY <3>3 DEF WithinBudget
  <2> QED
    BY <2>1, <2>2
<1> QED
  BY <1>1, <1>3 DEF BudgetInv, NoEarlyAttempts, jobVars

LEMMA BudgetStep ==
  TypeOK /\ RowsConsistent /\ Exclusive /\ WorkersAssumption /\ BudgetInv /\ [Next]_vars
    => BudgetInv'
<1> SUFFICES ASSUME TypeOK, RowsConsistent, Exclusive, WorkersAssumption, BudgetInv,
                    [Next]_vars
             PROVE  BudgetInv'
  OBVIOUS
<1>1. TypeOK'
  BY TypeStep
<1>2. CASE RequestStep
  BY <1>1, <1>2, BudgetRequest
<1>3. CASE \E p \in Procs : Start(p) \/ Crash(p)
  BY <1>1, <1>3, BudgetProcess
<1>4. ASSUME NEW w \in Workers, WorkerStep(w) \/ WorkerDies(w) PROVE BudgetInv'
  BY <1>1, <1>4, BudgetOutcome, BudgetClaim, BudgetSelect DEF WorkerStep
<1>5. CASE Tick \/ (\E w \in Workers : Heartbeat(w)) \/ UNCHANGED vars
  <2>1. UNCHANGED <<jStatus, attempts, pc, job, tries, boundVars>>
    BY <1>5 DEF Tick, Heartbeat, vars, jobVars, workerVars, localVars
  <2>2. \A j \in JobIds : StalePicks(j)' = StalePicks(j) /\ (LastAttempt(j)' <=> LastAttempt(j))
    BY <2>1 DEF StalePicks, LastAttempt, Held
  <2>3. ASSUME NEW j \in JobIds PROVE WithinBudget(j)'
    <3>1. crashes' >= crashes /\ dbErrors' >= dbErrors
      BY <2>1, BudgetTypes DEF boundVars
    <3> QED
      BY <1>1, <2>1, <2>2, <3>1, BudgetFrame DEF BudgetInv, MayRunAgain
  <2> QED
    BY <2>1, <2>3 DEF BudgetInv, NoEarlyAttempts
<1> QED
  BY <1>2, <1>3, <1>4, <1>5 DEF Next

\* The attempts at a job, counting errors of the database that end a worker too.
AttemptsAreBounded == \A j \in JobIds : attempts[j] <= Budget

LEMMA BudgetInit == WorkersAssumption /\ Init => BudgetInv
<1> SUFFICES ASSUME WorkersAssumption, Init, NEW j \in JobIds PROVE WithinBudget(j)
  BY DEF Init, BudgetInv, NoEarlyAttempts
<1>1. StalePicks(j) = {} /\ Again(j) = 0 /\ attempts[j] = 0 /\ crashes = 0 /\ dbErrors = 0
  BY DEF Init, StalePicks, Again, MayRunAgain
<1>2. Cardinality(StalePicks(j)) = 0
  BY <1>1, FS_EmptySet
<1> QED
  BY <1>1, <1>2, TypeInit, BudgetTypes DEF WithinBudget, Budget

\* As long as live workers renew in time, a job is attempted at most MaxAttempts
\* times, once more for every kill and every error that ends a worker, and once more
\* for every other worker, for any number of processes and workers.
THEOREM AttemptsBounded ==
  ASSUME Stalls = FALSE, WorkersAssumption
  PROVE  Spec => []AttemptsAreBounded
<1>1. Init => QueueInv /\ BudgetInv
  BY QueueInit, BudgetInit
<1>2. QueueInv /\ BudgetInv /\ [Next]_vars => (QueueInv /\ BudgetInv)'
  BY QueueStep, BudgetStep DEF QueueInv
<1>3. QueueInv /\ BudgetInv => AttemptsAreBounded
  <2> SUFFICES ASSUME TypeOK, BudgetInv, NEW j \in JobIds PROVE attempts[j] <= Budget
    BY DEF AttemptsAreBounded, QueueInv
  <2> QED
    BY BudgetTypes DEF BudgetInv, WithinBudget, Budget
<1> QED
  BY <1>1, <1>2, <1>3, PTL DEF Spec

\* The same without errors that end a worker, as the runs check it.
THEOREM AttemptsArePaid ==
  ASSUME Stalls = FALSE, WorkersAssumption, MaxDbErrors = 0
  PROVE  Spec => []AttemptsArePaidFor
<1>1. TypeOK /\ AttemptsAreBounded => AttemptsArePaidFor
  <2> SUFFICES ASSUME TypeOK, AttemptsAreBounded, NEW j \in JobIds
               PROVE  attempts[j] <= MaxAttempts + crashes + Cardinality(Workers) - 1
    BY DEF AttemptsArePaidFor
  <2>1. dbErrors = 0
    BY DEF TypeOK, BoundTypes
  <2> QED
    BY <2>1, BudgetTypes DEF AttemptsAreBounded, Budget
<1> QED
  BY <1>1, AttemptsBounded, TypeCorrect, PTL

-----------------------------------------------------------------------------
(* Videos and their jobs, in one process. *)

OneProcess == \A p, q \in Procs : p = q

\* A retry is asked for a video that has failed, or is ready (retry_video() is to
\* "requeue a failed video"; its handler does not look at the status).
RetriesOfSettled == RetryFrom \cap PendingVideoStatuses = {}

\* No two retries of one video pass the check before either commits (README,
\* observed limits).
RetriesApart ==
    \A r, s \in Retries :
        rPc[r] = "checked" /\ rPc[s] = "checked" /\ rVideo[r] = rVideo[s] => r = s

InQueue(j) == jStatus[j] \in {"queued", "running"}

\* Rows go with their videos.
RowsOfVideos ==
    \A j \in JobIds : jStatus[j] # "absent" =>
        /\ vStatus[jVideo[j]] # "absent"
        /\ jStatus[j] = "gone" <=> vStatus[jVideo[j]] = "gone"

OneJob == \A i, j \in JobIds : InQueue(i) /\ InQueue(j) /\ jVideo[i] = jVideo[j] => i = j
OneHolder == \A w, x \in Workers : Held(w) /\ Held(x) /\ VideoOf(w) = VideoOf(x) => w = x

\* A video that is being uploaded has had no job.
Uploads ==
    \A v \in Videos : uploader[v] # Nobody =>
        /\ vStatus[v] \in {"uploading", "gone"}
        /\ \A j \in JobIds : jVideo[j] # v
        /\ uploader[v] \in Procs /\ up[uploader[v]]

\* What a retry has checked still holds when it commits.
RetriesHold ==
    \A r \in Retries : rPc[r] = "checked" /\ vStatus[rVideo[r]] # "gone" =>
        /\ vStatus[rVideo[r]] \in {"ready", "failed"}
        /\ rawPath[rVideo[r]]
        /\ \A j \in JobIds : jVideo[j] = rVideo[r] => ~InQueue(j)

\* What a worker found out about its video still holds when it acts on it.
Verdict(w) ==
    /\ pc[w] \in {"setReady", "unlink", "nullRaw"} =>
           hasReady[VideoOf(w)] \/ vStatus[VideoOf(w)] = "gone"
    /\ pc[w] = "finish" => vStatus[VideoOf(w)] \in {"ready", "failed", "gone"}
    /\ pc[w] = "videoGone" => vStatus[VideoOf(w)] = "gone"
Verdicts == \A w \in Workers : Verdict(w)

VideoInv ==
    /\ RowsOfVideos /\ OneJob /\ OneHolder /\ Uploads /\ RetriesHold /\ Verdicts
    /\ ReadyHasRendition /\ PurgedHasRendition

LEMMA VideoInit == Init => VideoInv
  BY DEF Init, VideoInv, RowsOfVideos, OneJob, OneHolder, Uploads, RetriesHold, Verdicts,
         Verdict, ReadyHasRendition, PurgedHasRendition, InQueue, Held, HeldPcs, TranscodePcs,
         Exists

\* A task at work has a row and its video.
LEMMA TaskOnVideo ==
  ASSUME QueueInv, VideoInv, NEW w \in Workers,
         Held(w) \/ pc[w] \in {"picked", "markFailed", "notify"}
  PROVE  /\ job[w] \in JobIds /\ jStatus[job[w]] # "absent"
         /\ VideoOf(w) \in Videos /\ vStatus[VideoOf(w)] # "absent"
         /\ uploader[VideoOf(w)] = Nobody
<1>1. job[w] \in JobIds /\ jStatus[job[w]] # "absent"
  BY RowsSplit DEF TasksOnRows, Held, QueueInv
<1>2. VideoOf(w) \in Videos
  BY <1>1 DEF VideoOf, QueueInv, RowsConsistent
<1> QED
  BY <1>1, <1>2 DEF VideoOf, VideoInv, RowsOfVideos, Uploads

\* The job of a video that is worked on is running, unless both are gone.
LEMMA WorkIsQueued ==
  ASSUME QueueInv, VideoInv, NEW w \in Workers, Held(w), vStatus[VideoOf(w)] # "gone"
  PROVE  jStatus[job[w]] = "running" /\ InQueue(job[w])
<1>1. jStatus[job[w]] # "gone"
  BY TaskOnVideo DEF VideoInv, RowsOfVideos, VideoOf
<1> QED
  BY <1>1 DEF QueueInv, Exclusive, RunnerHoldsLease, InQueue

-----------------------------------------------------------------------------
(* The steps of workers. *)

\* What a worker's step does to its video, and to no other.
VideoEffect(w, v) ==
    /\ \A u \in Videos \ {v} : /\ vStatus'[u] = vStatus[u] /\ hasReady'[u] = hasReady[u]
                               /\ rawPath'[u] = rawPath[u]
    /\ vStatus'[v] # vStatus[v] =>
           /\ Exists(v) /\ vStatus'[v] \in {"uploading", "processing", "ready", "failed"}
           /\ Held(w) \/ vStatus'[v] = "failed"
    /\ vStatus'[v] = "ready" => vStatus[v] = "ready" \/ hasReady'[v]
    /\ hasReady[v] => hasReady'[v]
    /\ rawPath[v] /\ ~rawPath'[v] => Held(w) /\ (hasReady'[v] \/ vStatus'[v] = "gone")
    /\ pc'[w] \in {"setReady", "unlink", "nullRaw"} =>
           hasReady'[v] \/ vStatus'[v] = "gone"
    /\ pc'[w] = "finish" => vStatus'[v] \in {"ready", "failed", "gone"}
    /\ pc'[w] = "videoGone" => vStatus'[v] = "gone"

\* A worker that has a job takes a step, or dies.
JobStep(w) == Outcome(w) \/ Transcode(w) \/ (WorkerDies(w) /\ pc[w] # "idle")

LEMMA JobStepShape ==
  ASSUME QueueInv, NEW w \in Workers, JobStep(w)
  PROVE  /\ Move(w) \/ Release(w) \/ Leave(w)
         /\ Held(w) \/ pc[w] \in {"markFailed", "notify"}
<1>1. Move(w) \/ Release(w) \/ Leave(w)
  BY OutcomeShape, TranscodeShape, DeathShape DEF JobStep, QueueInv
<1>2. pc[w] # "idle"
  BY TranscodeShape
     DEF JobStep, QueueInv, Outcome, LoadVideo, FinishGone, FinishNoRaw, MarkFailed, ReadVerdict,
         FinishDone, Notify, RequeueJob, GiveUp, Move, Held, HeldPcs, TranscodePcs
<1> QED
  BY <1>1, <1>2 DEF Move, Release, Leave

LEMMA WorkerEffect ==
  ASSUME QueueInv, VideoInv, NEW w \in Workers, NEW v \in Videos, v = VideoOf(w),
         JobStep(w)
  PROVE  VideoEffect(w, v)
<1>1. vStatus[v] # "absent" /\ Verdict(w)
  <2>1. Held(w) \/ pc[w] \in {"markFailed", "notify"}
    BY JobStepShape
  <2> QED
    BY <2>1, TaskOnVideo DEF VideoInv, Verdicts
<1> HIDE DEF VideoOf
<1> USE DEF QueueInv, TypeOK, ControlTypes, VideoTypes, VideoEffect, Verdict, SetVideoStatus,
            Exists, Goto, Return, Held, HeldPcs, TranscodePcs, videoVars
<1>2. CASE LoadVideo(w) \/ ReadVerdict(w)
  BY <1>1, <1>2 DEF LoadVideo, ReadVerdict
<1>3. CASE FinishGone(w) \/ FinishNoRaw(w) \/ FinishDone(w) \/ GiveUp(w)
  BY <1>1, <1>3 DEF FinishGone, FinishNoRaw, FinishDone, GiveUp
<1>4. CASE MarkFailed(w) \/ Notify(w)
  BY <1>1, <1>4 DEF MarkFailed, Notify
<1>5. CASE RequeueJob(w)
  BY <1>1, <1>5 DEF RequeueJob, VideoOf
<1>6. CASE WorkerDies(w) \/ Raise(w) \/ CountReady(w) \/ UnlinkRaw(w)
  BY <1>1, <1>6 DEF WorkerDies, Raise, CountReady, UnlinkRaw
<1>7. CASE Probe(w) \/ ServeOriginal(w) \/ InsertRenditions(w)
  BY <1>1, <1>7 DEF Probe, ServeOriginal, InsertRenditions
<1>8. CASE EncodeOne(w)
  BY <1>1, <1>8 DEF EncodeOne
<1>9. CASE SetReady(w) \/ SetFailed(w) \/ NullRaw(w)
  BY <1>1, <1>9 DEF SetReady, SetFailed, NullRaw
<1> QED
  BY <1>2, <1>3, <1>4, <1>5, <1>6, <1>7, <1>8, <1>9 DEF Outcome, Transcode, JobStep

\* What it does to the rows.
LEMMA WorkerRows ==
  ASSUME QueueInv, NEW w \in Workers, JobStep(w)
  PROVE  /\ UNCHANGED <<jVideo, up, requestVars>>
         /\ \A j \in JobIds : /\ (\/ jStatus'[j] \in {"absent", "gone"}
                                  \/ jStatus[j] \in {"absent", "gone"})
                                   => jStatus'[j] = jStatus[j]
                              /\ InQueue(j)' => InQueue(j)
                              /\ j # job[w] => jStatus'[j] = jStatus[j]
         /\ \A x \in Workers : Held(x)' => Held(x) /\ job'[x] = job[x]
         /\ \A x \in Workers \ {w} : pc'[x] = pc[x] /\ job'[x] = job[x]
         /\ Held(w) \/ pc[w] \in {"markFailed", "notify"}
<1>1. /\ Move(w) \/ Release(w) \/ Leave(w)
      /\ Held(w) \/ pc[w] \in {"markFailed", "notify"}
  BY JobStepShape
<1>2. \A x \in Workers : Held(x)' => Held(x) /\ job'[x] = job[x]
  BY <1>1 DEF Move, Release, Leave, OthersStay, Held, HeldPcs, TranscodePcs
<1>3. CASE UNCHANGED jobVars
  BY <1>1, <1>2, <1>3 DEF Move, Release, Leave, OthersStay, InQueue, jobVars
<1>4. CASE ~UNCHANGED jobVars
  <2>1. /\ MayWrite(w) /\ Held(w) /\ jStatus'[job[w]] \in {"queued", "done", "failed"}
        /\ \A j \in JobIds \ {job[w]} : jStatus'[j] = jStatus[j]
    BY <1>1, <1>4 DEF Move, Release, Leave
  <2>2. jStatus[job[w]] = "running"
    BY <2>1 DEF MayWrite, QueueInv, Exclusive, RunnerHoldsLease
  <2> QED
    BY <1>1, <1>2, <2>1, <2>2 DEF Move, Release, Leave, OthersStay, InQueue
<1> QED
  BY <1>3, <1>4

LEMMA VideoWorker ==
  ASSUME QueueInv, VideoInv, NEW w \in Workers, JobStep(w)
  PROVE  VideoInv'
<1>1. PICK v \in Videos : v = VideoOf(w) /\ uploader[v] = Nobody /\ vStatus[v] # "absent"
  BY TaskOnVideo, WorkerRows
<1>2. VideoEffect(w, v)
  BY <1>1, WorkerEffect
<1>3. /\ UNCHANGED <<jVideo, up, uploader, rPc, rVideo>>
      /\ \A x \in Workers : Held(x)' => Held(x) /\ job'[x] = job[x]
      /\ \A x \in Workers \ {w} : pc'[x] = pc[x] /\ job'[x] = job[x]
      /\ Held(w) \/ pc[w] \in {"markFailed", "notify"}
  BY WorkerRows DEF requestVars, retryVars
<1>4. \A j \in JobIds : /\ jStatus'[j] = "absent" <=> jStatus[j] = "absent"
                        /\ jStatus'[j] = "gone" <=> jStatus[j] = "gone"
                        /\ InQueue(j)' => InQueue(j)
  BY WorkerRows
<1>5. \A u \in Videos : /\ vStatus'[u] = "absent" <=> vStatus[u] = "absent"
                        /\ vStatus'[u] = "gone" <=> vStatus[u] = "gone"
  BY <1>2 DEF VideoEffect, Exists
<1>6. RowsOfVideos'
  BY <1>3, <1>4, <1>5 DEF VideoInv, RowsOfVideos, QueueInv, RowsConsistent
<1>7. OneJob' /\ OneHolder'
  BY <1>3, <1>4 DEF VideoInv, OneJob, OneHolder, VideoOf
<1>8. Uploads'
  BY <1>1, <1>2, <1>3 DEF VideoInv, Uploads, VideoEffect
<1>9. RetriesHold'
  <2> SUFFICES ASSUME NEW r \in Retries, rPc[r] = "checked", vStatus'[rVideo[r]] # "gone"
               PROVE  /\ vStatus'[rVideo[r]] \in {"ready", "failed"} /\ rawPath'[rVideo[r]]
                      /\ \A j \in JobIds : jVideo[j] = rVideo[r] => ~InQueue(j)'
    BY <1>3 DEF RetriesHold
  <2>1. rVideo[r] \in Videos
    BY DEF QueueInv, RowsConsistent
  <2>2. /\ vStatus[rVideo[r]] \in {"ready", "failed"} /\ rawPath[rVideo[r]]
        /\ \A j \in JobIds : jVideo[j] = rVideo[r] => ~InQueue(j)
    BY <1>5, <2>1 DEF VideoInv, RetriesHold
  <2>3. CASE rVideo[r] # v
    BY <1>2, <1>4, <2>1, <2>2, <2>3 DEF VideoEffect
  <2>4. CASE rVideo[r] = v
    <3>1. ~Held(w)
      BY <1>1, <2>2, <2>4, WorkIsQueued, TaskOnVideo DEF VideoOf
    <3> QED
      BY <1>2, <1>4, <2>2, <2>4, <3>1 DEF VideoEffect, QueueInv, TypeOK, VideoTypes
  <2> QED
    BY <2>3, <2>4
<1>10. ASSUME NEW x \in Workers PROVE Verdict(x)'
  <2>1. CASE x = w
    <3>1. pc'[w] \in {"setReady", "unlink", "nullRaw", "finish", "videoGone"} => VideoOf(w)' = v
      BY <1>1, <1>3 DEF VideoOf, Held, HeldPcs, TranscodePcs
    <3> QED
      BY <1>2, <2>1, <3>1 DEF Verdict, VideoEffect
  <2>2. CASE x # w /\ Held(x)
    <3>1. pc'[x] = pc[x] /\ VideoOf(x)' = VideoOf(x) /\ VideoOf(x) \in Videos /\ Verdict(x)
      BY <1>3, <2>2, TaskOnVideo DEF VideoOf, VideoInv, Verdicts
    <3>2. VideoOf(x) = v => ~Held(w)
      BY <1>1, <2>2 DEF VideoInv, OneHolder
    <3> QED
      BY <1>2, <1>5, <3>1, <3>2 DEF Verdict, VideoEffect
  <2>3. CASE x # w /\ ~Held(x)
    BY <1>3, <2>3 DEF Verdict, Held, HeldPcs, TranscodePcs
  <2> QED
    BY <2>1, <2>2, <2>3
<1>11. ReadyHasRendition' /\ PurgedHasRendition'
  BY <1>2, <1>5 DEF VideoInv, ReadyHasRendition, PurgedHasRendition, VideoEffect, Exists
<1> QED
  BY <1>6, <1>7, <1>8, <1>9, <1>10, <1>11 DEF VideoInv, Verdicts

-----------------------------------------------------------------------------
(* Requests. *)

\* A new row for a video without a job in the queue.
LEMMA VideoEnqueue ==
  ASSUME QueueInv, VideoInv, NEW v \in Videos, Enqueue(v), Exists(v)', UNCHANGED <<pc, job>>,
         \A j \in JobIds : jVideo[j] = v => ~InQueue(j),
         \A u \in Videos \ {v} : vStatus'[u] = vStatus[u], Exists(v)
  PROVE  /\ RowsOfVideos' /\ OneJob' /\ OneHolder'
         /\ \A j \in JobIds : jStatus[j] # "absent" =>
                jVideo'[j] = jVideo[j] /\ jStatus'[j] = jStatus[j]
         /\ \A j \in JobIds : InQueue(j)' =>
                (InQueue(j) /\ jVideo'[j] = jVideo[j]) \/ jVideo'[j] = v
         /\ \A w \in Workers : Held(w) => VideoOf(w)' = VideoOf(w)
<1>1. /\ nextJob \in JobIds /\ jStatus[nextJob] = "absent"
      /\ \A j \in JobIds : /\ jStatus'[j] = IF j = nextJob THEN "queued" ELSE jStatus[j]
                           /\ jVideo'[j] = IF j = nextJob THEN v ELSE jVideo[j]
  BY DEF Enqueue, QueueInv, TypeOK, JobTypes, RowsConsistent
<1>2. RowsOfVideos'
  BY <1>1 DEF VideoInv, RowsOfVideos, Exists, QueueInv, RowsConsistent
<1>3. OneJob'
  BY <1>1 DEF VideoInv, OneJob, InQueue
<1>4. \A w \in Workers : Held(w) => VideoOf(w)' = VideoOf(w)
  BY <1>1, TaskOnVideo DEF VideoOf
<1>5. OneHolder'
  BY <1>4 DEF VideoInv, OneHolder, Held
<1> QED
  BY <1>1, <1>2, <1>3, <1>4, <1>5 DEF InQueue

\* Verdicts hold on, as long as the videos that are worked on stay or go.
LEMMA VerdictsFrame ==
  ASSUME QueueInv, VideoInv, UNCHANGED <<pc, job>>,
         \A w \in Workers : Held(w) => VideoOf(w)' = VideoOf(w)
             /\ \/ vStatus'[VideoOf(w)] = "gone"
                \/ vStatus'[VideoOf(w)] = vStatus[VideoOf(w)]
                   /\ hasReady'[VideoOf(w)] = hasReady[VideoOf(w)]
  PROVE  Verdicts'
  BY DEF VideoInv, Verdicts, Verdict, Held, HeldPcs, TranscodePcs

LEMMA VideoInsert ==
  ASSUME QueueInv, VideoInv, NEW p \in Procs, NEW v \in Videos, InsertVideo(p, v)
  PROVE  VideoInv'
<1>1. /\ UNCHANGED <<jobVars, pc, job, up, rPc, rVideo, hasReady>> /\ vStatus[v] = "absent" /\ up[p]
      /\ vStatus'[v] = "uploading" /\ rawPath'[v] /\ uploader'[v] = p
      /\ \A u \in Videos \ {v} : vStatus'[u] = vStatus[u] /\ rawPath'[u] = rawPath[u]
                                 /\ uploader'[u] = uploader[u]
  BY DEF InsertVideo, workerVars, localVars, retryVars, QueueInv, TypeOK, VideoTypes, RequestTypes
<1>2. \A j \in JobIds : jVideo[j] # v
  BY <1>1, ProcAssumption DEF VideoInv, RowsOfVideos, QueueInv, RowsConsistent
<1>3. \A w \in Workers : Held(w) => VideoOf(w) \in Videos \ {v} /\ VideoOf(w)' = VideoOf(w)
  BY <1>1, TaskOnVideo DEF VideoOf, jobVars
<1>4. RowsOfVideos' /\ OneJob' /\ OneHolder'
  <2>1. RowsOfVideos'
    BY <1>1, <1>2 DEF VideoInv, RowsOfVideos, jobVars, QueueInv, RowsConsistent
  <2> QED
    BY <1>1, <2>1 DEF VideoInv, OneJob, OneHolder, Held, VideoOf, InQueue, jobVars
<1>5. Uploads'
  BY <1>1, <1>2, ProcAssumption DEF VideoInv, Uploads, jobVars
<1>6. RetriesHold'
  <2>1. \A r \in Retries : rPc[r] = "checked" => rVideo[r] \in Videos \ {v}
    BY <1>1 DEF VideoInv, RetriesHold, QueueInv, RowsConsistent
  <2> QED
    BY <1>1, <2>1 DEF VideoInv, RetriesHold, InQueue, jobVars
<1>7. Verdicts'
  BY <1>1, <1>3, VerdictsFrame
<1>8. ReadyHasRendition' /\ PurgedHasRendition'
  BY <1>1 DEF VideoInv, ReadyHasRendition, PurgedHasRendition, Exists
<1> QED
  BY <1>4, <1>5, <1>6, <1>7, <1>8 DEF VideoInv

LEMMA VideoUpload ==
  ASSUME QueueInv, VideoInv, NEW v \in Videos, EnqueueUpload(v)
  PROVE  VideoInv'
<1>1. /\ UNCHANGED <<vStatus, rawPath, hasReady, pc, job, up, rPc, rVideo>> /\ uploader[v] # Nobody
      /\ uploader'[v] = Nobody /\ \A u \in Videos \ {v} : uploader'[u] = uploader[u]
  BY DEF EnqueueUpload, videoVars, workerVars, localVars, retryVars, QueueInv, TypeOK, RequestTypes
<1>2. /\ vStatus[v] \in {"uploading", "gone"} /\ \A j \in JobIds : jVideo[j] # v
  BY <1>1 DEF VideoInv, Uploads
<1>3. ReadyHasRendition' /\ PurgedHasRendition'
  BY <1>1 DEF VideoInv, ReadyHasRendition, PurgedHasRendition, Exists
<1>4. CASE Exists(v)
  <2>1. Enqueue(v) /\ Exists(v)'
    BY <1>1, <1>4 DEF EnqueueUpload, Exists
  <2>2. /\ RowsOfVideos' /\ OneJob' /\ OneHolder'
        /\ \A j \in JobIds : InQueue(j)' =>
                (InQueue(j) /\ jVideo'[j] = jVideo[j]) \/ jVideo'[j] = v
        /\ \A w \in Workers : Held(w) => VideoOf(w)' = VideoOf(w)
    BY <1>1, <1>2, <1>4, <2>1, VideoEnqueue
  <2>3. Uploads'
    BY <1>1, <2>1 DEF VideoInv, Uploads, Enqueue, QueueInv, TypeOK, JobTypes
  <2>4. RetriesHold'
    BY <1>1, <1>2, <1>4, <2>2 DEF VideoInv, RetriesHold, Exists
  <2>5. Verdicts'
    BY <1>1, <2>2, VerdictsFrame
  <2> QED
    BY <1>3, <2>2, <2>3, <2>4, <2>5 DEF VideoInv
<1>5. CASE ~Exists(v)
  <2>1. UNCHANGED jobVars
    BY <1>5 DEF EnqueueUpload
  <2>2. RowsOfVideos' /\ OneJob' /\ OneHolder' /\ RetriesHold' /\ Verdicts'
    BY <1>1, <2>1 DEF VideoInv, RowsOfVideos, OneJob, OneHolder, RetriesHold, Verdicts, Verdict,
                      InQueue, Held, VideoOf, jobVars
  <2>3. Uploads'
    BY <1>1, <2>1 DEF VideoInv, Uploads, jobVars
  <2> QED
    BY <1>3, <2>2, <2>3 DEF VideoInv
<1> QED
  BY <1>4, <1>5

LEMMA VideoRetryCheck ==
  ASSUME RetriesOfSettled, QueueInv, VideoInv, NEW r \in Retries, NEW p \in Procs,
         NEW v \in Videos, RetryCheck(r, p, v)
  PROVE  VideoInv'
<1>1. /\ UNCHANGED <<jobVars, vStatus, rawPath, hasReady, pc, job, up, uploader>>
      /\ rVideo'[r] = v /\ \A s \in Retries \ {r} : rPc'[s] = rPc[s] /\ rVideo'[s] = rVideo[s]
  BY DEF RetryCheck, videoVars, workerVars, localVars, QueueInv, TypeOK, RequestTypes
<1>2. /\ vStatus[v] \in {"ready", "failed"} /\ rawPath[v]
      /\ \A j \in JobIds : jVideo[j] = v => ~InQueue(j)
  BY DEF RetryCheck, RetriesOfSettled, PendingVideoStatuses, Exists, PendingJobs, InQueue,
         QueueInv, TypeOK, VideoTypes, VideoStatus
<1>3. RetriesHold'
  BY <1>1, <1>2 DEF VideoInv, RetriesHold, InQueue, jobVars
<1> QED
  BY <1>1, <1>3 DEF VideoInv, RowsOfVideos, OneJob, OneHolder, Uploads, Verdicts, Verdict, InQueue,
                    Held, VideoOf, jobVars, ReadyHasRendition, PurgedHasRendition, Exists

LEMMA VideoRetryCommit ==
  ASSUME RetriesApart, QueueInv, VideoInv, NEW r \in Retries, RetryCommit(r)
  PROVE  VideoInv'
<1> PICK v \in Videos : v = rVideo[r]
  BY DEF RetryCommit, QueueInv, RowsConsistent
<1>1. /\ UNCHANGED <<rawPath, pc, job, up, uploader, rVideo>> /\ rPc[r] = "checked"
      /\ rPc'[r] = "done" /\ \A s \in Retries \ {r} : rPc'[s] = rPc[s]
  BY DEF RetryCommit, QueueInv, TypeOK, RequestTypes, RowsConsistent
<1>2. CASE Exists(v)
  <2>1. /\ vStatus[v] \in {"ready", "failed"} /\ rawPath[v]
        /\ \A j \in JobIds : jVideo[j] = v => ~InQueue(j)
    BY <1>1, <1>2 DEF VideoInv, RetriesHold, Exists
  <2>2. /\ Enqueue(v) /\ vStatus'[v] = "uploading"
        /\ \A u \in Videos \ {v} : vStatus'[u] = vStatus[u] /\ hasReady'[u] = hasReady[u]
    BY <1>1, <1>2 DEF RetryCommit, QueueInv, TypeOK, VideoTypes
  <2>3. /\ RowsOfVideos' /\ OneJob' /\ OneHolder'
        /\ \A j \in JobIds : InQueue(j)' =>
                (InQueue(j) /\ jVideo'[j] = jVideo[j]) \/ jVideo'[j] = v
        /\ \A w \in Workers : Held(w) => VideoOf(w)' = VideoOf(w)
    <3>1. Exists(v)'
      BY <2>2 DEF Exists
    <3> QED
      BY <1>1, <1>2, <2>1, <2>2, <3>1, VideoEnqueue
  <2>4. Uploads'
    <3>1. uploader[v] = Nobody
      BY <1>1, <2>1 DEF VideoInv, Uploads
    <3>2. \A j \in JobIds : jVideo'[j] \in {jVideo[j], v}
      BY <2>2 DEF Enqueue, QueueInv, TypeOK, JobTypes
    <3> QED
      BY <1>1, <2>2, <3>1, <3>2 DEF VideoInv, Uploads
  <2>5. RetriesHold'
    <3>1. \A s \in Retries : rPc'[s] = "checked" =>
              rPc[s] = "checked" /\ rVideo[s] \in Videos \ {v}
      BY <1>1 DEF RetriesApart, QueueInv, RowsConsistent
    <3> QED
      BY <1>1, <2>2, <2>3, <3>1 DEF VideoInv, RetriesHold
  <2>6. \A w \in Workers : Held(w) => VideoOf(w) \in Videos \ {v}
    BY <1>2, <2>1, TaskOnVideo, WorkIsQueued DEF Exists, VideoOf
  <2>7. Verdicts'
    BY <1>1, <2>2, <2>3, <2>6, VerdictsFrame
  <2>8. ReadyHasRendition' /\ PurgedHasRendition'
    BY <1>1, <2>1, <2>2 DEF VideoInv, ReadyHasRendition, PurgedHasRendition, Exists
  <2> QED
    BY <2>3, <2>4, <2>5, <2>7, <2>8 DEF VideoInv
<1>3. CASE ~Exists(v)
  <2>1. UNCHANGED <<jobVars, vStatus, hasReady>>
    BY <1>3 DEF RetryCommit
  <2>2. RetriesHold'
    BY <1>1, <2>1 DEF VideoInv, RetriesHold, InQueue, jobVars
  <2> QED
    BY <1>1, <2>1, <2>2 DEF VideoInv, RowsOfVideos, OneJob, OneHolder, Uploads, Verdicts, Verdict,
                    InQueue, Held, VideoOf, jobVars, ReadyHasRendition, PurgedHasRendition, Exists
<1> QED
  BY <1>2, <1>3

LEMMA VideoDelete ==
  ASSUME QueueInv, VideoInv, NEW d \in Deletes, DeleteRow(d)
  PROVE  VideoInv'
<1> DEFINE v == dVideo[d]
<1>1. /\ UNCHANGED <<jVideo, pc, job, up, uploader, rPc, rVideo>> /\ v \in Videos
      /\ vStatus'[v] = "gone"
      /\ \A u \in Videos \ {v} : /\ vStatus'[u] = vStatus[u] /\ hasReady'[u] = hasReady[u]
                                 /\ rawPath'[u] = rawPath[u]
      /\ \A j \in JobIds : jStatus'[j] = IF jVideo[j] = v THEN "gone" ELSE jStatus[j]
  BY DEF DeleteRow, workerVars, localVars, retryVars, QueueInv, TypeOK, VideoTypes, RowsConsistent
<1> HIDE DEF v
<1>2. \A j \in JobIds : InQueue(j)' => InQueue(j)
  BY <1>1 DEF InQueue
<1>3. RowsOfVideos'
  BY <1>1 DEF VideoInv, RowsOfVideos, QueueInv, RowsConsistent
<1>4. OneJob' /\ OneHolder'
  BY <1>1, <1>2 DEF VideoInv, OneJob, OneHolder, Held, VideoOf
<1>5. Uploads'
  BY <1>1 DEF VideoInv, Uploads
<1>6. RetriesHold'
  <2>1. \A s \in Retries : rPc[s] = "checked" => rVideo[s] \in Videos
    BY DEF QueueInv, RowsConsistent
  <2> QED
    BY <1>1, <1>2, <2>1 DEF VideoInv, RetriesHold
<1>7. Verdicts'
  <2>1. \A w \in Workers : Held(w) => VideoOf(w)' = VideoOf(w) /\ VideoOf(w) \in Videos
    BY <1>1, TaskOnVideo DEF VideoOf
  <2> QED
    BY <1>1, <2>1, VerdictsFrame
<1>8. ReadyHasRendition' /\ PurgedHasRendition'
  BY <1>1 DEF VideoInv, ReadyHasRendition, PurgedHasRendition, Exists
<1> QED
  BY <1>3, <1>4, <1>5, <1>6, <1>7, <1>8 DEF VideoInv

LEMMA VideoRequest ==
  ASSUME RetriesOfSettled, RetriesApart, QueueInv, VideoInv, RequestStep
  PROVE  VideoInv'
<1>1. CASE \E d \in Deletes, p \in Procs, v \in Videos : DeletePurge(d, p, v)
  <2>1. UNCHANGED <<jobVars, vStatus, rawPath, hasReady, pc, job, up, uploader, rPc, rVideo>>
    BY <1>1 DEF DeletePurge, workerVars, localVars, retryVars
  <2> QED
    BY <2>1 DEF VideoInv, RowsOfVideos, OneJob, OneHolder, Uploads, RetriesHold, Verdicts, Verdict,
                InQueue, Held, VideoOf, jobVars, ReadyHasRendition, PurgedHasRendition, Exists
<1> QED
  BY <1>1, VideoInsert, VideoUpload, VideoRetryCheck, VideoRetryCommit, VideoDelete
     DEF RequestStep

-----------------------------------------------------------------------------
(* Processes, claims and time. *)

\* The steps that leave rows and videos as they are, as far as VideoInv can tell.
LEMMA VideoFrame ==
  ASSUME QueueInv, VideoInv, UNCHANGED <<jVideo, jStatus, vStatus, rawPath, hasReady, rVideo>>,
         \A w \in Workers : Held(w)' => pc'[w] = pc[w] /\ job'[w] = job[w],
         \A v \in Videos : uploader'[v] # Nobody =>
             uploader'[v] = uploader[v] /\ up'[uploader[v]] = up[uploader[v]],
         \A r \in Retries : rPc'[r] = "checked" => rPc[r] = "checked"
  PROVE  VideoInv'
<1>1. RowsOfVideos' /\ OneJob' /\ RetriesHold' /\ ReadyHasRendition' /\ PurgedHasRendition'
  BY DEF VideoInv, RowsOfVideos, OneJob, RetriesHold, ReadyHasRendition, PurgedHasRendition,
         InQueue, Exists
<1>2. OneHolder' /\ Verdicts'
  BY DEF VideoInv, OneHolder, Verdicts, Verdict, Held, HeldPcs, TranscodePcs, VideoOf
<1>3. Uploads'
  BY DEF VideoInv, Uploads
<1> QED
  BY <1>1, <1>2, <1>3 DEF VideoInv

\* The one process was down: nobody works or uploads, and recovery gives a job to
\* each pending video that has none.
LEMMA VideoStart ==
  ASSUME OneProcess, QueueInv, VideoInv, NEW p \in Procs, Start(p)
  PROVE  /\ VideoInv'
         /\ \A v \in Orphans : \E j \in JobIds : InQueue(j)' /\ jVideo'[j] = v
         /\ \A j \in JobIds : InQueue(j) => InQueue(j)' /\ jVideo'[j] = jVideo[j]
         /\ \A v \in Videos : uploader[v] = Nobody
         /\ \A w \in Workers : pc[w] = "down"
<1> PICK last \in (nextJob - 1)..MaxJobs :
       \E f \in Numberings(nextJob..last, Orphans) : Recover(nextJob..last, f, last)
  BY DEF Start, RequeueOrphans
<1>2. PICK f \in Numberings(nextJob..last, Orphans) : Recover(nextJob..last, f, last)
  OBVIOUS
<1> DEFINE new == nextJob..last
<1>3. \A j \in new : j \in JobIds /\ jStatus[j] = "absent"
  <2> SUFFICES ASSUME NEW j \in nextJob..last PROVE j \in JobIds /\ jStatus[j] = "absent"
    OBVIOUS
  <2>1. nextJob \in 1..(MaxJobs + 1)
    BY DEF QueueInv, TypeOK, JobTypes
  <2>2. j \in JobIds /\ j >= nextJob
    BY <2>1, LimitAssumption DEF JobIds
  <2> QED
    BY <2>2 DEF QueueInv, RowsConsistent
<1>4. /\ \A j \in new : f[j] \in Orphans /\ f[j] \in Videos
      /\ \A v \in Orphans : \E j \in new : f[j] = v
      /\ \A i, j \in new : f[i] = f[j] => i = j
  BY <1>2 DEF Numberings, Orphans
<1>5. \A j \in JobIds : /\ jStatus'[j] = IF j \in Lapsed \cup new THEN "queued" ELSE jStatus[j]
                        /\ jVideo'[j] = IF j \in new THEN f[j] ELSE jVideo[j]
  BY <1>2 DEF Recover
<1>6. \A w \in Workers : pc[w] = "down"
  BY ProcAssumption DEF Start, OneProcess, QueueInv, RowsConsistent
<1>7. \A v \in Videos : uploader[v] = Nobody
  BY DEF Start, OneProcess, VideoInv, Uploads
<1>8. UNCHANGED <<vStatus, rawPath, hasReady, job, uploader, rPc, rVideo>>
  BY DEF Start, localVars, videoVars, requestVars, retryVars
<1>9. \A w \in Workers : ~Held(w)'
  BY <1>6 DEF Start, Held, HeldPcs, TranscodePcs
<1> HIDE DEF new
<1>10. \A v \in Orphans : /\ vStatus[v] \in PendingVideoStatuses
                          /\ \A j \in JobIds : jVideo[j] = v => ~InQueue(j)
  BY DEF Orphans, PendingJobs, InQueue
<1>11. \A j \in JobIds : /\ j \in Lapsed => jStatus[j] = "running" /\ InQueue(j)
                         /\ j \in new => ~InQueue(j)
                         /\ InQueue(j) => InQueue(j)' /\ jVideo'[j] = jVideo[j]
                         /\ InQueue(j)' => InQueue(j) \/ j \in new
  BY <1>3, <1>5 DEF Lapsed, InQueue
<1>12. RowsOfVideos'
  BY <1>4, <1>5, <1>8, <1>10, <1>11
     DEF VideoInv, RowsOfVideos, PendingVideoStatuses, QueueInv, RowsConsistent
<1>13. OneJob'
  <2> SUFFICES ASSUME NEW i \in JobIds, NEW j \in JobIds, InQueue(i)', InQueue(j)',
                      jVideo'[i] = jVideo'[j]
               PROVE  i = j
    BY DEF OneJob
  <2>1. CASE i \in new /\ j \in new
    BY <1>4, <1>5, <2>1
  <2>2. CASE i \in new /\ j \notin new
    BY <1>4, <1>5, <1>10, <1>11, <2>2
  <2>3. CASE i \notin new /\ j \in new
    BY <1>4, <1>5, <1>10, <1>11, <2>3
  <2>4. CASE i \notin new /\ j \notin new
    BY <1>5, <1>11, <2>4 DEF VideoInv, OneJob
  <2> QED
    BY <2>1, <2>2, <2>3, <2>4
<1>14. RetriesHold'
  <2> SUFFICES ASSUME NEW r \in Retries, rPc[r] = "checked", vStatus[rVideo[r]] # "gone"
               PROVE  /\ vStatus[rVideo[r]] \in {"ready", "failed"} /\ rawPath[rVideo[r]]
                      /\ \A j \in JobIds : jVideo'[j] = rVideo[r] => ~InQueue(j)'
    BY <1>8 DEF RetriesHold
  <2>1. /\ vStatus[rVideo[r]] \in {"ready", "failed"} /\ rawPath[rVideo[r]]
        /\ \A j \in JobIds : jVideo[j] = rVideo[r] => ~InQueue(j)
    BY DEF VideoInv, RetriesHold
  <2>2. rVideo[r] \notin Orphans
    BY <1>10, <2>1 DEF PendingVideoStatuses
  <2> QED
    BY <1>4, <1>5, <1>11, <2>1, <2>2
<1>15. Uploads' /\ OneHolder' /\ Verdicts' /\ ReadyHasRendition' /\ PurgedHasRendition'
  BY <1>7, <1>8, <1>9 DEF VideoInv, Uploads, OneHolder, Verdicts, Verdict, Held, HeldPcs,
     TranscodePcs, ReadyHasRendition, PurgedHasRendition, Exists
<1>16. \A v \in Orphans : \E j \in JobIds : InQueue(j)' /\ jVideo'[j] = v
  BY <1>3, <1>4, <1>5 DEF InQueue
<1> QED
  BY <1>6, <1>7, <1>11, <1>12, <1>13, <1>14, <1>15, <1>16 DEF VideoInv

LEMMA VideoCrash ==
  ASSUME QueueInv, VideoInv, NEW p \in Procs, Crash(p)
  PROVE  VideoInv'
<1>1. \A w \in Workers : Held(w)' => pc'[w] = pc[w] /\ job'[w] = job[w]
  BY DEF Crash, Held, HeldPcs, TranscodePcs
<1>2. \A v \in Videos : uploader'[v] # Nobody =>
          uploader'[v] = uploader[v] /\ up'[uploader[v]] = up[uploader[v]]
  BY DEF Crash, QueueInv, TypeOK, ControlTypes, RequestTypes
<1> QED
  BY <1>1, <1>2, VideoFrame DEF Crash, videoVars

\* A claimed job was queued, so nobody works on its video.
LEMMA VideoClaim ==
  ASSUME QueueInv, VideoInv, NEW w \in Workers, ClaimSelect(w) \/ ClaimUpdate(w)
  PROVE  VideoInv'
<1> USE DEF QueueInv, TypeOK, ControlTypes, LocalTypes, HeldPcs, TranscodePcs
<1>1. UNCHANGED <<jVideo, vStatus, rawPath, hasReady, up, uploader, rPc, rVideo>>
  BY DEF ClaimSelect, ClaimUpdate, jobVars, videoVars, requestVars, retryVars
<1>2. \A x \in Workers \ {w} : pc'[x] = pc[x] /\ job'[x] = job[x]
  BY DEF ClaimSelect, ClaimUpdate, StillQueued, Goto, Return
<1>3. CASE ~Held(w)' /\ UNCHANGED jStatus
  BY <1>1, <1>2, <1>3, VideoFrame DEF Held
<1>4. CASE ClaimUpdate(w) /\ jStatus[job[w]] = "queued"
  <2> DEFINE j == job[w]
  <2>1. j \in JobIds
    BY <1>4, RowsSplit DEF TasksOnRows, ClaimUpdate
  <2>2. /\ jStatus'[j] = "running" /\ \A i \in JobIds \ {j} : jStatus'[i] = jStatus[i]
        /\ pc'[w] = "load" /\ job'[w] = j
    BY <1>4, <2>1 DEF ClaimUpdate, StillQueued, JobTypes, Goto
  <2>3. \A i \in JobIds : /\ InQueue(i)' <=> InQueue(i)
                          /\ jStatus'[i] = "absent" <=> jStatus[i] = "absent"
                          /\ jStatus'[i] = "gone" <=> jStatus[i] = "gone"
    BY <1>4, <2>2 DEF InQueue
  <2>4. vStatus[jVideo[j]] # "gone"
    BY <1>4, <2>1 DEF VideoInv, RowsOfVideos
  <2>5. \A x \in Workers : Held(x) => VideoOf(x) # jVideo[j]
    <3> SUFFICES ASSUME NEW x \in Workers, Held(x), VideoOf(x) = jVideo[j] PROVE FALSE
      OBVIOUS
    <3>1. jStatus[job[x]] = "running" /\ InQueue(job[x]) /\ job[x] \in JobIds
      BY <2>4, WorkIsQueued, TaskOnVideo
    <3> QED
      BY <1>4, <2>1, <3>1 DEF VideoInv, OneJob, VideoOf, InQueue
  <2>6. \A x \in Workers : /\ Held(x)' <=> Held(x) \/ x = w
                           /\ x # w => VideoOf(x)' = VideoOf(x)
                           /\ VideoOf(w)' = jVideo[j]
    BY <1>1, <1>2, <1>4, <2>2 DEF Held, VideoOf, ClaimUpdate
  <2>7. OneHolder'
    BY <2>5, <2>6 DEF VideoInv, OneHolder
  <2>8. Verdicts'
    BY <1>1, <1>2, <2>2, <2>6 DEF VideoInv, Verdicts, Verdict
  <2>9. RowsOfVideos' /\ OneJob' /\ Uploads' /\ RetriesHold'
    BY <1>1, <2>3 DEF VideoInv, RowsOfVideos, OneJob, Uploads, RetriesHold
  <2> QED
    BY <1>1, <2>7, <2>8, <2>9 DEF VideoInv, ReadyHasRendition, PurgedHasRendition, Exists
<1> QED
  BY <1>3, <1>4 DEF ClaimSelect, ClaimUpdate, StillQueued, Goto, Return, Held, jobVars

\* A worker without a job dies.
LEMMA VideoIdle ==
  ASSUME QueueInv, VideoInv, NEW w \in Workers, WorkerDies(w), pc[w] = "idle"
  PROVE  VideoInv'
<1>1. UNCHANGED <<jVideo, jStatus, vStatus, rawPath, hasReady, up, uploader, rPc, rVideo, job>>
  BY DEF WorkerDies, jobVars, videoVars, requestVars, retryVars, localVars
<1>2. ~Held(w)' /\ \A x \in Workers \ {w} : pc'[x] = pc[x]
  BY DEF WorkerDies, Goto, Held, HeldPcs, TranscodePcs, QueueInv, TypeOK, ControlTypes
<1> QED
  BY <1>1, <1>2, VideoFrame DEF Held

LEMMA VideoStep ==
  ASSUME OneProcess, RetriesOfSettled
  PROVE  QueueInv /\ VideoInv /\ RetriesApart /\ [Next]_vars => VideoInv'
<1> SUFFICES ASSUME QueueInv, VideoInv, RetriesApart, [Next]_vars PROVE VideoInv'
  OBVIOUS
<1>1. CASE RequestStep
  BY <1>1, VideoRequest
<1>2. CASE \E p \in Procs : Start(p) \/ Crash(p)
  BY <1>2, VideoStart, VideoCrash
<1>3. CASE \E w \in Workers : WorkerStep(w) \/ WorkerDies(w)
  BY <1>3, VideoClaim, VideoWorker, VideoIdle DEF WorkerStep, JobStep
<1>4. CASE Tick \/ (\E w \in Workers : Heartbeat(w)) \/ UNCHANGED vars
  <2>1. UNCHANGED <<jVideo, jStatus, vStatus, rawPath, hasReady, pc, job, up, uploader,
                    rPc, rVideo>>
    BY <1>4 DEF Tick, Heartbeat, vars, jobVars, videoVars, workerVars, localVars,
                requestVars, retryVars
  <2> QED
    BY <2>1, VideoFrame
<1> QED
  BY <1>1, <1>2, <1>3, <1>4 DEF Next

-----------------------------------------------------------------------------
(* No video is left behind. *)

QueuedFor(v, j) == jVideo[j] = v /\ InQueue(j)
Failing(v, w) == pc[w] = "markFailed" /\ VideoOf(w) = v
Attended(v) ==
    \/ \E j \in JobIds : QueuedFor(v, j)
    \/ uploader[v] # Nobody
    \/ \E w \in Workers : Failing(v, w)
    \/ \E p \in Procs : ~up[p]

LEMMA StrandedAttended ==
  /\ NothingStranded <=> \A v \in Videos : vStatus[v] \in PendingVideoStatuses => Attended(v)
  /\ NothingStranded' <=> \A v \in Videos : vStatus'[v] \in PendingVideoStatuses => Attended(v)'
  BY DEF NothingStranded, Attended, QueuedFor, Failing, PendingJobs, InQueue

LEMMA AttendedFrame ==
  ASSUME NEW v \in Videos, Attended(v), up' = up,
         uploader[v] # Nobody => uploader'[v] # Nobody,
         \A j \in JobIds : QueuedFor(v, j) => QueuedFor(v, j)',
         \A w \in Workers : Failing(v, w) => Failing(v, w)'
  PROVE  Attended(v)'
  BY DEF Attended

LEMMA StrandedRequest ==
  ASSUME QueueInv, VideoInv, NothingStranded, RequestStep
  PROVE  NothingStranded'
<1> SUFFICES ASSUME NEW v \in Videos, vStatus'[v] \in PendingVideoStatuses PROVE Attended(v)'
  BY StrandedAttended
<1>1. UNCHANGED <<up, pc, job>>
  BY DEF RequestStep, InsertVideo, EnqueueUpload, RetryCheck, RetryCommit, DeletePurge, DeleteRow,
         workerVars, localVars
<1>2. RowsGrow
  <2>1. CASE \E u \in Videos : Enqueue(u)
    BY <2>1, EnqueueGrows DEF QueueInv
  <2>2. CASE \E d \in Deletes : DeleteRow(d)
    <3>1. \A j \in JobIds : jStatus'[j] = "absent" <=> jStatus[j] = "absent"
      BY <2>2, ProcAssumption DEF DeleteRow, QueueInv, RowsConsistent
    <3> QED
      BY <2>2, <3>1, UpdateGrows DEF DeleteRow, QueueInv
  <2>3. CASE UNCHANGED jobVars
    BY <2>3, UpdateGrows DEF QueueInv, jobVars
  <2>4. \A r \in Retries : RetryCommit(r) => rVideo[r] \in Videos
    BY DEF RetryCommit, QueueInv, RowsConsistent
  <2> QED
    BY <2>1, <2>2, <2>3, <2>4 DEF RequestStep, InsertVideo, EnqueueUpload, RetryCheck,
       RetryCommit, DeletePurge
<1>3. \A w \in Workers : Failing(v, w) => Failing(v, w)'
  <2>1. \A w \in Workers : pc[w] = "markFailed" => job[w] \in JobIds /\ jStatus[job[w]] # "absent"
    BY RowsSplit DEF TasksOnRows, QueueInv
  <2> QED
    BY <1>1, <1>2, <2>1 DEF RowsGrow, Failing, VideoOf
<1>4. \A j \in JobIds : QueuedFor(v, j) => QueuedFor(v, j)'
  <2> SUFFICES ASSUME NEW j \in JobIds, QueuedFor(v, j) PROVE QueuedFor(v, j)'
    OBVIOUS
  <2>1. jVideo'[j] = v /\ (jStatus'[j] = "gone" \/ jStatus'[j] = jStatus[j])
    BY <1>2, RequestKeepsRows DEF QueuedFor, InQueue, RowsGrow, RowsKept, QueueInv
  <2>2. jStatus'[j] = "gone" => vStatus'[v] = "gone"
    <3>1. CASE \E d \in Deletes : DeleteRow(d)
      BY <3>1 DEF DeleteRow, QueuedFor, InQueue, QueueInv, TypeOK, VideoTypes
    <3>2. ASSUME NEW u, Enqueue(u) PROVE jStatus'[j] # "gone"
      BY <3>2 DEF Enqueue, QueuedFor, InQueue, QueueInv, TypeOK, JobTypes
    <3>3. CASE UNCHANGED jobVars
      BY <3>3 DEF jobVars, QueuedFor, InQueue
    <3> QED
      BY <3>1, <3>2, <3>3 DEF RequestStep, InsertVideo, EnqueueUpload, RetryCheck, RetryCommit,
         DeletePurge
  <2> QED
    BY <2>1, <2>2 DEF QueuedFor, InQueue, PendingVideoStatuses
<1>5. ASSUME vStatus[v] \in PendingVideoStatuses, uploader[v] # Nobody => uploader'[v] # Nobody
      PROVE  Attended(v)'
  BY <1>1, <1>3, <1>4, <1>5, StrandedAttended, AttendedFrame
<1>6. ASSUME Enqueue(v) PROVE Attended(v)'
  BY <1>6 DEF Enqueue, Attended, QueuedFor, InQueue, QueueInv, TypeOK, JobTypes
<1>7. ASSUME NEW p \in Procs, NEW u \in Videos, InsertVideo(p, u) PROVE Attended(v)'
  <2>1. CASE u = v
    BY <1>7, <2>1, ProcAssumption DEF InsertVideo, Attended, QueueInv, TypeOK, RequestTypes
  <2>2. CASE u # v
    BY <1>5, <1>7, <2>2 DEF InsertVideo, QueueInv, TypeOK, RequestTypes, VideoTypes
  <2> QED
    BY <2>1, <2>2
<1>8. ASSUME NEW u \in Videos, EnqueueUpload(u) PROVE Attended(v)'
  <2>1. CASE u = v
    BY <1>6, <1>8, <2>1 DEF EnqueueUpload, videoVars, Exists, PendingVideoStatuses
  <2>2. CASE u # v
    BY <1>5, <1>8, <2>2 DEF EnqueueUpload, videoVars, QueueInv, TypeOK, RequestTypes
  <2> QED
    BY <2>1, <2>2
<1>9. ASSUME NEW r \in Retries, RetryCommit(r) PROVE Attended(v)'
  <2>1. CASE rVideo[r] = v /\ Exists(v)
    BY <1>6, <1>9, <2>1 DEF RetryCommit
  <2>2. CASE ~(rVideo[r] = v /\ Exists(v))
    BY <1>5, <1>9, <2>2 DEF RetryCommit, QueueInv, TypeOK, VideoTypes
  <2> QED
    BY <2>1, <2>2
<1>10. ASSUME NEW d \in Deletes, DeleteRow(d) PROVE Attended(v)'
  BY <1>5, <1>10 DEF DeleteRow, PendingVideoStatuses, QueueInv, TypeOK, VideoTypes
<1>11. CASE UNCHANGED <<uploader, vStatus>>
  BY <1>5, <1>11
<1> QED
  BY <1>7, <1>8, <1>9, <1>10, <1>11 DEF RequestStep, RetryCheck, DeletePurge, videoVars

LEMMA StrandedProcess ==
  ASSUME OneProcess, QueueInv, VideoInv, NothingStranded, NEW p \in Procs, Start(p) \/ Crash(p)
  PROVE  NothingStranded'
<1>1. CASE Crash(p)
  BY <1>1, StrandedAttended DEF Crash, Attended, QueueInv, TypeOK, ControlTypes
<1>2. CASE Start(p)
  <2> SUFFICES ASSUME NEW v \in Videos, vStatus'[v] \in PendingVideoStatuses PROVE Attended(v)'
    BY StrandedAttended
  <2>1. vStatus[v] \in PendingVideoStatuses
    BY <1>2 DEF Start, videoVars
  <2>2. CASE v \in Orphans
    BY <1>2, <2>2, VideoStart DEF Attended, QueuedFor
  <2>3. CASE v \notin Orphans
    <3>1. PICK j \in JobIds : jVideo[j] = v /\ InQueue(j)
      BY <2>1, <2>3 DEF Orphans, PendingJobs, InQueue
    <3> QED
      BY <1>2, <3>1, VideoStart DEF Attended, QueuedFor
  <2> QED
    BY <2>2, <2>3
<1> QED
  BY <1>1, <1>2

\* Who lets go of a job either queues it again, is about to mark its video failed,
\* or leaves a video behind that is not pending.
LEMMA ReleaseSettles ==
  ASSUME QueueInv, VideoInv, NEW w \in Workers, Outcome(w), Held(w), ~Held(w)',
         vStatus[VideoOf(w)] # "gone"
  PROVE  \/ jStatus'[job[w]] \in {"queued", "running"}
         \/ pc'[w] = "markFailed" /\ job'[w] = job[w]
         \/ vStatus'[VideoOf(w)] = vStatus[VideoOf(w)]
            /\ vStatus[VideoOf(w)] \notin PendingVideoStatuses
<1>1. jStatus[job[w]] = "running" /\ job[w] \in JobIds /\ MayWrite(w) /\ Verdict(w)
  BY WorkIsQueued, TaskOnVideo
     DEF MayWrite, VideoInv, Verdicts, QueueInv, Exclusive, RunnerHoldsLease
<1> USE DEF QueueInv, TypeOK, ControlTypes, LocalTypes, JobTypes, Goto, Return, localVars,
            HeldPcs, TranscodePcs, Held
<1>2. CASE LoadVideo(w) \/ ReadVerdict(w) \/ MarkFailed(w) \/ Notify(w)
  BY <1>2 DEF LoadVideo, ReadVerdict, MarkFailed, Notify
<1>3. CASE FinishGone(w) \/ FinishDone(w)
  BY <1>1, <1>3 DEF FinishGone, FinishDone, Verdict, videoVars, PendingVideoStatuses
<1>4. CASE FinishNoRaw(w) \/ GiveUp(w)
  BY <1>1, <1>4 DEF FinishNoRaw, GiveUp
<1>5. CASE RequeueJob(w)
  BY <1>1, <1>5 DEF RequeueJob
<1> QED
  BY <1>2, <1>3, <1>4, <1>5 DEF Outcome

LEMMA StrandedWorker ==
  ASSUME QueueInv, VideoInv, NothingStranded, NEW w \in Workers, Outcome(w) \/ Transcode(w)
  PROVE  NothingStranded'
<1> SUFFICES ASSUME NEW u \in Videos, vStatus'[u] \in PendingVideoStatuses PROVE Attended(u)'
  BY StrandedAttended
<1>1. PICK v \in Videos : v = VideoOf(w) /\ job[w] \in JobIds
  BY TaskOnVideo, WorkerRows DEF JobStep
<1>2. VideoEffect(w, v)
  BY <1>1, WorkerEffect DEF JobStep
<1>3. /\ UNCHANGED <<jVideo, up, uploader>>
      /\ \A j \in JobIds \ {job[w]} : jStatus'[j] = jStatus[j]
      /\ \A x \in Workers \ {w} : pc'[x] = pc[x] /\ job'[x] = job[x]
      /\ Held(w) \/ pc[w] \in {"markFailed", "notify"}
  BY WorkerRows DEF requestVars, JobStep
<1>4. CASE u # v
  <2>1. vStatus[u] \in PendingVideoStatuses
    BY <1>2, <1>4 DEF VideoEffect
  <2>2. \A j \in JobIds : QueuedFor(u, j) => QueuedFor(u, j)'
    BY <1>1, <1>3, <1>4 DEF QueuedFor, InQueue, VideoOf
  <2>3. \A x \in Workers : Failing(u, x) => Failing(u, x)'
    BY <1>1, <1>3, <1>4 DEF Failing, VideoOf
  <2> QED
    BY <1>3, <2>1, <2>2, <2>3, StrandedAttended, AttendedFrame
<1>5. CASE u = v /\ Held(w)
  <2>1. vStatus[v] # "gone"
    BY <1>2, <1>5 DEF VideoEffect, PendingVideoStatuses, Exists
  <2>2. InQueue(job[w])
    BY <1>1, <1>5, <2>1, WorkIsQueued
  <2>3. CASE Held(w)'
    <3>1. Move(w)
      BY <1>5, <2>3, OutcomeShape, TranscodeShape
         DEF Release, Leave, Held, HeldPcs, TranscodePcs, QueueInv
    <3> QED
      BY <1>1, <1>5, <2>2, <3>1 DEF Move, Attended, QueuedFor, InQueue, VideoOf, jobVars
  <2>4. CASE ~Held(w)'
    <3>1. Outcome(w)
      BY <2>4, TranscodeShape DEF Move, Held, QueueInv
    <3>3. \/ jStatus'[job[w]] \in {"queued", "running"}
          \/ pc'[w] = "markFailed" /\ job'[w] = job[w]
      BY <1>1, <1>5, <2>1, <2>4, <3>1, ReleaseSettles
    <3> QED
      BY <1>1, <1>3, <1>5, <3>3 DEF Attended, QueuedFor, Failing, InQueue, VideoOf
  <2> QED
    BY <2>3, <2>4
<1>6. CASE u = v /\ ~Held(w)
  <2>1. Leave(w)
    BY <1>6, OutcomeShape, TranscodeShape DEF Move, Release, QueueInv
  <2>2. CASE pc[w] = "markFailed"
    <3>1. MarkFailed(w)
      BY <1>6, <2>2, TranscodeShape DEF Outcome, LoadVideo, FinishGone, FinishNoRaw, ReadVerdict,
         FinishDone, Notify, RequeueJob, GiveUp, Move, QueueInv
    <3>2. vStatus'[v] = "failed" \/ ~Exists(v)'
      BY <1>1, <3>1 DEF MarkFailed, SetVideoStatus, QueueInv, TypeOK, VideoTypes, Exists
    <3> QED
      BY <1>6, <3>2 DEF PendingVideoStatuses, Exists
  <2>3. CASE pc[w] # "markFailed"
    <3>1. vStatus[v] \in PendingVideoStatuses
      BY <1>2, <1>6 DEF VideoEffect, PendingVideoStatuses
    <3>2. \A j \in JobIds : QueuedFor(u, j) => QueuedFor(u, j)'
      BY <1>3, <2>1 DEF Leave, QueuedFor, InQueue, jobVars
    <3>3. \A x \in Workers : Failing(u, x) => Failing(u, x)'
      BY <1>3, <2>3 DEF Failing, VideoOf
    <3> QED
      BY <1>3, <1>6, <3>1, <3>2, <3>3, StrandedAttended, AttendedFrame
  <2> QED
    BY <2>2, <2>3
<1> QED
  BY <1>4, <1>5, <1>6

LEMMA StrandedClaim ==
  ASSUME QueueInv, NothingStranded, NEW w \in Workers, ClaimSelect(w) \/ ClaimUpdate(w)
  PROVE  NothingStranded'
<1> USE DEF QueueInv, TypeOK, ControlTypes, LocalTypes, JobTypes
<1>1. /\ UNCHANGED <<jVideo, vStatus, up, uploader>> /\ pc[w] # "markFailed"
      /\ \A x \in Workers \ {w} : pc'[x] = pc[x] /\ job'[x] = job[x]
  BY DEF ClaimSelect, ClaimUpdate, StillQueued, Goto, Return, jobVars, videoVars, requestVars
<1>2. \A j \in JobIds : InQueue(j) => InQueue(j)'
  BY DEF ClaimSelect, ClaimUpdate, StillQueued, InQueue, jobVars
<1>3. ASSUME NEW v \in Videos, Attended(v) PROVE Attended(v)'
  BY <1>1, <1>2, <1>3, AttendedFrame DEF QueuedFor, Failing, VideoOf
<1> QED
  BY <1>1, <1>3, StrandedAttended

LEMMA StrandedStep ==
  ASSUME OneProcess, MaxDbErrors = 0
  PROVE  QueueInv /\ VideoInv /\ NothingStranded /\ [Next]_vars => NothingStranded'
<1> SUFFICES ASSUME QueueInv, VideoInv, NothingStranded, [Next]_vars PROVE NothingStranded'
  OBVIOUS
<1>1. CASE RequestStep
  BY <1>1, StrandedRequest
<1>2. CASE \E p \in Procs : Start(p) \/ Crash(p)
  BY <1>2, StrandedProcess
<1>3. CASE \E w \in Workers : WorkerStep(w)
  BY <1>3, StrandedClaim, StrandedWorker DEF WorkerStep
<1>4. CASE \E w \in Workers : WorkerDies(w)
  BY <1>4 DEF WorkerDies, QueueInv, TypeOK, BoundTypes
<1>5. CASE Tick \/ (\E w \in Workers : Heartbeat(w)) \/ UNCHANGED vars
  <2>1. UNCHANGED <<jVideo, jStatus, vStatus, pc, job, up, uploader>>
    BY <1>5 DEF Tick, Heartbeat, vars, jobVars, videoVars, workerVars, localVars, requestVars
  <2>2. \A v \in Videos : Attended(v) => Attended(v)'
    BY <2>1 DEF Attended, QueuedFor, Failing, InQueue, VideoOf
  <2> QED
    BY <2>1, <2>2, StrandedAttended
<1> QED
  BY <1>1, <1>2, <1>3, <1>4, <1>5 DEF Next

-----------------------------------------------------------------------------
(* The theorems about videos, in one process whose workers renew in time, when a    *)
(* retry is asked for settled videos and no two retries of a video overlap.         *)

LEMMA VideoAlways ==
  ASSUME Stalls = FALSE, OneProcess, RetriesOfSettled
  PROVE  Spec /\ []RetriesApart => [](QueueInv /\ VideoInv)
<1>1. Init => QueueInv /\ VideoInv
  BY QueueInit, VideoInit
<1>2. QueueInv /\ VideoInv /\ RetriesApart /\ [Next]_vars => (QueueInv /\ VideoInv)'
  BY QueueStep, VideoStep
<1> QED
  BY <1>1, <1>2, PTL DEF Spec

\* At most one element, as the run states it.
LEMMA OneJobCounted == OneJob => OneJobPerVideo
<1> SUFFICES ASSUME OneJob, NEW v \in Videos PROVE Cardinality(PendingJobs(v)) <= 1
  BY DEF OneJobPerVideo
<1>1. CASE PendingJobs(v) = {}
  BY <1>1, FS_EmptySet
<1>2. ASSUME NEW j \in PendingJobs(v) PROVE Cardinality(PendingJobs(v)) <= 1
  <2>1. PendingJobs(v) = {j}
    BY <1>2 DEF OneJob, PendingJobs, InQueue
  <2> QED
    BY <2>1, FS_Singleton
<1> QED
  BY <1>1, <1>2

\* A video has at most one job queued or running: upload, retry, requeue and
\* recovery never double each other's work.
THEOREM JobsDoNotDouble ==
  ASSUME Stalls = FALSE, OneProcess, RetriesOfSettled
  PROVE  Spec /\ []RetriesApart => []OneJobPerVideo
<1>1. QueueInv /\ VideoInv => OneJobPerVideo
  BY OneJobCounted DEF VideoInv
<1> QED
  BY <1>1, VideoAlways, PTL

\* No two live workers are inside transcode_video() for one video.
THEOREM TranscodesDoNotOverlap ==
  ASSUME Stalls = FALSE, OneProcess, RetriesOfSettled
  PROVE  Spec /\ []RetriesApart => []OneTranscodePerVideo
<1>1. QueueInv /\ VideoInv => OneTranscodePerVideo
  BY DEF VideoInv, OneHolder, OneTranscodePerVideo, Held, HeldPcs
<1> QED
  BY <1>1, VideoAlways, PTL

\* A video shown as ready has a ready rendition.
THEOREM ReadyIsPlayable ==
  ASSUME Stalls = FALSE, OneProcess, RetriesOfSettled
  PROVE  Spec /\ []RetriesApart => []ReadyHasRendition
<1>1. QueueInv /\ VideoInv => ReadyHasRendition
  BY DEF VideoInv
<1> QED
  BY <1>1, VideoAlways, PTL

\* The original is given up only for a video that has a rendition.
THEOREM PurgedIsPlayable ==
  ASSUME Stalls = FALSE, OneProcess, RetriesOfSettled
  PROVE  Spec /\ []RetriesApart => []PurgedHasRendition
<1>1. QueueInv /\ VideoInv => PurgedHasRendition
  BY DEF VideoInv
<1> QED
  BY <1>1, VideoAlways, PTL

\* Without database errors outside transcode_video(), a pending video always has
\* something that will act on it, kills at any step included.
THEOREM VideosAreAttended ==
  ASSUME Stalls = FALSE, OneProcess, RetriesOfSettled, MaxDbErrors = 0
  PROVE  Spec /\ []RetriesApart => []NothingStranded
<1>1. Init => NothingStranded
  BY DEF Init, NothingStranded, PendingVideoStatuses
<1>2. QueueInv /\ VideoInv /\ NothingStranded /\ [Next]_vars => NothingStranded'
  BY StrandedStep
<1> QED
  BY <1>1, <1>2, VideoAlways, PTL DEF Spec
=============================================================================
