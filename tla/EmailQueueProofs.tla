--------------------------- MODULE EmailQueueProofs ---------------------------
(***************************************************************************)
(* Theorems about EmailQueue for every number of messages, attempts and    *)
(* faults: what the rows say was delivered and given up, and the types,    *)
(* for every number of workers; what is promised of duplicates and         *)
(* attempts, and the refinement of Outbox, for one worker.                 *)
(***************************************************************************)
EXTENDS EmailQueue, TLAPS

\* The part of the types that the first arguments need; the rest is at the end.
RowTypes ==
    /\ status \in [Messages -> Status]
    /\ attempts \in [Messages -> Nat] /\ delivered \in [Messages -> Nat]
TaskTypes ==
    /\ pc \in [Procs -> Pcs]
    /\ ids \in [Procs -> SUBSET Messages] /\ batch \in [Procs -> SUBSET Messages]
    /\ todo \in [Procs -> SUBSET Messages] /\ failures \in [Procs -> SUBSET Messages]
    /\ tries \in [Procs -> [Messages -> Nat]]

\* What a worker knows of its batch: nothing is left to hand over when it records,
\* what is neither left nor failed has been accepted, and the attempts it
\* remembers have been made.
Knows(p) ==
    /\ pc[p] = "record" => todo[p] = {}
    /\ \A m \in batch[p] \ (todo[p] \cup failures[p]) : delivered[m] > 0
    /\ \A m \in Messages : tries[p][m] <= attempts[m]

\* The two properties are not inductive: an outcome is recorded from what the
\* worker knows, long after the deliveries and the claim it stands for.
Inv == /\ RowTypes /\ TaskTypes /\ \A p \in Procs : Knows(p)
       /\ SentWasDelivered /\ FailedAfterAllAttempts

LEMMA InvInit == Init => Inv
  BY DEF Init, Inv, RowTypes, TaskTypes, Knows, SentWasDelivered,
         FailedAfterAllAttempts, Status, Pcs

-----------------------------------------------------------------------------
\* Attempts and deliveries only grow, and an outcome is recorded with reason.
RowsAdvance ==
    /\ RowTypes'
    /\ \A m \in Messages : attempts'[m] >= attempts[m] /\ delivered'[m] >= delivered[m]
    /\ \A m \in Messages : status'[m] = "sent" => status[m] = "sent" \/ delivered[m] > 0
    /\ \A m \in Messages : status'[m] = "failed" =>
            status[m] = "failed" \/ attempts[m] >= MaxAttempts

SameTask(q) == /\ pc'[q] = pc[q] /\ batch'[q] = batch[q] /\ todo'[q] = todo[q]
               /\ failures'[q] = failures[q] /\ tries'[q] = tries[q]

\* What a worker knows stays true while others act.
LEMMA KnowsStays ==
  ASSUME Inv, RowsAdvance, NEW q \in Procs, SameTask(q)
  PROVE  Knows(q)'
<1> USE DEF Inv, RowTypes, TaskTypes, RowsAdvance
<1>1. \A m \in batch[q] \ (todo[q] \cup failures[q]) : delivered'[m] > 0
  BY DEF Knows
<1>2. \A m \in Messages : tries[q][m] <= attempts'[m]
  BY DEF Knows
<1> QED
  BY <1>1, <1>2 DEF Knows, SameTask

LEMMA RowsStay ==
  ASSUME Inv, RowsAdvance
  PROVE  SentWasDelivered' /\ FailedAfterAllAttempts'
  BY LimitAssumption
     DEF Inv, RowTypes, RowsAdvance, SentWasDelivered, FailedAfterAllAttempts

\* A step of one worker keeps the invariant if that worker knows its batch after.
LEMMA InvTask ==
  ASSUME Inv, RowsAdvance, TaskTypes', NEW p \in Procs, Knows(p)',
         \A q \in Procs \ {p} : SameTask(q)
  PROVE  Inv'
<1>1. \A q \in Procs : Knows(q)'
  BY KnowsStays
<1> QED
  BY <1>1, RowsStay DEF Inv, RowsAdvance

LEMMA InvRows ==
  ASSUME Inv, RowsAdvance, UNCHANGED <<pc, localVars>>
  PROVE  Inv'
<1>1. TaskTypes' /\ \A q \in Procs : SameTask(q)
  BY DEF localVars, SameTask, Inv, TaskTypes
<1> QED
  BY <1>1, KnowsStays, RowsStay DEF Inv, RowsAdvance

\* A worker with no batch knows all there is to know.
LEMMA ReturnKnows ==
  ASSUME TaskTypes, RowTypes', NEW p \in Procs, Return(p)
  PROVE  TaskTypes' /\ Knows(p)' /\ \A q \in Procs \ {p} : SameTask(q)
  BY DEF Return, TaskTypes, RowTypes, Knows, SameTask, Pcs

LEMMA SameRows ==
  ASSUME Inv, UNCHANGED <<status, attempts, delivered>>
  PROVE  RowsAdvance
  BY DEF Inv, RowTypes, RowsAdvance

-----------------------------------------------------------------------------
LEMMA InvProcess ==
  ASSUME Inv, NEW p \in Procs, Start(p) \/ Crash(p)
  PROVE  Inv'
<1> USE DEF Inv, TaskTypes, RowTypes
<1>1. CASE Start(p)
  <2>1. RowsAdvance
    BY <1>1 DEF Start, RowsAdvance, Status
  <2>2. pc' = [pc EXCEPT ![p] = "idle"] /\ UNCHANGED <<ids, batch, tries, todo, failures>>
    BY <1>1 DEF Start, localVars
  <2>3. TaskTypes' /\ \A q \in Procs \ {p} : SameTask(q)
    BY <2>2 DEF SameTask, Pcs
  <2>4. Knows(p)'
    <3>1. \A m \in Messages : tries[p][m] <= attempts'[m]
      BY <2>1 DEF RowsAdvance, Knows
    <3>2. \A m \in batch[p] \ (todo[p] \cup failures[p]) : delivered'[m] > 0
      BY <2>1 DEF RowsAdvance, Knows
    <3> QED
      BY <2>2, <3>1, <3>2 DEF Knows
  <2> QED
    BY <2>1, <2>3, <2>4, InvTask
<1>2. CASE Crash(p)
  <2>1. PICK got \in SUBSET Messages :
           delivered' = [m \in Messages |-> delivered[m] + IF m \in got THEN 1 ELSE 0]
    BY <1>2 DEF Crash
  <2>2. RowsAdvance
    BY <1>2, <2>1 DEF Crash, rowVars, RowsAdvance
  <2>3. TaskTypes' /\ Knows(p)' /\ \A q \in Procs \ {p} : SameTask(q)
    BY <1>2, <2>2 DEF Crash, RowsAdvance, Knows, SameTask, Pcs
  <2> QED
    BY <2>2, <2>3, InvTask
<1> QED
  BY <1>1, <1>2

LEMMA InvClaim ==
  ASSUME Inv, NEW p \in Procs, ClaimSelect(p) \/ ClaimUpdate(p)
  PROVE  Inv'
<1> USE DEF Inv, TaskTypes, RowTypes
<1>1. CASE ClaimSelect(p)
  <2>1. PICK S \in SUBSET Messages : ids' = [ids EXCEPT ![p] = S]
    BY <1>1 DEF ClaimSelect, Due
  <2>2. /\ pc' = [pc EXCEPT ![p] = "picked"]
        /\ UNCHANGED <<status, attempts, delivered, batch, tries, todo, failures>>
    BY <1>1 DEF ClaimSelect, rowVars
  <2>3. TaskTypes' /\ Knows(p)' /\ \A q \in Procs \ {p} : SameTask(q)
    BY <2>1, <2>2 DEF Pcs, Knows, SameTask
  <2> QED
    BY <2>2, <2>3, InvTask, SameRows
<1>2. CASE ClaimUpdate(p)
  <2> DEFINE won == StillQueued(p)
  <2>1. /\ status' = [m \in Messages |-> IF m \in won THEN "sending" ELSE status[m]]
        /\ attempts' = [m \in Messages |-> attempts[m] + IF m \in won THEN 1 ELSE 0]
        /\ UNCHANGED delivered
    BY <1>2 DEF ClaimUpdate
  <2> HIDE DEF won
  <2>2. RowsAdvance
    BY <2>1 DEF RowsAdvance, Status
  <2>3. CASE Return(p)
    BY <2>2, <2>3, ReturnKnows, InvTask DEF RowsAdvance
  <2>4. CASE pc' = [pc EXCEPT ![p] = "claimed"] /\ UNCHANGED localVars
    <3>1. TaskTypes' /\ \A q \in Procs \ {p} : SameTask(q)
      BY <2>4 DEF localVars, SameTask, Pcs
    <3>2. \A m \in Messages : tries[p][m] <= attempts'[m]
      BY <2>2 DEF RowsAdvance, Knows
    <3>3. Knows(p)'
      BY <2>1, <2>4, <3>2 DEF localVars, Knows
    <3> QED
      BY <2>2, <3>1, <3>3, InvTask
  <2> QED
    BY <1>2, <2>3, <2>4 DEF ClaimUpdate
<1> QED
  BY <1>1, <1>2

\* A worker reads its rows and builds the messages.
LEMMA InvBatch ==
  ASSUME Inv, NEW p \in Procs,
         ReadBatch(p) \/ BuildBatch(p) \/ BuildFails(p) \/ PassFails(p)
  PROVE  Inv'
<1> USE DEF Inv, TaskTypes, RowTypes
<1>1. RowsAdvance
  BY SameRows DEF ReadBatch, BuildBatch, BuildFails, PassFails, rowVars
<1>2. CASE Return(p)
  BY <1>1, <1>2, ReturnKnows, InvTask DEF RowsAdvance
<1>3. CASE ReadBatch(p) /\ ~Return(p)
  <2>1. PICK rows \in SUBSET Messages :
           /\ batch' = [batch EXCEPT ![p] = rows] /\ todo' = [todo EXCEPT ![p] = rows]
           /\ tries' = [tries EXCEPT ![p] = attempts] /\ pc' = [pc EXCEPT ![p] = "build"]
           /\ UNCHANGED <<ids, failures>>
    <3>1. {m \in ids[p] : status[m] = "sending"} \in SUBSET Messages
      OBVIOUS
    <3> QED
      BY <1>3, <3>1 DEF ReadBatch
  <2>2. TaskTypes' /\ \A q \in Procs \ {p} : SameTask(q)
    BY <2>1 DEF SameTask, Pcs
  <2>3. UNCHANGED attempts
    BY <1>3 DEF ReadBatch, rowVars
  <2>4. Knows(p)'
    BY <2>1, <2>3 DEF Knows
  <2> QED
    BY <1>1, <2>2, <2>4, InvTask
<1>4. CASE BuildBatch(p)
  <2>1. /\ pc' = [pc EXCEPT ![p] = "sending"]
        /\ UNCHANGED <<status, attempts, delivered, ids, batch, tries, todo, failures>>
    BY <1>4 DEF BuildBatch, localVars, rowVars
  <2>2. TaskTypes' /\ Knows(p)' /\ \A q \in Procs \ {p} : SameTask(q)
    BY <2>1 DEF SameTask, Knows, Pcs
  <2> QED
    BY <1>1, <2>2, InvTask
<1> QED
  BY <1>2, <1>3, <1>4 DEF BuildFails, PassFails

LEMMA InvSend ==
  ASSUME Inv, NEW p \in Procs, Send(p)
  PROVE  Inv'
<1> USE DEF Inv, TaskTypes, RowTypes
<1>1. /\ UNCHANGED <<status, attempts, ids, batch, tries>>
      /\ \/ UNCHANGED delivered
         \/ \E m \in todo[p] : delivered' = [delivered EXCEPT ![m] = @ + 1]
  <2>1. CASE Accept(p)
    BY <2>1 DEF Accept, rowVars
  <2>2. CASE ReplyLost(p)
    BY <2>2 DEF ReplyLost, rowVars
  <2>3. CASE Refuse(p) \/ ConnectionLost(p)
    BY <2>3 DEF Refuse, ConnectionLost, rowVars
  <2> QED
    BY <2>1, <2>2, <2>3 DEF Send
<1>2. RowsAdvance
  <2>1. CASE UNCHANGED delivered
    BY <1>1, <2>1, SameRows
  <2>2. ASSUME NEW m \in todo[p], delivered' = [delivered EXCEPT ![m] = @ + 1]
        PROVE  RowsAdvance
    BY <1>1, <2>2 DEF RowsAdvance
  <2> QED
    BY <1>1, <2>1, <2>2
<1>3. ASSUME NEW S \in SUBSET Messages, HandOver(p, S)
      PROVE  /\ todo' \in [Procs -> SUBSET Messages] /\ pc' \in [Procs -> Pcs]
             /\ todo'[p] = todo[p] \ S
             /\ pc'[p] = "record" => todo'[p] = {}
             /\ \A q \in Procs \ {p} : todo'[q] = todo[q] /\ pc'[q] = pc[q]
  BY <1>3 DEF HandOver, Pcs
<1>4. CASE Accept(p)
  <2>1. PICK m \in todo[p] : /\ delivered' = [delivered EXCEPT ![m] = @ + 1]
                             /\ HandOver(p, {m})
    BY <1>4 DEF Accept
  <2>2. UNCHANGED failures
    BY <1>4 DEF Accept
  <2>3. delivered'[m] > 0
    BY <2>1
  <2>4. Knows(p)'
    <3>1. \A n \in batch[p] \ (todo'[p] \cup failures[p]) : delivered'[n] > 0
      <4> SUFFICES ASSUME NEW n \in batch[p] \ (todo'[p] \cup failures[p]), n # m
                   PROVE  delivered'[n] > 0
        BY <2>3
      <4>1. n \in batch[p] \ (todo[p] \cup failures[p])
        BY <1>3, <2>1
      <4> QED
        BY <1>2, <4>1 DEF RowsAdvance, Knows
    <3> QED
      BY <1>1, <1>3, <2>1, <2>2, <3>1 DEF Knows
  <2>5. TaskTypes' /\ \A q \in Procs \ {p} : SameTask(q)
    BY <1>1, <1>3, <2>1, <2>2 DEF SameTask
  <2> QED
    BY <1>2, <2>4, <2>5, InvTask
<1>5. CASE Refuse(p) \/ ConnectionLost(p) \/ ReplyLost(p)
  <2>1. PICK S \in SUBSET todo[p] : /\ failures' = [failures EXCEPT ![p] = @ \cup S]
                                    /\ HandOver(p, S)
    <3>1. CASE Refuse(p)
      BY <3>1 DEF Refuse
    <3>2. CASE ConnectionLost(p) \/ ReplyLost(p)
      BY <3>2 DEF ConnectionLost, ReplyLost
    <3> QED
      BY <1>5, <3>1, <3>2
  <2>2. \A n \in batch[p] \ (todo'[p] \cup failures'[p]) : delivered'[n] > 0
    <3> SUFFICES ASSUME NEW n \in batch[p] \ (todo'[p] \cup failures'[p])
                 PROVE  delivered'[n] > 0
      OBVIOUS
    <3>1. n \in batch[p] \ (todo[p] \cup failures[p])
      BY <1>3, <2>1
    <3> QED
      BY <1>2, <3>1 DEF RowsAdvance, Knows
  <2>3. Knows(p)'
    BY <1>1, <1>3, <2>1, <2>2 DEF Knows
  <2>4. TaskTypes' /\ \A q \in Procs \ {p} : SameTask(q)
    BY <1>1, <1>3, <2>1 DEF SameTask
  <2> QED
    BY <1>2, <2>3, <2>4, InvTask
<1> QED
  BY <1>4, <1>5 DEF Send

\* The outcomes of the messages in R are written, all of them unless the
\* database raises.
Records(p, R) ==
    /\ pc[p] = "record" /\ Finish(p, R) /\ Return(p) /\ UNCHANGED delivered
    /\ faults' = faults + 1 \/ (UNCHANGED faults /\ R = batch[p])

LEMMA RecordShape ==
  ASSUME NEW p \in Procs, Record(p) \/ RecordFails(p)
  PROVE  \E R \in SUBSET batch[p] : Records(p, R)
<1>1. CASE Record(p)
  BY <1>1 DEF Record, Records, history
<1>2. CASE RecordFails(p)
  BY <1>2 DEF RecordFails, Records
<1> QED
  BY <1>1, <1>2

LEMMA InvRecord ==
  ASSUME Inv, NEW p \in Procs, Record(p) \/ RecordFails(p)
  PROVE  Inv'
<1> PICK R \in SUBSET batch[p] : Records(p, R)
  BY RecordShape
<1> USE DEF Inv, TaskTypes, RowTypes
<1>1. \A m \in Messages :
        \/ status'[m] = "sent" /\ m \in batch[p] \ failures[p]
        \/ status'[m] = "failed" /\ m \in batch[p] /\ tries[p][m] >= MaxAttempts
        \/ status'[m] = "queued"
        \/ status'[m] = status[m]
  BY DEF Records, Finish, Sent, GivesUp
<1>2. status' \in [Messages -> Status] /\ UNCHANGED <<attempts, delivered>> /\ Return(p)
  BY <1>1 DEF Records, Finish, Status
<1>3. todo[p] = {}
  BY DEF Records, Knows
<1>4. RowsAdvance
  <2> SUFFICES ASSUME NEW m \in Messages
               PROVE  /\ status'[m] = "sent" => status[m] = "sent" \/ delivered[m] > 0
                      /\ status'[m] = "failed" =>
                            status[m] = "failed" \/ attempts[m] >= MaxAttempts
    BY <1>2 DEF RowsAdvance
  <2>1. m \in batch[p] \ failures[p] => delivered[m] > 0
    BY <1>3 DEF Knows
  <2>2. tries[p][m] >= MaxAttempts => attempts[m] >= MaxAttempts
    BY LimitAssumption DEF Knows
  <2> QED
    BY <1>1, <2>1, <2>2
<1> QED
  BY <1>2, <1>4, ReturnKnows, InvTask DEF RowsAdvance

LEMMA InvStep == Inv /\ [Next]_vars => Inv'
<1> SUFFICES ASSUME Inv, [Next]_vars PROVE Inv'
  OBVIOUS
<1> USE DEF Inv, RowTypes
<1>1. CASE EnqueueEmail
  BY <1>1, InvRows DEF EnqueueEmail, RowsAdvance, Status
<1>2. ASSUME NEW p \in Procs,
             Start(p) \/ Crash(p) \/ Pass(p) \/ PassFails(p) \/ RecordFails(p)
      PROVE  Inv'
  BY <1>2, InvProcess, InvClaim, InvBatch, InvSend, InvRecord DEF Pass
<1>3. CASE \E p \in Procs : Prune(p)
  BY <1>3, InvRows DEF Prune, RowsAdvance, Status
<1>4. CASE Tick
  BY <1>4, InvRows, SameRows DEF Tick
<1>5. CASE UNCHANGED vars
  BY <1>5, InvRows, SameRows DEF vars, rowVars
<1> QED
  BY <1>1, <1>2, <1>3, <1>4, <1>5 DEF Next

\* Whatever is interrupted, refused, lost or claimed by two workers, a message
\* recorded as sent was accepted by the mail server, and a message recorded as
\* failed has been claimed EMAIL_MAX_ATTEMPTS times.
THEOREM OutcomesAreTrue == Spec => [](SentWasDelivered /\ FailedAfterAllAttempts)
<1>1. Inv => SentWasDelivered /\ FailedAfterAllAttempts
  BY DEF Inv
<1> QED
  BY <1>1, InvInit, InvStep, PTL DEF Spec

\* _handle_failure() gives a message up only on its last attempt, although a claim
\* that was recovered or stolen counts as one.
THEOREM NoneGivenUpEarly == Spec => []FailedAfterAllAttempts
  BY OutcomesAreTrue, PTL

-----------------------------------------------------------------------------
(* One worker: what faults pay for, and the promise of Outbox. *)

OneWorker == \A p, q \in Procs : p = q

\* What the mail server has accepted in this pass.
Accepted(p) == batch[p] \ (todo[p] \cup failures[p])

\* The rows of a batch are the worker's own, and the pass knows where it is with them.
BatchHeld(p) ==
    /\ pc[p] \in {"build", "sending", "record"} \/ batch[p] = {}
    /\ pc[p] = "build" => todo[p] = batch[p]
    /\ pc[p] = "record" => todo[p] = {}
    /\ todo[p] \cap failures[p] = {}
    /\ todo[p] \cup failures[p] \subseteq batch[p]
    /\ \A m \in batch[p] : status[m] = "sending" /\ tries[p][m] = attempts[m]

\* A copy beyond those that faults account for is of a message that is through, or
\* about to be recorded.
CopiesPaid(p) ==
    \A m \in Messages :
        delivered[m] <= faults \/ status[m] \in {"sent", "pruned"} \/ m \in Accepted(p)

\* A message that can still be claimed has an attempt left, and so has one whose
\* worker is lost.
ClaimsPaid(p) ==
    \A m \in Messages :
        \/ attempts[m] < MaxAttempts + faults
        \/ status[m] # "queued" /\ (status[m] = "sending" => pc[p] # "down")

Counters == /\ faults \in Nat /\ nextId \in Nat
            /\ \A m \in Messages : m >= nextId => status[m] = "absent" /\ attempts[m] = 0

SingleInv ==
    /\ Inv /\ Counters /\ DuplicatesArePaidFor /\ AttemptsArePaidFor
    /\ \A p \in Procs : BatchHeld(p) /\ CopiesPaid(p) /\ ClaimsPaid(p)

LEMMA SingleInit == Init => SingleInv
<1> SUFFICES ASSUME Init PROVE SingleInv
  OBVIOUS
<1> QED
  BY InvInit, LimitAssumption
     DEF Init, SingleInv, Counters, DuplicatesArePaidFor, AttemptsArePaidFor, BatchHeld,
         CopiesPaid, ClaimsPaid

\* What the step of the only worker is to show.
Paid(p) == /\ Counters /\ DuplicatesArePaidFor /\ AttemptsArePaidFor
           /\ BatchHeld(p) /\ CopiesPaid(p) /\ ClaimsPaid(p)

LEMMA StartPaid ==
  ASSUME SingleInv, NEW p \in Procs, Start(p)
  PROVE  Paid(p)'
<1> USE DEF SingleInv, Inv, RowTypes, TaskTypes
<1>1. /\ pc[p] = "down" /\ pc' = [pc EXCEPT ![p] = "idle"]
      /\ UNCHANGED <<attempts, delivered, nextId, ids, batch, tries, todo, failures, faults>>
      /\ status' = [m \in Messages |-> IF m \in Lapsed THEN "queued" ELSE status[m]]
  BY DEF Start, localVars
<1>2. Counters' /\ DuplicatesArePaidFor' /\ AttemptsArePaidFor'
  BY <1>1 DEF Counters, DuplicatesArePaidFor, AttemptsArePaidFor, Lapsed
<1>3. batch[p] = {}
  BY <1>1 DEF BatchHeld
<1>4. BatchHeld(p)'
  BY <1>1, <1>3 DEF BatchHeld
<1>5. CopiesPaid(p)'
  BY <1>1, <1>3 DEF CopiesPaid, Accepted, Lapsed
<1>6. ClaimsPaid(p)'
  BY <1>1, LimitAssumption DEF ClaimsPaid, Lapsed
<1> QED
  BY <1>2, <1>4, <1>5, <1>6 DEF Paid

LEMMA CrashPaid ==
  ASSUME SingleInv, NEW p \in Procs, Crash(p)
  PROVE  Paid(p)'
<1> USE LimitAssumption DEF SingleInv, Inv, RowTypes, TaskTypes
<1>1. PICK got \in SUBSET todo[p] :
         delivered' = [m \in Messages |-> delivered[m] + IF m \in got THEN 1 ELSE 0]
  BY DEF Crash
<1>2. /\ pc' = [pc EXCEPT ![p] = "down"] /\ faults' = faults + 1
      /\ batch'[p] = {} /\ todo'[p] = {} /\ failures'[p] = {}
      /\ UNCHANGED <<status, attempts, nextId>>
  BY DEF Crash, rowVars
<1>3. Counters' /\ BatchHeld(p)'
  BY <1>2 DEF Counters, BatchHeld
<1>4. \A m \in Messages : delivered'[m] <= faults'
  <2> SUFFICES ASSUME NEW m \in Messages PROVE delivered'[m] <= faults + 1
    BY <1>2
  <2>1. CASE m \in got
    <3>1. m \notin Accepted(p) /\ status[m] = "sending"
      BY <2>1 DEF Accepted, BatchHeld
    <3>2. delivered[m] <= faults
      BY <3>1 DEF CopiesPaid
    <3> QED
      BY <1>1, <3>2 DEF Counters
  <2>2. CASE m \notin got
    BY <1>1, <2>2 DEF Counters, DuplicatesArePaidFor
  <2> QED
    BY <2>1, <2>2
<1>5. CopiesPaid(p)' /\ DuplicatesArePaidFor'
  BY <1>1, <1>2, <1>4 DEF CopiesPaid, DuplicatesArePaidFor, Counters
<1>6. ClaimsPaid(p)' /\ AttemptsArePaidFor'
  BY <1>2 DEF ClaimsPaid, AttemptsArePaidFor, Counters
<1> QED
  BY <1>3, <1>5, <1>6 DEF Paid

\* A pass that is given up before anything was handed over, or by a fault.
LEMMA ReturnPaid ==
  ASSUME SingleInv, NEW p \in Procs, Return(p), pc[p] # "down",
         UNCHANGED <<status, attempts, delivered, nextId>>,
         \/ faults' = faults + 1
         \/ UNCHANGED faults /\ Accepted(p) = {}
  PROVE  Paid(p)'
<1> USE LimitAssumption DEF SingleInv, Inv, RowTypes, TaskTypes
<1>1. /\ pc' = [pc EXCEPT ![p] = "idle"]
      /\ batch'[p] = {} /\ todo'[p] = {} /\ failures'[p] = {}
  BY DEF Return
<1>2. Counters' /\ BatchHeld(p)' /\ faults' >= faults
  BY <1>1 DEF Counters, BatchHeld
<1>3. CopiesPaid(p)' /\ DuplicatesArePaidFor'
  <2>1. CASE faults' = faults + 1
    BY <2>1 DEF CopiesPaid, DuplicatesArePaidFor, Counters
  <2>2. CASE UNCHANGED faults /\ Accepted(p) = {}
    BY <2>2 DEF CopiesPaid, DuplicatesArePaidFor
  <2> QED
    BY <2>1, <2>2
<1>4. ClaimsPaid(p)' /\ AttemptsArePaidFor'
  BY <1>1, <1>2 DEF ClaimsPaid, AttemptsArePaidFor, Counters
<1> QED
  BY <1>2, <1>3, <1>4 DEF Paid

LEMMA ClaimPaid ==
  ASSUME SingleInv, NEW p \in Procs, ClaimSelect(p) \/ ClaimUpdate(p)
  PROVE  Paid(p)'
<1> USE LimitAssumption DEF SingleInv, Inv, RowTypes, TaskTypes
<1>1. CASE ClaimSelect(p)
  <2>1. /\ pc[p] = "idle" /\ pc' = [pc EXCEPT ![p] = "picked"]
        /\ UNCHANGED <<status, attempts, delivered, nextId, batch, tries, todo, failures, faults>>
    BY <1>1 DEF ClaimSelect, rowVars, history
  <2>2. Counters' /\ DuplicatesArePaidFor' /\ AttemptsArePaidFor'
    BY <2>1 DEF Counters, DuplicatesArePaidFor, AttemptsArePaidFor
  <2>3. BatchHeld(p)' /\ CopiesPaid(p)' /\ ClaimsPaid(p)'
    BY <2>1 DEF BatchHeld, CopiesPaid, ClaimsPaid, Accepted
  <2> QED
    BY <2>2, <2>3 DEF Paid
<1>2. CASE ClaimUpdate(p)
  <2> DEFINE won == StillQueued(p)
  <2>1. /\ pc[p] = "picked"
        /\ status' = [m \in Messages |-> IF m \in won THEN "sending" ELSE status[m]]
        /\ attempts' = [m \in Messages |-> attempts[m] + IF m \in won THEN 1 ELSE 0]
        /\ UNCHANGED <<delivered, nextId, faults>>
    BY <1>2 DEF ClaimUpdate, history
  <2>2. \A m \in won : status[m] = "queued"
    BY DEF StillQueued
  <2> HIDE DEF won
  <2>3. batch[p] = {} /\ todo[p] = {} /\ failures[p] = {}
    BY <2>1 DEF BatchHeld
  <2>4. batch'[p] = {} /\ todo'[p] = {} /\ failures'[p] = {} /\ pc'[p] \in {"idle", "claimed"}
    BY <1>2, <2>3 DEF ClaimUpdate, Return, localVars
  <2>5. Counters' /\ DuplicatesArePaidFor'
    BY <2>1, <2>2 DEF Counters, DuplicatesArePaidFor
  <2>6. ClaimsPaid(p)' /\ AttemptsArePaidFor'
    BY <2>1, <2>2, <2>4 DEF ClaimsPaid, AttemptsArePaidFor, Counters
  <2>7. BatchHeld(p)' /\ CopiesPaid(p)'
    BY <2>1, <2>2, <2>3, <2>4 DEF BatchHeld, CopiesPaid, Accepted
  <2> QED
    BY <2>5, <2>6, <2>7 DEF Paid
<1> QED
  BY <1>1, <1>2

LEMMA BatchPaid ==
  ASSUME SingleInv, NEW p \in Procs,
         ReadBatch(p) \/ BuildBatch(p) \/ BuildFails(p) \/ PassFails(p)
  PROVE  Paid(p)'
<1> USE LimitAssumption DEF SingleInv, Inv, RowTypes, TaskTypes
<1>1. pc[p] # "down" /\ UNCHANGED <<status, attempts, delivered, nextId>>
  BY DEF ReadBatch, BuildBatch, BuildFails, PassFails, rowVars
<1>2. CASE PassFails(p)
  BY <1>1, <1>2, ReturnPaid DEF PassFails
<1>3. CASE Return(p) /\ ~PassFails(p)
  <2>1. UNCHANGED faults /\ pc[p] \in {"claimed", "build"}
    BY <1>3 DEF ReadBatch, BuildBatch, BuildFails, history
  <2>2. Accepted(p) = {}
    BY <2>1 DEF BatchHeld, Accepted
  <2> QED
    BY <1>1, <1>3, <2>1, <2>2, ReturnPaid
<1>4. CASE (ReadBatch(p) /\ ~Return(p)) \/ BuildBatch(p)
  <2>1. UNCHANGED faults /\ pc'[p] # "down"
    BY <1>4 DEF ReadBatch, BuildBatch, history
  <2>2. Counters' /\ DuplicatesArePaidFor' /\ AttemptsArePaidFor' /\ ClaimsPaid(p)'
    BY <1>1, <2>1 DEF Counters, DuplicatesArePaidFor, AttemptsArePaidFor, ClaimsPaid
  <2>3. CASE ReadBatch(p) /\ ~Return(p)
    <3> DEFINE rows == {m \in ids[p] : status[m] = "sending"}
    <3>1. /\ batch'[p] = rows /\ todo'[p] = rows /\ tries'[p] = attempts
          /\ pc'[p] = "build" /\ UNCHANGED failures /\ pc[p] = "claimed"
      BY <2>3 DEF ReadBatch
    <3>2. failures[p] = {} /\ Accepted(p) = {}
      BY <3>1 DEF BatchHeld, Accepted
    <3>3. BatchHeld(p)'
      BY <1>1, <3>1, <3>2 DEF BatchHeld
    <3>4. CopiesPaid(p)'
      BY <1>1, <2>1, <3>2 DEF CopiesPaid
    <3> QED
      BY <2>2, <3>3, <3>4 DEF Paid
  <2>4. CASE BuildBatch(p)
    <3>1. /\ pc[p] = "build" /\ pc'[p] = "sending"
          /\ UNCHANGED <<batch, todo, failures, tries>>
      BY <2>4 DEF BuildBatch, localVars
    <3>2. BatchHeld(p)' /\ CopiesPaid(p)'
      BY <1>1, <2>1, <3>1 DEF BatchHeld, CopiesPaid, Accepted
    <3> QED
      BY <2>2, <3>2 DEF Paid
  <2> QED
    BY <1>4, <2>3, <2>4
<1> QED
  BY <1>2, <1>3, <1>4 DEF BuildFails

LEMMA SendPaid ==
  ASSUME SingleInv, NEW p \in Procs, Send(p)
  PROVE  Paid(p)'
<1> USE LimitAssumption DEF SingleInv, Inv, RowTypes, TaskTypes
<1>1. /\ pc[p] = "sending"
      /\ UNCHANGED <<status, attempts, nextId, ids, batch, tries>>
  BY DEF Send, Accept, Refuse, ConnectionLost, ReplyLost, rowVars
<1>2. \A m \in todo[p] : delivered[m] <= faults
  BY DEF BatchHeld, CopiesPaid, Accepted
<1>3. ASSUME NEW S \in SUBSET todo[p], HandOver(p, S),
             \/ failures'[p] = failures[p] \cup S
             \/ UNCHANGED failures
      PROVE  BatchHeld(p)' /\ pc'[p] \in {"sending", "record"} /\ todo'[p] = todo[p] \ S
  <2>1. /\ todo'[p] = todo[p] \ S /\ pc'[p] \in {"sending", "record"}
        /\ pc'[p] = "record" => todo'[p] = {}
    BY <1>1, <1>3 DEF HandOver
  <2> QED
    BY <1>1, <1>3, <2>1 DEF BatchHeld
<1>4. ASSUME pc'[p] # "down", faults' \in {faults, faults + 1}
      PROVE  Counters' /\ ClaimsPaid(p)' /\ AttemptsArePaidFor'
  BY <1>1, <1>4 DEF Counters, ClaimsPaid, AttemptsArePaidFor
<1>5. CASE Accept(p)
  <2>1. PICK m \in todo[p] : /\ delivered' = [delivered EXCEPT ![m] = @ + 1]
                             /\ HandOver(p, {m})
    BY <1>5 DEF Accept
  <2>2. UNCHANGED <<failures, faults>>
    BY <1>5 DEF Accept, history
  <2>3. BatchHeld(p)' /\ pc'[p] # "down" /\ todo'[p] = todo[p] \ {m}
    BY <1>3, <2>1, <2>2
  <2>4. m \in Accepted(p)' /\ Accepted(p) \subseteq Accepted(p)'
    BY <1>1, <2>2, <2>3 DEF Accepted, BatchHeld
  <2>5. CopiesPaid(p)' /\ DuplicatesArePaidFor'
    BY <1>1, <1>2, <2>1, <2>2, <2>4 DEF CopiesPaid, DuplicatesArePaidFor, Counters
  <2> QED
    BY <1>4, <2>2, <2>3, <2>5 DEF Paid
<1>6. CASE Refuse(p) \/ ConnectionLost(p)
  <2>1. PICK S \in SUBSET todo[p] : failures'[p] = failures[p] \cup S /\ HandOver(p, S)
    <3>1. CASE Refuse(p)
      BY <3>1 DEF Refuse
    <3>2. CASE ConnectionLost(p)
      BY <3>2 DEF ConnectionLost
    <3> QED
      BY <1>6, <3>1, <3>2
  <2>2. UNCHANGED <<delivered, faults>>
    BY <1>6 DEF Refuse, ConnectionLost, history
  <2>3. BatchHeld(p)' /\ pc'[p] # "down" /\ todo'[p] = todo[p] \ S
    BY <1>3, <2>1
  <2>4. Accepted(p)' = Accepted(p)
    BY <1>1, <2>1, <2>3 DEF Accepted, BatchHeld
  <2>5. CopiesPaid(p)' /\ DuplicatesArePaidFor'
    BY <1>1, <2>2, <2>4 DEF CopiesPaid, DuplicatesArePaidFor
  <2> QED
    BY <1>4, <2>2, <2>3, <2>5 DEF Paid
<1>7. CASE ReplyLost(p)
  <2>1. PICK m \in todo[p] : delivered' = [delivered EXCEPT ![m] = @ + 1]
    BY <1>7 DEF ReplyLost
  <2>2. /\ faults' = faults + 1 /\ failures'[p] = failures[p] \cup todo[p]
        /\ HandOver(p, todo[p])
    BY <1>7 DEF ReplyLost
  <2>3. BatchHeld(p)' /\ pc'[p] # "down"
    BY <1>3, <2>2
  <2>4. CopiesPaid(p)' /\ DuplicatesArePaidFor'
    BY <1>2, <2>1, <2>2 DEF CopiesPaid, DuplicatesArePaidFor, Counters
  <2> QED
    BY <1>4, <2>2, <2>3, <2>4 DEF Paid
<1> QED
  BY <1>5, <1>6, <1>7 DEF Send

LEMMA RecordPaid ==
  ASSUME SingleInv, NEW p \in Procs, Record(p) \/ RecordFails(p)
  PROVE  Paid(p)'
<1> USE LimitAssumption DEF SingleInv, Inv, RowTypes, TaskTypes
<1> PICK R \in SUBSET batch[p] : Records(p, R)
  BY RecordShape
<1>1. /\ pc[p] = "record" /\ Return(p)
      /\ UNCHANGED <<attempts, delivered, nextId>>
      /\ faults' = faults + 1 \/ (UNCHANGED faults /\ R = batch[p])
  BY DEF Records, Finish
<1>2. /\ pc' = [pc EXCEPT ![p] = "idle"]
      /\ batch'[p] = {} /\ todo'[p] = {} /\ failures'[p] = {}
  BY <1>1 DEF Return
<1>3. \A m \in Messages :
        \/ m \notin R /\ status'[m] = status[m]
        \/ m \in Accepted(p) /\ status'[m] = "sent"
        \/ m \in failures[p] /\ tries[p][m] >= MaxAttempts /\ status'[m] = "failed"
        \/ /\ m \in failures[p] /\ status'[m] = "queued"
           /\ ~(tries[p][m] >= MaxAttempts)
  <2>1. todo[p] = {} /\ \A m \in batch[p] : status[m] = "sending"
    BY <1>1 DEF BatchHeld
  <2> SUFFICES ASSUME NEW m \in Messages, m \in R
               PROVE  \/ m \in Accepted(p) /\ status'[m] = "sent"
                      \/ /\ m \in failures[p] /\ status'[m] = "failed"
                         /\ tries[p][m] >= MaxAttempts
                      \/ /\ m \in failures[p] /\ status'[m] = "queued"
                         /\ ~(tries[p][m] >= MaxAttempts)
    BY DEF Records, Finish, Sent
  <2> QED
    BY <2>1 DEF Records, Finish, Sent, GivesUp, Accepted
<1>4. \A m \in failures[p] : m \in batch[p] /\ tries[p][m] = attempts[m] /\ status[m] = "sending"
  BY DEF BatchHeld
<1>5. Counters' /\ faults \in Nat /\ faults' >= faults
  BY <1>1, <1>3, <1>4 DEF Counters, BatchHeld, Accepted
<1>6. BatchHeld(p)' /\ DuplicatesArePaidFor' /\ AttemptsArePaidFor'
  BY <1>1, <1>2, <1>5 DEF BatchHeld, DuplicatesArePaidFor, AttemptsArePaidFor
<1>7. CopiesPaid(p)'
  <2>1. CASE faults' = faults + 1
    BY <1>1, <1>5, <2>1 DEF CopiesPaid, DuplicatesArePaidFor
  <2>2. CASE UNCHANGED faults /\ R = batch[p]
    <3> SUFFICES ASSUME NEW m \in Messages, status'[m] \notin {"sent", "pruned"}
                 PROVE  delivered[m] <= faults
      BY <1>1, <2>2 DEF CopiesPaid
    <3>1. m \notin Accepted(p)
      BY <1>3, <2>2 DEF Accepted
    <3>2. status[m] \notin {"sent", "pruned"}
      BY <1>3, <1>4
    <3> QED
      BY <3>1, <3>2 DEF CopiesPaid
  <2> QED
    BY <1>1, <2>1, <2>2
<1>8. ClaimsPaid(p)'
  BY <1>1, <1>2, <1>3, <1>4, <1>5 DEF ClaimsPaid, Counters
<1> QED
  BY <1>5, <1>6, <1>7, <1>8 DEF Paid

LEMMA PrunePaid ==
  ASSUME SingleInv, NEW p \in Procs, Prune(p)
  PROVE  Paid(p)'
<1> USE LimitAssumption DEF SingleInv, Inv, RowTypes, TaskTypes
<1>1. PICK S \in SUBSET Finished :
         status' = [m \in Messages |-> IF m \in S THEN "pruned" ELSE status[m]]
  BY DEF Prune
<1>2. pc[p] = "idle" /\ UNCHANGED <<attempts, delivered, nextId, pc, batch, todo, failures, tries, faults>>
  BY DEF Prune, localVars, history
<1>3. Counters' /\ DuplicatesArePaidFor' /\ AttemptsArePaidFor'
  BY <1>1, <1>2 DEF Counters, DuplicatesArePaidFor, AttemptsArePaidFor, Finished
<1>4. BatchHeld(p)'
  BY <1>2 DEF BatchHeld
<1>5. CopiesPaid(p)' /\ ClaimsPaid(p)'
  BY <1>1, <1>2 DEF CopiesPaid, ClaimsPaid, Accepted, Finished
<1> QED
  BY <1>3, <1>4, <1>5 DEF Paid

\* The steps that are nobody's.
LEMMA OtherPaid ==
  ASSUME SingleInv, EnqueueEmail \/ Tick \/ UNCHANGED vars
  PROVE  /\ Counters' /\ DuplicatesArePaidFor' /\ AttemptsArePaidFor'
         /\ \A p \in Procs : BatchHeld(p)' /\ CopiesPaid(p)' /\ ClaimsPaid(p)'
<1> USE LimitAssumption DEF SingleInv, Inv, RowTypes, TaskTypes
<1>1. UNCHANGED <<attempts, delivered, pc, batch, todo, failures, tries, faults>>
  BY DEF EnqueueEmail, Tick, vars, rowVars, localVars, history
<1>2. CASE UNCHANGED <<status, nextId>>
  BY <1>1, <1>2 DEF Counters, DuplicatesArePaidFor, AttemptsArePaidFor, BatchHeld, CopiesPaid,
                    ClaimsPaid, Accepted
<1>3. CASE EnqueueEmail
  <2>1. /\ nextId \in Messages /\ nextId' = nextId + 1
        /\ status' = [status EXCEPT ![nextId] = "queued"]
    BY <1>3 DEF EnqueueEmail
  <2>2. status[nextId] = "absent" /\ attempts[nextId] = 0
    BY <2>1 DEF Counters
  <2>3. Counters' /\ DuplicatesArePaidFor' /\ AttemptsArePaidFor'
    BY <1>1, <2>1 DEF Counters, DuplicatesArePaidFor, AttemptsArePaidFor
  <2>4. \A p \in Procs : BatchHeld(p)'
    BY <1>1, <2>1, <2>2 DEF BatchHeld
  <2>5. \A p \in Procs : CopiesPaid(p)' /\ ClaimsPaid(p)'
    BY <1>1, <2>1, <2>2 DEF CopiesPaid, ClaimsPaid, Accepted, Counters
  <2> QED
    BY <2>3, <2>4, <2>5
<1> QED
  BY <1>2, <1>3 DEF Tick, vars, rowVars

LEMMA SingleStep ==
  ASSUME OneWorker, SingleInv, [Next]_vars
  PROVE  SingleInv'
<1>1. Inv'
  BY InvStep DEF SingleInv
<1>2. ASSUME NEW p \in Procs, Paid(p)' PROVE SingleInv'
  BY <1>1, <1>2 DEF OneWorker, Paid, SingleInv
<1>3. ASSUME NEW p \in Procs,
             \/ Start(p) \/ Crash(p) \/ Pass(p) \/ Prune(p)
             \/ PassFails(p) \/ RecordFails(p)
      PROVE  SingleInv'
  BY <1>2, <1>3, StartPaid, CrashPaid, ClaimPaid, BatchPaid, SendPaid, RecordPaid, PrunePaid
     DEF Pass
<1>4. CASE EnqueueEmail \/ Tick \/ UNCHANGED vars
  BY <1>1, <1>4, OtherPaid DEF SingleInv
<1> QED
  BY <1>3, <1>4 DEF Next

\* With one worker, a recipient gets one copy and one more for each kill, lost reply
\* or database error: what a pass has handed over it records, or is interrupted.
THEOREM DuplicatesArePaid ==
  ASSUME OneWorker
  PROVE  Spec => []DuplicatesArePaidFor
<1>1. SingleInv /\ [Next]_vars => SingleInv'
  BY SingleStep
<1>2. SingleInv => DuplicatesArePaidFor
  BY DEF SingleInv
<1> QED
  BY <1>1, <1>2, SingleInit, PTL DEF Spec

\* With one worker, a message is claimed at most EMAIL_MAX_ATTEMPTS times and once
\* more for each fault, since only a row whose worker was lost is recovered.
THEOREM AttemptsArePaid ==
  ASSUME OneWorker
  PROVE  Spec => []AttemptsArePaidFor
<1>1. SingleInv /\ [Next]_vars => SingleInv'
  BY SingleStep
<1>2. SingleInv => AttemptsArePaidFor
  BY DEF SingleInv
<1> QED
  BY <1>1, <1>2, SingleInit, PTL DEF Spec

-----------------------------------------------------------------------------
(* With one worker the queue implements Outbox. *)

\* What Outbox sees of a message with status s.
Seen(s) == CASE s \in {"queued", "sending"} -> "open"
             [] s = "absent" -> "none"
             [] s = "pruned" -> "forgotten"
             [] OTHER -> s

LEMMA OutcomeSeen ==
  /\ Outcome = [m \in Messages |-> Seen(status[m])]
  /\ Outcome' = [m \in Messages |-> Seen(status'[m])]
  BY DEF Outcome, Seen

LEMMA Unseen ==
  ASSUME UNCHANGED delivered, \A m \in Messages : Seen(status'[m]) = Seen(status[m])
  PROVE  UNCHANGED Promise!ovars
<1>1. Outcome' = Outcome
  BY OutcomeSeen
<1> QED
  BY <1>1 DEF Promise!ovars

LEMMA DeliverSeen ==
  ASSUME SingleInv, UNCHANGED status, NEW S \in SUBSET Messages,
         \A m \in S : status[m] = "sending",
         \/ \E m \in S : S = {m} /\ delivered' = [delivered EXCEPT ![m] = @ + 1]
         \/ delivered' = [m \in Messages |-> delivered[m] + IF m \in S THEN 1 ELSE 0]
  PROVE  Promise!Next
<1> USE DEF SingleInv, Inv, RowTypes
<1>1. UNCHANGED Outcome
  BY OutcomeSeen
<1>2. S \subseteq Promise!Open
  BY OutcomeSeen DEF Promise!Open, Seen
<1>3. delivered' = [m \in Messages |-> IF m \in S THEN delivered[m] + 1 ELSE delivered[m]]
  <2>1. ASSUME NEW m \in S, S = {m}, delivered' = [delivered EXCEPT ![m] = @ + 1]
        PROVE  delivered' = [n \in Messages |-> IF n \in S THEN delivered[n] + 1 ELSE delivered[n]]
    BY <2>1
  <2>2. CASE delivered' = [m \in Messages |-> delivered[m] + IF m \in S THEN 1 ELSE 0]
    BY <2>2
  <2> QED
    BY <2>1, <2>2
<1>4. Promise!Deliver(S)
  BY <1>1, <1>2, <1>3 DEF Promise!Deliver
<1> QED
  BY <1>4 DEF Promise!Next

LEMMA SendSeen ==
  ASSUME SingleInv, NEW p \in Procs, Send(p) \/ Crash(p)
  PROVE  [Promise!Next]_(Promise!ovars)
<1> USE DEF SingleInv, Inv, TaskTypes
<1>1. UNCHANGED status
  BY DEF Send, Accept, Refuse, ConnectionLost, ReplyLost, Crash, rowVars
<1>2. \A m \in todo[p] : m \in Messages /\ status[m] = "sending"
  BY DEF BatchHeld
<1>3. CASE Accept(p) \/ ReplyLost(p)
  <2>1. PICK m \in todo[p] : delivered' = [delivered EXCEPT ![m] = @ + 1]
    BY <1>3 DEF Accept, ReplyLost
  <2>2. {m} \in SUBSET Messages /\ \A n \in {m} : status[n] = "sending"
    BY <1>2
  <2> QED
    BY <1>1, <2>1, <2>2, DeliverSeen
<1>4. CASE Crash(p)
  <2>1. PICK got \in SUBSET todo[p] :
           delivered' = [m \in Messages |-> delivered[m] + IF m \in got THEN 1 ELSE 0]
    BY <1>4 DEF Crash
  <2>2. got \in SUBSET Messages /\ \A m \in got : status[m] = "sending"
    BY <1>2
  <2> QED
    BY <1>1, <2>1, <2>2, DeliverSeen
<1>5. CASE Refuse(p) \/ ConnectionLost(p)
  BY <1>1, <1>5, Unseen DEF Refuse, ConnectionLost
<1> QED
  BY <1>3, <1>4, <1>5 DEF Send

\* The outcomes are recorded of messages that are open, and of those that are sent a
\* copy was delivered.
LEMMA RecordSeen ==
  ASSUME SingleInv, NEW p \in Procs, Record(p) \/ RecordFails(p)
  PROVE  Promise!Next
<1> USE DEF SingleInv, Inv, RowTypes, TaskTypes
<1> PICK R \in SUBSET batch[p] : Records(p, R)
  BY RecordShape
<1> DEFINE sent == Sent(p) \cap R
           dead == {m \in failures[p] \cap R : GivesUp(p, m)}
<1>1. pc[p] = "record" /\ UNCHANGED delivered
  BY DEF Records
<1>2. /\ todo[p] = {} /\ failures[p] \subseteq batch[p]
      /\ \A m \in batch[p] : status[m] = "sending"
  BY <1>1 DEF BatchHeld
<1>3. \A m \in Messages :
        status'[m] = IF m \in sent THEN "sent" ELSE IF m \in dead THEN "failed"
                     ELSE IF m \in failures[p] \cap R THEN "queued" ELSE status[m]
  BY <1>2 DEF Records, Finish, Sent, GivesUp
<1>4. \A m \in sent : delivered[m] > 0
  BY <1>2 DEF Knows, Sent
<1>5. sent \in SUBSET Messages /\ dead \in SUBSET Messages
      /\ \A m \in sent \cup dead \cup failures[p] : status[m] = "sending"
  BY <1>2 DEF Sent
<1> HIDE DEF sent, dead
<1>6. Outcome' = [m \in Messages |-> IF m \in sent THEN "sent"
                                     ELSE IF m \in dead THEN "failed" ELSE Outcome[m]]
  BY <1>3, <1>5, OutcomeSeen DEF Seen
<1>7. sent \cup dead \subseteq Promise!Open
  BY <1>5, OutcomeSeen DEF Promise!Open, Seen
<1>8. Promise!Settle(sent, dead)
  BY <1>1, <1>4, <1>6, <1>7 DEF Promise!Settle
<1> QED
  BY <1>5, <1>8 DEF Promise!Next

\* Everything else posts a message, forgets some, or is not seen.
LEMMA RowsSeen ==
  ASSUME SingleInv,
         \/ \E p \in Procs : Start(p) \/ ClaimUpdate(p) \/ Prune(p)
         \/ EnqueueEmail
  PROVE  [Promise!Next]_(Promise!ovars)
<1> USE DEF SingleInv, Inv, RowTypes, TaskTypes
<1>1. ASSUME NEW p \in Procs, Start(p) PROVE UNCHANGED Promise!ovars
  BY <1>1, Unseen DEF Start, Lapsed, Seen
<1>2. ASSUME NEW p \in Procs, ClaimUpdate(p) PROVE UNCHANGED Promise!ovars
  BY <1>2, Unseen DEF ClaimUpdate, StillQueued, Seen
<1>3. ASSUME NEW p \in Procs, Prune(p) PROVE Promise!Next
  <2>1. PICK S \in SUBSET Finished :
           status' = [m \in Messages |-> IF m \in S THEN "pruned" ELSE status[m]]
    BY <1>3 DEF Prune
  <2>2. S \in SUBSET Messages /\ S \subseteq Promise!Recorded
    BY OutcomeSeen DEF Finished, Promise!Recorded, Seen
  <2>3. Outcome' = [m \in Messages |-> IF m \in S THEN "forgotten" ELSE Outcome[m]]
    BY <2>1, <2>2, OutcomeSeen DEF Seen
  <2>4. Promise!Forget(S)
    BY <1>3, <2>2, <2>3 DEF Promise!Forget, Prune
  <2> QED
    BY <2>2, <2>4 DEF Promise!Next
<1>4. CASE EnqueueEmail
  <2>1. /\ nextId \in Messages /\ status[nextId] = "absent"
        /\ status' = [status EXCEPT ![nextId] = "queued"] /\ UNCHANGED delivered
    BY <1>4 DEF EnqueueEmail, Counters
  <2>2. Outcome[nextId] = "none" /\ Outcome' = [Outcome EXCEPT ![nextId] = "open"]
    BY <2>1, OutcomeSeen DEF Seen
  <2>3. Promise!Post(nextId)
    BY <2>1, <2>2 DEF Promise!Post
  <2> QED
    BY <2>1, <2>3 DEF Promise!Next
<1> QED
  BY <1>1, <1>2, <1>3, <1>4

LEMMA StepSeen ==
  ASSUME SingleInv, [Next]_vars
  PROVE  [Promise!Next]_(Promise!ovars)
<1>1. ASSUME UNCHANGED <<status, delivered>> PROVE UNCHANGED Promise!ovars
  BY <1>1, Unseen
<1>2. ASSUME NEW p \in Procs, ClaimSelect(p) \/ ReadBatch(p) \/ BuildBatch(p) \/ BuildFails(p)
                              \/ PassFails(p)
      PROVE  UNCHANGED Promise!ovars
  BY <1>1, <1>2 DEF ClaimSelect, ReadBatch, BuildBatch, BuildFails, PassFails, rowVars
<1>3. CASE Tick \/ UNCHANGED vars
  BY <1>1, <1>3 DEF Tick, vars, rowVars
<1> QED
  BY <1>2, <1>3, SendSeen, RecordSeen, RowsSeen DEF Next, Pass

LEMMA OutboxInit == Init => Promise!Init
<1> SUFFICES ASSUME Init PROVE Promise!Init
  OBVIOUS
<1>1. Outcome = [m \in Messages |-> "none"]
  BY OutcomeSeen DEF Init, Seen
<1> QED
  BY <1>1 DEF Init, Promise!Init

\* With one worker, the rows and passes of the queue behave like the outbox: a
\* message is recorded as sent only when it was delivered, no copy of it is
\* delivered after its outcome is recorded, and an outcome is final.
THEOREM QueueImplementsOutbox ==
  ASSUME OneWorker
  PROVE  Spec => OutboxSpec
<1>1. SingleInv /\ [Next]_vars => SingleInv'
  BY SingleStep
<1>2. SingleInv /\ [Next]_vars => [Promise!Next]_(Promise!ovars)
  BY StepSeen
<1> QED
  BY <1>1, <1>2, SingleInit, OutboxInit, PTL DEF Spec, OutboxSpec, Promise!Spec


-----------------------------------------------------------------------------
(* The rest of the types.  That a power of two is a natural number is a premise   *)
(* here: the provers know nothing of exponents.                                   *)

FieldTypes ==
    /\ owner \in [Messages -> Procs \cup {Nobody}]
    /\ lease \in [Messages -> 0..Lease] /\ wait \in [Messages -> Nat]
    /\ nextId \in 1..(MaxMessages + 1)
    /\ faults \in 0..MaxFaults /\ stranded \in SUBSET Messages

\* A message that is being sent has been claimed, so that the exponent of its
\* backoff is never negative.
Counted ==
    /\ \A m \in Messages : status[m] = "sending" => attempts[m] >= 1
    /\ \A p \in Procs : \A m \in batch[p] : tries[p][m] >= 1

TypeInv == Inv /\ FieldTypes /\ Counted

LEMMA TypeInvInit == Init => TypeInv
  BY InvInit, LimitAssumption DEF Init, TypeInv, FieldTypes, Counted

\* A message is claimed as its status is set, and a batch is read from claimed rows.
LEMMA CountedStep ==
  ASSUME TypeInv, [Next]_vars PROVE Counted'
<1> USE DEF TypeInv, Inv, RowTypes, TaskTypes, Counted
<1>1. CASE UNCHANGED <<attempts, batch, tries>> /\
           \A m \in Messages : status'[m] = "sending" => status[m] = "sending"
  BY <1>1
<1>2. ASSUME NEW p \in Procs, Return(p), UNCHANGED attempts,
             \A m \in Messages : status'[m] = "sending" => status[m] = "sending"
      PROVE  Counted'
  BY <1>2 DEF Return
<1>3. CASE EnqueueEmail
  BY <1>1, <1>3 DEF EnqueueEmail, localVars
<1>4. ASSUME NEW p \in Procs, Start(p) PROVE Counted'
  BY <1>1, <1>4 DEF Start, localVars
<1>5. ASSUME NEW p \in Procs, Crash(p) PROVE Counted'
  BY <1>5 DEF Crash, rowVars
<1>6. ASSUME NEW p \in Procs, ClaimSelect(p) \/ BuildBatch(p) \/ Send(p) PROVE Counted'
  BY <1>1, <1>6 DEF ClaimSelect, BuildBatch, Send, Accept, Refuse, ConnectionLost, ReplyLost,
                    rowVars, localVars
<1>7. ASSUME NEW p \in Procs, ClaimUpdate(p) PROVE Counted'
  <2>1. \A m \in Messages : status'[m] = "sending" => attempts'[m] >= 1
    BY <1>7 DEF ClaimUpdate
  <2>2. \A q \in Procs : \A m \in batch'[q] : tries'[q][m] >= 1
    BY <1>7 DEF ClaimUpdate, Return, localVars
  <2> QED
    BY <2>1, <2>2
<1>8. ASSUME NEW p \in Procs, ReadBatch(p) PROVE Counted'
  <2>1. CASE Return(p)
    BY <1>2, <1>8, <2>1 DEF ReadBatch, rowVars
  <2>2. CASE ~Return(p)
    <3>1. PICK rows \in SUBSET Messages :
             /\ \A m \in rows : status[m] = "sending"
             /\ batch' = [batch EXCEPT ![p] = rows] /\ tries' = [tries EXCEPT ![p] = attempts]
      <4>1. {m \in ids[p] : status[m] = "sending"} \in SUBSET Messages
        OBVIOUS
      <4> QED
        BY <1>8, <2>2, <4>1 DEF ReadBatch
    <3>2. UNCHANGED <<status, attempts>>
      BY <1>8 DEF ReadBatch, rowVars
    <3> QED
      BY <3>1, <3>2
  <2> QED
    BY <2>1, <2>2
<1>9. ASSUME NEW p \in Procs, BuildFails(p) \/ PassFails(p) PROVE Counted'
  BY <1>2, <1>9 DEF BuildFails, PassFails, rowVars
<1>10. ASSUME NEW p \in Procs, Record(p) \/ RecordFails(p) PROVE Counted'
  <2> PICK R \in SUBSET batch[p] : Records(p, R)
    BY <1>10, RecordShape
  <2>1. \A m \in Messages : status'[m] = "sending" => status[m] = "sending"
    BY DEF Records, Finish
  <2> QED
    BY <1>2, <2>1 DEF Records, Finish
<1>11. CASE \E p \in Procs : Prune(p)
  BY <1>1, <1>11 DEF Prune, localVars
<1>12. CASE Tick \/ UNCHANGED vars
  BY <1>1, <1>12 DEF Tick, vars, rowVars, localVars
<1> QED
  BY <1>3, <1>4, <1>5, <1>6, <1>7, <1>8, <1>9, <1>10, <1>11, <1>12 DEF Next, Pass

LEMMA FieldStep ==
  ASSUME \A n \in Nat \ {0} : Backoff(n) \in Nat, TypeInv, [Next]_vars
  PROVE  FieldTypes'
<1> USE LimitAssumption DEF TypeInv, FieldTypes
<1>1. /\ 0 \in 0..Lease /\ Lease \in 0..Lease
      /\ \A n \in 0..Lease : n > 0 => n - 1 \in 0..Lease
      /\ faults < MaxFaults => faults + 1 \in 0..MaxFaults
  OBVIOUS
<1>2. \A p \in Procs : batch[p] \subseteq Messages /\ ids[p] \subseteq Messages
  BY DEF Inv, TaskTypes
<1>3. CASE UNCHANGED <<owner, lease, wait, nextId, faults, stranded>>
  BY <1>3
<1>4. CASE EnqueueEmail
  BY <1>4 DEF EnqueueEmail, history, Messages
<1>5. ASSUME NEW p \in Procs, Start(p) PROVE FieldTypes'
  BY <1>5 DEF Start, localVars
<1>6. ASSUME NEW p \in Procs, Crash(p) \/ PassFails(p) \/ ReplyLost(p) \/ BuildFails(p)
      PROVE  FieldTypes'
  BY <1>1, <1>2, <1>6 DEF Crash, PassFails, ReplyLost, BuildFails, rowVars
<1>7. ASSUME NEW p \in Procs, ClaimUpdate(p) PROVE FieldTypes'
  BY <1>1, <1>7 DEF ClaimUpdate, history
<1>8. ASSUME NEW p \in Procs, Record(p) \/ RecordFails(p) PROVE FieldTypes'
  <2> PICK R \in SUBSET batch[p] : Records(p, R)
    BY <1>8, RecordShape
  <2>1. \A m \in batch[p] : Backoff(tries[p][m]) \in Nat
    BY <1>2 DEF Counted, Inv, TaskTypes
  <2>2. wait' \in [Messages -> Nat]
    BY <2>1 DEF Records, Finish
  <2>3. owner' \in [Messages -> Procs \cup {Nobody}] /\ lease' \in [Messages -> 0..Lease]
    BY <1>1 DEF Records, Finish
  <2>4. UNCHANGED nextId
    BY DEF Records, Finish
  <2>5. faults' \in 0..MaxFaults /\ stranded' \in SUBSET Messages
    BY <1>1, <1>2, <1>8 DEF Record, RecordFails, history
  <2> QED
    BY <2>2, <2>3, <2>4, <2>5
<1>9. CASE Tick
  BY <1>1, <1>9 DEF Tick, history
<1>10. ASSUME NEW p \in Procs,
              ClaimSelect(p) \/ ReadBatch(p) \/ BuildBatch(p) \/ Prune(p)
              \/ Accept(p) \/ Refuse(p) \/ ConnectionLost(p)
       PROVE  FieldTypes'
  BY <1>3, <1>10 DEF ClaimSelect, ReadBatch, BuildBatch, Prune, Accept, Refuse, ConnectionLost,
                     rowVars, history
<1>11. CASE UNCHANGED vars
  BY <1>3, <1>11 DEF vars, rowVars, history
<1> QED
  BY <1>4, <1>5, <1>6, <1>7, <1>8, <1>9, <1>10, <1>11 DEF Next, Pass, Send

\* Every variable of the queue keeps its type, for any number of workers; in
\* particular the delay before a retry is never computed from fewer than one attempt.
THEOREM TypeCorrect ==
  ASSUME \A n \in Nat \ {0} : Backoff(n) \in Nat
  PROVE  Spec => []TypeOK
<1>1. TypeInv /\ [Next]_vars => TypeInv'
  BY InvStep, CountedStep, FieldStep DEF TypeInv
<1>2. TypeInv => TypeOK
  BY DEF TypeInv, Inv, RowTypes, TaskTypes, FieldTypes, TypeOK
<1> QED
  BY <1>1, <1>2, TypeInvInit, PTL DEF Spec
=============================================================================
