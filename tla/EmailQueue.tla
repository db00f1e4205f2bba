----------------------------- MODULE EmailQueue -----------------------------
(***************************************************************************)
(* The outbound mail queue of app/notifications.py and the SMTP batch of   *)
(* app/mail.py.                                                            *)
(*                                                                         *)
(* One worker task per process claims a batch of due messages, hands it to *)
(* the mail server over one connection and records what became of each     *)
(* message.  A step is one statement outside a transaction, one whole      *)
(* transaction, or the hand-over of one message.  Unlike a transcode, a    *)
(* batch renews no lease, and no write but the claim asks who owns the row.*)
(*                                                                         *)
(* Time is a countdown: wait[m] is how long message m is still put off     *)
(* (0: due), lease[m] what is left of the lease on it (0: lapsed or NULL). *)
(***************************************************************************)
EXTENDS Integers, FiniteSets

CONSTANTS
    Procs,         \* processes that run the email worker
    Nobody,        \* worker_id IS NULL
    MaxMessages,   \* bound: rows of email_queue
    Bulk,          \* the messages whose kind is 'new_video'
    Unbuildable,   \* messages EmailMessage refuses, such as a subject of two lines
    BatchSize,     \* EMAIL_BATCH_SIZE
    MaxAttempts,   \* EMAIL_MAX_ATTEMPTS
    RetryDelay,    \* EMAIL_RETRY_MINUTES, in ticks
    Lease,         \* EMAIL_LEASE_SECONDS, in ticks
    QuickRestart,  \* TRUE: a process may restart before old leases lapse
    DbErrors,      \* TRUE: the database may raise in the middle of a pass
    MaxFaults      \* bound: kills, database errors and lost SMTP replies

Messages == 1..MaxMessages

ASSUME ProcAssumption == Nobody \notin Procs
ASSUME LimitAssumption ==
    /\ MaxMessages \in Nat /\ MaxFaults \in Nat
    /\ Bulk \subseteq Messages /\ Unbuildable \subseteq Messages
    /\ BatchSize \in Nat \ {0} /\ MaxAttempts \in Nat \ {0}
    /\ RetryDelay \in Nat \ {0} /\ Lease \in Nat \ {0}
ASSUME SwitchAssumption == {QuickRestart, DbErrors} \subseteq BOOLEAN

VARIABLES
    \* the table email_queue
    status, attempts, owner, lease, wait, nextId,
    \* how many times the mail server accepted a message
    delivered,
    \* the worker of each process: the ids it selected, the rows it read back
    \* with their attempts, those still to hand over, and the failures
    pc, ids, batch, tries, todo, failures,
    \* history: the faults so far; the messages that were left 'sending' with no
    \* worker at work on them, when a process started within the lease, the
    \* database raised or a message could not be built
    faults, stranded

rowVars == <<status, attempts, owner, lease, wait, nextId>>
localVars == <<ids, batch, tries, todo, failures>>
history == <<faults, stranded>>
vars == <<rowVars, delivered, pc, localVars, history>>

-----------------------------------------------------------------------------
Status == {"absent", "queued", "sending", "sent", "failed", "pruned"}
Pcs == {"down", "idle", "picked", "claimed", "build", "sending", "record"}

Due == {m \in Messages : status[m] = "queued" /\ wait[m] = 0}
Finished == {m \in Messages : status[m] \in {"sent", "failed"}}

\* ORDER BY CASE WHEN kind = 'new_video' THEN 1 ELSE 0 END, id
Before(m, n) == IF m \in Bulk <=> n \in Bulk THEN m < n ELSE n \in Bulk

\* Mutant: the exponent is off and grows by addition.
BackoffShifted(n) == RetryDelay * (n - 2)

\* EMAIL_RETRY_MINUTES * 2 ** (attempts - 1)
Backoff(n) == RetryDelay * 2^(n - 1)

\* Back to the top of _worker_loop().
Return(p) ==
    /\ pc' = [pc EXCEPT ![p] = "idle"]
    /\ ids' = [ids EXCEPT ![p] = {}]
    /\ batch' = [batch EXCEPT ![p] = {}]
    /\ tries' = [tries EXCEPT ![p] = [m \in Messages |-> 0]]
    /\ todo' = [todo EXCEPT ![p] = {}]
    /\ failures' = [failures EXCEPT ![p] = {}]

Init ==
    /\ status = [m \in Messages |-> "absent"]
    /\ attempts = [m \in Messages |-> 0]
    /\ owner = [m \in Messages |-> Nobody]
    /\ lease = [m \in Messages |-> 0]
    /\ wait = [m \in Messages |-> 0]
    /\ nextId = 1
    /\ delivered = [m \in Messages |-> 0]
    /\ pc = [p \in Procs |-> "down"]
    /\ ids = [p \in Procs |-> {}]
    /\ batch = [p \in Procs |-> {}]
    /\ tries = [p \in Procs |-> [m \in Messages |-> 0]]
    /\ todo = [p \in Procs |-> {}]
    /\ failures = [p \in Procs |-> {}]
    /\ faults = 0 /\ stranded = {}

-----------------------------------------------------------------------------
\* enqueue_email(), by a request or a fan-out: due at once.
EnqueueEmail ==
    /\ nextId \in Messages
    /\ status' = [status EXCEPT ![nextId] = "queued"]
    /\ nextId' = nextId + 1
    /\ UNCHANGED <<attempts, owner, lease, wait, delivered, pc, localVars, history>>

\* Mutants: recovery goes by the lease alone, or never finds a lapsed one.
LapsedAnyStatus == {m \in Messages : status[m] \in {"sending", "sent"} /\ lease[m] = 0}
LapsedNone == {}

Lapsed == {m \in Messages : status[m] = "sending" /\ lease[m] = 0}

\* start_workers(): requeue_orphans(), then the worker.
Start(p) ==
    /\ pc[p] = "down"
    /\ QuickRestart \/ \A m \in Messages : status[m] = "sending" => lease[m] = 0
    /\ status' = [m \in Messages |-> IF m \in Lapsed THEN "queued" ELSE status[m]]
    /\ owner' = [m \in Messages |-> IF m \in Lapsed THEN Nobody ELSE owner[m]]
    /\ stranded' = stranded \cup {m \in Messages : status[m] = "sending" /\ lease[m] > 0}
    /\ pc' = [pc EXCEPT ![p] = "idle"]
    /\ UNCHANGED <<attempts, lease, wait, nextId, delivered, localVars, faults>>

\* A kill, or stop_workers().  The thread that talks to the mail server cannot
\* be cancelled and may still hand over some of the rest.
Crash(p) ==
    /\ pc[p] # "down" /\ faults < MaxFaults
    /\ pc' = [pc EXCEPT ![p] = "down"]
    /\ ids' = [ids EXCEPT ![p] = {}]
    /\ batch' = [batch EXCEPT ![p] = {}]
    /\ tries' = [tries EXCEPT ![p] = [m \in Messages |-> 0]]
    /\ todo' = [todo EXCEPT ![p] = {}]
    /\ failures' = [failures EXCEPT ![p] = {}]
    /\ \E got \in SUBSET todo[p] :
         delivered' = [m \in Messages |-> delivered[m] + IF m \in got THEN 1 ELSE 0]
    /\ faults' = faults + 1
    /\ UNCHANGED <<rowVars, stranded>>

-----------------------------------------------------------------------------
(* _claim_batch() *)

\* The SELECT: the first BatchSize due messages.
ClaimSelect(p) ==
    /\ pc[p] = "idle"
    /\ \E S \in SUBSET Due :
        /\ S # {} /\ Cardinality(S) <= BatchSize
        /\ S = Due \/ Cardinality(S) = BatchSize
        /\ \A m \in S, n \in Due \ S : Before(m, n)
        /\ ids' = [ids EXCEPT ![p] = S]
    /\ pc' = [pc EXCEPT ![p] = "picked"]
    /\ UNCHANGED <<rowVars, delivered, batch, tries, todo, failures, history>>

\* The rows the conditional UPDATE takes.
StillQueued(p) == {m \in ids[p] : status[m] = "queued"}

ClaimUpdate(p) ==
    LET won == StillQueued(p) IN
    /\ pc[p] = "picked"
    /\ status' = [m \in Messages |-> IF m \in won THEN "sending" ELSE status[m]]
    /\ attempts' = [m \in Messages |->
            attempts[m] + IF m \in won THEN 1 ELSE 0]
    /\ owner' = [m \in Messages |-> IF m \in won THEN p ELSE owner[m]]
    /\ lease' = [m \in Messages |-> IF m \in won THEN Lease ELSE lease[m]]
    /\ IF won # {} THEN pc' = [pc EXCEPT ![p] = "claimed"] /\ UNCHANGED localVars
                   ELSE Return(p)
    /\ UNCHANGED <<wait, nextId, delivered, history>>

\* The last SELECT: every selected row that is 'sending', whoever claimed it.
ReadBatch(p) ==
    LET rows == {m \in ids[p] : status[m] = "sending"} IN
    /\ pc[p] = "claimed"
    /\ IF rows = {}
         THEN Return(p)
         ELSE /\ batch' = [batch EXCEPT ![p] = rows]
              /\ todo' = [todo EXCEPT ![p] = rows]
              /\ tries' = [tries EXCEPT ![p] = attempts]
              /\ pc' = [pc EXCEPT ![p] = "build"]
              /\ UNCHANGED <<ids, failures>>
    /\ UNCHANGED <<rowVars, delivered, history>>

-----------------------------------------------------------------------------
(* _send_batch(), mail.send_batch() and mail._send_batch_sync() *)

\* Every message is built before the first is handed over.
BuildBatch(p) ==
    /\ pc[p] = "build" /\ batch[p] \cap Unbuildable = {}
    /\ pc' = [pc EXCEPT ![p] = "sending"]
    /\ UNCHANGED <<rowVars, delivered, localVars, history>>

\* One that cannot be built raises; the loop logs it and goes on, and all the
\* rows of the batch stay 'sending'.
BuildFails(p) ==
    /\ pc[p] = "build" /\ batch[p] \cap Unbuildable # {}
    /\ Return(p)
    /\ stranded' = stranded \cup batch[p]
    /\ UNCHANGED <<rowVars, delivered, faults>>

\* The next message of the batch, in the order of the ids.
NextUp(p, m) == m \in todo[p] /\ \A n \in todo[p] : m <= n

\* What is left to do once the messages in S are dealt with.
HandOver(p, S) ==
    /\ todo' = [todo EXCEPT ![p] = @ \ S]
    /\ pc' = [pc EXCEPT ![p] = IF todo[p] \subseteq S THEN "record" ELSE "sending"]

Accept(p) ==
    /\ pc[p] = "sending"
    /\ \E m \in todo[p] :
        /\ NextUp(p, m)
        /\ delivered' = [delivered EXCEPT ![m] = @ + 1]
        /\ HandOver(p, {m})
    /\ UNCHANGED <<rowVars, ids, batch, tries, failures, history>>

\* The server refuses the recipient, the sender or the data.
Refuse(p) ==
    /\ pc[p] = "sending"
    /\ \E m \in todo[p] :
        /\ NextUp(p, m)
        /\ failures' = [failures EXCEPT ![p] = @ \cup {m}]
        /\ HandOver(p, {m})
    /\ UNCHANGED <<rowVars, delivered, ids, batch, tries, history>>

\* No connection, or it breaks: this message and all that follow have failed.
ConnectionLost(p) ==
    /\ pc[p] = "sending"
    /\ failures' = [failures EXCEPT ![p] = @ \cup todo[p]]
    /\ HandOver(p, todo[p])
    /\ UNCHANGED <<rowVars, delivered, ids, batch, tries, history>>

\* It breaks after the server took the message and before its answer came.
ReplyLost(p) ==
    /\ faults < MaxFaults
    /\ \E m \in todo[p] :
        NextUp(p, m) /\ delivered' = [delivered EXCEPT ![m] = @ + 1]
    /\ pc[p] = "sending"
    /\ failures' = [failures EXCEPT ![p] = @ \cup todo[p]]
    /\ HandOver(p, todo[p])
    /\ faults' = faults + 1
    /\ UNCHANGED <<rowVars, ids, batch, tries, stranded>>

\* Mutants: a failed message is taken as sent; only all of them or none are; a
\* message is given up one attempt early, or never.
AllSent(p) == batch[p]
AllOrNone(p) == IF failures[p] = {} THEN batch[p] ELSE {}
GivesUpEarly(p, m) == m \in failures[p] /\ tries[p][m] + 1 >= MaxAttempts
NeverGivesUp(p, m) == FALSE

\* _finish(): the three outcomes of a message.
Sent(p) == batch[p] \ failures[p]
GivesUp(p, m) == m \in failures[p] /\ tries[p][m] >= MaxAttempts

\* _finish() of the messages in R.  WHERE id = ?, so a row that is gone is not
\* brought back but one that another worker has taken is overwritten.
Finish(p, R) ==
    LET rows == {m \in R : status[m] # "pruned"}
        sent == Sent(p) \cap rows
        dead == {m \in rows \ sent : GivesUp(p, m)}
        again == rows \ (sent \cup dead) IN
    /\ status' = [m \in Messages |-> CASE m \in sent -> "sent"
                                       [] m \in dead -> "failed"
                                       [] m \in again -> "queued"
                                       [] OTHER -> status[m]]
    /\ wait' = [m \in Messages |-> IF m \in again THEN Backoff(tries[p][m]) ELSE wait[m]]
    /\ owner' = [m \in Messages |-> IF m \in again THEN Nobody ELSE owner[m]]
    /\ lease' = [m \in Messages |-> IF m \in rows THEN 0 ELSE lease[m]]
    /\ UNCHANGED <<attempts, nextId>>

\* One transaction for the whole batch.
Record(p) ==
    /\ pc[p] = "record"
    /\ Finish(p, batch[p])
    /\ Return(p)
    /\ UNCHANGED <<delivered, history>>

\* The database raises before the mail is handed over: the loop logs it and
\* goes on, and the rows that were claimed stay 'sending'.
PassFails(p) ==
    /\ DbErrors /\ faults < MaxFaults
    /\ pc[p] \in {"picked", "claimed", "build"}
    /\ faults' = faults + 1
    /\ stranded' = stranded \cup {m \in ids[p] : status[m] = "sending"}
    /\ Return(p)
    /\ UNCHANGED <<rowVars, delivered>>

\* It raises while the outcomes are written, in the order of the ids.  Nothing
\* rolls back those written so far: the connection's next commit keeps them,
\* and before it nobody acts on them.
RecordFails(p) ==
    /\ DbErrors /\ faults < MaxFaults
    /\ pc[p] = "record"
    /\ \E R \in SUBSET batch[p] :
        /\ \A m \in R, n \in batch[p] \ R : m < n
        /\ Finish(p, R)
    /\ faults' = faults + 1
    /\ stranded' = stranded \cup {m \in ids[p] : status'[m] = "sending"}
    /\ Return(p)
    /\ UNCHANGED delivered

\* prune(), between two batches: some of the finished rows are old enough.
Prune(p) ==
    /\ pc[p] = "idle"
    /\ \E S \in SUBSET Finished \ {{}} :
        status' = [m \in Messages |-> IF m \in S THEN "pruned" ELSE status[m]]
    /\ UNCHANGED <<attempts, owner, lease, wait, nextId, delivered, pc, localVars,
                   history>>

\* The wall clock.
Tick ==
    /\ \E m \in Messages : lease[m] > 0 \/ wait[m] > 0
    /\ lease' = [m \in Messages |-> IF lease[m] > 0 THEN lease[m] - 1 ELSE 0]
    /\ wait' = [m \in Messages |-> IF wait[m] > 0 THEN wait[m] - 1 ELSE 0]
    /\ UNCHANGED <<status, attempts, owner, nextId, delivered, pc, localVars, history>>

-----------------------------------------------------------------------------
Send(p) == Accept(p) \/ Refuse(p) \/ ConnectionLost(p) \/ ReplyLost(p)
Pass(p) ==
    \/ ClaimSelect(p) \/ ClaimUpdate(p) \/ ReadBatch(p)
    \/ BuildBatch(p) \/ BuildFails(p) \/ Send(p) \/ Record(p)

Next ==
    \/ EnqueueEmail
    \/ \E p \in Procs : Start(p) \/ Crash(p) \/ Pass(p) \/ Prune(p)
    \/ \E p \in Procs : PassFails(p) \/ RecordFails(p)
    \/ Tick

Spec == Init /\ [][Next]_vars

\* A worker that can go on does, a stopped process is started again, time passes.
Fairness == /\ \A p \in Procs : WF_vars(Pass(p)) /\ WF_vars(Start(p))
            /\ WF_vars(Tick)
FairSpec == Spec /\ Fairness

-----------------------------------------------------------------------------
\* Every variable stays within its domain.
TypeOK ==
    /\ status \in [Messages -> Status]
    /\ attempts \in [Messages -> Nat] /\ delivered \in [Messages -> Nat]
    /\ owner \in [Messages -> Procs \cup {Nobody}]
    /\ lease \in [Messages -> 0..Lease] /\ wait \in [Messages -> Nat]
    /\ nextId \in 1..(MaxMessages + 1)
    /\ pc \in [Procs -> Pcs]
    /\ ids \in [Procs -> SUBSET Messages] /\ batch \in [Procs -> SUBSET Messages]
    /\ todo \in [Procs -> SUBSET Messages] /\ failures \in [Procs -> SUBSET Messages]
    /\ tries \in [Procs -> [Messages -> Nat]]
    /\ faults \in 0..MaxFaults /\ stranded \in SUBSET Messages

\* A message shown as sent has been accepted by the mail server at least once,
\* whatever was interrupted, refused or lost on the way.
SentWasDelivered == \A m \in Messages : status[m] = "sent" => delivered[m] > 0

\* A message is given up only after EMAIL_MAX_ATTEMPTS claims, never for one
\* refusal or one broken connection.
FailedAfterAllAttempts ==
    \A m \in Messages : status[m] = "failed" => attempts[m] >= MaxAttempts

\* With one worker, a recipient gets a message twice only if something was
\* interrupted between its acceptance and its record.
DuplicatesArePaidFor == \A m \in Messages : delivered[m] <= 1 + faults

\* With one worker, only an interrupted attempt goes beyond EMAIL_MAX_ATTEMPTS.
AttemptsArePaidFor == \A m \in Messages : attempts[m] <= MaxAttempts + faults

\* The promise of Outbox, read off the rows and the deliveries.
Outcome == [m \in Messages |-> CASE status[m] \in {"queued", "sending"} -> "open"
                                 [] status[m] = "absent" -> "none"
                                 [] status[m] = "pruned" -> "forgotten"
                                 [] OTHER -> status[m]]
Promise == INSTANCE Outbox WITH outcome <- Outcome, copies <- delivered

\* With one worker, the queue keeps that promise: a message is recorded as sent
\* only when it was delivered, is never delivered again then, and an outcome
\* is final, whatever was interrupted, refused or lost.
OutboxSpec == Promise!Spec

\* No recipient gets a message twice from workers that are not interrupted.
DeliveredOnce == \A m \in Messages : delivered[m] <= 1

\* Every message that is queued or being sent is at last sent or given up, with kills
\* and lost replies on the way, unless it was stranded.
MessageResolves ==
    \A m \in Messages : status[m] \in {"queued", "sending"} ~>
                            status[m] \in {"sent", "failed", "pruned"} \/ m \in stranded
=============================================================================
