------------------------------ MODULE JobBoard ------------------------------
(***************************************************************************)
(* What the transcode queue promises about each job, with no rows, leases  *)
(* or clocks: a job waits, is held by exactly one worker that is known to  *)
(* be alive, and is given up only by that worker, by the worker's death or *)
(* by the deletion of the job.  A job lost with its worker may be put back *)
(* to wait; an outcome is final.                                           *)
(***************************************************************************)
CONSTANTS JobIds, Workers, Nobody

VARIABLES state, holder

bvars == <<state, holder>>

States == {"absent", "queued", "held", "lost", "done", "failed", "gone"}

BoardTypeOK == /\ state \in [JobIds -> States]
               /\ holder \in [JobIds -> Workers \cup {Nobody}]

Init == /\ state = [j \in JobIds |-> "absent"]
        /\ holder = [j \in JobIds |-> Nobody]

\* Some new jobs appear and some lost ones wait again.
Post(new, back) ==
    /\ \A j \in new : state[j] = "absent"
    /\ \A j \in back : state[j] = "lost"
    /\ state' = [j \in JobIds |-> IF j \in new \cup back THEN "queued" ELSE state[j]]
    /\ UNCHANGED holder

Take(w, j) ==
    /\ state[j] = "queued"
    /\ \A k \in JobIds : holder[k] # w
    /\ state' = [state EXCEPT ![j] = "held"]
    /\ holder' = [holder EXCEPT ![j] = w]

Release(w, j, outcome) ==
    /\ state[j] = "held" /\ holder[j] = w
    /\ state' = [state EXCEPT ![j] = outcome]
    /\ holder' = [holder EXCEPT ![j] = Nobody]

\* Some workers die; what they held is lost.
Lose(W) ==
    /\ state' = [j \in JobIds |-> IF holder[j] \in W THEN "lost" ELSE state[j]]
    /\ holder' = [j \in JobIds |-> IF holder[j] \in W THEN Nobody ELSE holder[j]]

\* Jobs are deleted with their video, whoever holds them.
Remove(old) ==
    /\ \A j \in old : state[j] # "absent"
    /\ state' = [j \in JobIds |-> IF j \in old THEN "gone" ELSE state[j]]
    /\ holder' = [j \in JobIds |-> IF j \in old THEN Nobody ELSE holder[j]]

Next ==
    \/ \E new, back \in SUBSET JobIds : Post(new, back)
    \/ \E w \in Workers, j \in JobIds : Take(w, j)
    \/ \E w \in Workers, j \in JobIds :
          \E outcome \in {"queued", "done", "failed"} : Release(w, j, outcome)
    \/ \E W \in SUBSET Workers : Lose(W)
    \/ \E old \in SUBSET JobIds : Remove(old)

Spec == Init /\ [][Next]_bvars
=============================================================================
