------------------------------- MODULE Outbox -------------------------------
(***************************************************************************)
(* What the mail queue promises about each message, with no rows, batches, *)
(* leases or faults: it is open until it is recorded as sent or as failed, *)
(* sent only once a copy was delivered, and no copy is delivered after     *)
(* that.  A recorded message may be forgotten.                             *)
(***************************************************************************)
EXTENDS Naturals

CONSTANT Messages

VARIABLES outcome, copies

ovars == <<outcome, copies>>

Outcomes == {"none", "open", "sent", "failed", "forgotten"}
Open == {m \in Messages : outcome[m] = "open"}
Recorded == {m \in Messages : outcome[m] \in {"sent", "failed"}}

Init == /\ outcome = [m \in Messages |-> "none"]
        /\ copies = [m \in Messages |-> 0]

Post(m) ==
    /\ outcome[m] = "none"
    /\ outcome' = [outcome EXCEPT ![m] = "open"]
    /\ UNCHANGED copies

\* A copy of each of some open messages reaches the mail server.
Deliver(S) ==
    /\ S \subseteq Open
    /\ copies' = [m \in Messages |-> IF m \in S THEN copies[m] + 1 ELSE copies[m]]
    /\ UNCHANGED outcome

Settle(sent, dead) ==
    /\ sent \cup dead \subseteq Open
    /\ \A m \in sent : copies[m] > 0
    /\ outcome' = [m \in Messages |-> IF m \in sent THEN "sent"
                                      ELSE IF m \in dead THEN "failed" ELSE outcome[m]]
    /\ UNCHANGED copies

Forget(S) ==
    /\ S \subseteq Recorded
    /\ outcome' = [m \in Messages |-> IF m \in S THEN "forgotten" ELSE outcome[m]]
    /\ UNCHANGED copies

Next ==
    \/ \E m \in Messages : Post(m)
    \/ \E S \in SUBSET Messages : Deliver(S) \/ Forget(S)
    \/ \E sent, dead \in SUBSET Messages : Settle(sent, dead)

Spec == Init /\ [][Next]_ovars
=============================================================================
