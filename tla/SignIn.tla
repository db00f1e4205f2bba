-------------------------------- MODULE SignIn --------------------------------
(***************************************************************************)
(* Signing in to one account: login_post() with the throttle of            *)
(* app/ratelimit.py, passkeys, sessions, and the four ways a password is   *)
(* replaced (app/auth.py, app/users.py, app/admin.py).                     *)
(*                                                                         *)
(* A login reads the lock and the failures of its address before the slow  *)
(* check of the password, and writes in up to three transactions after it. *)
(* A step is one SELECT or one transaction.  Only the key of the address   *)
(* is modelled, not that of the source IP, which is counted alike.         *)
(***************************************************************************)
EXTENDS Integers, FiniteSets

CONSTANTS
    Logins,        \* browsers that sign in, one request each at a time
    WithPasskey,   \* those that have a passkey of the account
    Resets,        \* requests to /auth/reset, one link each at a time
    MaxFailures,   \* LOGIN_MAX_FAILURES_PER_EMAIL
    Lockout,       \* LOCKOUT_MINUTES, in ticks
    MaxLinks,      \* bound: reset links
    MaxPasswords   \* bound: replacements of the password

ASSUME LoginAssumption == IsFiniteSet(Logins) /\ WithPasskey \subseteq Logins
ASSUME LimitAssumption ==
    /\ MaxFailures \in Nat \ {0} /\ Lockout \in Nat \ {0}
    /\ MaxLinks \in Nat /\ MaxPasswords \in Nat

Links == 1..MaxLinks

VARIABLES
    \* users.password_hash: how often it was replaced; users.locked_until: ticks left
    password, locked,
    \* login_attempts: the failures since the last tick, and in the tick before
    recent, older,
    \* logins: where they are; the password they proved, or that their passkey's
    \* challenge is as old as
    lPc, proved,
    \* the rows of sessions: of browsers that are signed in, and challenges
    sessions, challenged,
    link,          \* password_resets: absent, open, used or run out
    rPc, rLink,    \* resets: where they are, and their link
    changing,      \* the browsers whose password change has passed its checks
    \* history: the password of the last reset by link, and the logins that had
    \* proved an older one when it was set
    resetTo, overtaken,
    slow           \* the logins that were at work when the tick began

account == <<password, locked>>
attempts == <<recent, older>>
logins == <<lPc, proved>>
tokens == <<sessions, challenged>>
resets == <<rPc, rLink>>
history == <<resetTo, overtaken>>
vars == <<account, attempts, logins, tokens, link, resets, changing, history, slow>>

Init ==
    /\ password = 0 /\ locked = 0
    /\ recent = 0 /\ older = 0
    /\ lPc = [l \in Logins |-> "new"] /\ proved = [l \in Logins |-> 0]
    /\ sessions = {} /\ challenged = {}
    /\ link = [k \in Links |-> "absent"]
    /\ rPc = [r \in Resets |-> "new"] /\ rLink = [r \in Resets |-> 0]
    /\ changing = {}
    /\ resetTo = 0 /\ overtaken = {}
    /\ slow = {}

\* _failure_count(): the window holds this tick and the one before.
Failures == recent + older

-----------------------------------------------------------------------------
(* login_post() *)

Goto(l, where) == lPc' = [lPc EXCEPT ![l] = where]

\* Mutant: refused attempts count as failures.
RefuseAndCount(l) ==
    /\ Goto(l, "new")
    /\ recent' = IF Failures < MaxFailures + Cardinality(Logins) THEN recent + 1 ELSE recent
    /\ UNCHANGED older

\* The answer 429: the attempt is logged, not counted.
Refuse(l) == Goto(l, "new") /\ UNCHANGED attempts

\* retry_after_minutes(): the lock ...
CheckLock(l) ==
    /\ lPc[l] = "new" /\ l \notin sessions
    /\ IF locked > 0 THEN Refuse(l) ELSE Goto(l, "count") /\ UNCHANGED attempts
    /\ UNCHANGED <<account, proved, tokens, link, resets, changing, history>>

\* Mutant: the limit itself still passes.
CountOneMore(l) ==
    /\ lPc[l] = "count"
    /\ IF Failures > MaxFailures THEN Refuse(l) ELSE Goto(l, "verify") /\ UNCHANGED attempts
    /\ UNCHANGED <<account, proved, tokens, link, resets, changing, history>>

\* ... and the failures within the window.
CountFailures(l) ==
    /\ lPc[l] = "count"
    /\ IF Failures >= MaxFailures THEN Refuse(l) ELSE Goto(l, "verify") /\ UNCHANGED attempts
    /\ UNCHANGED <<account, proved, tokens, link, resets, changing, history>>

\* _get_user_by_email() and verify_password(): the password and the code are right
\* for the row that was read, or one of them is wrong.
Verify(l) ==
    /\ lPc[l] = "verify"
    /\ \/ Goto(l, "clear") /\ proved' = [proved EXCEPT ![l] = password]
       \/ Goto(l, "record") /\ UNCHANGED proved
    /\ overtaken' = overtaken \ {l}
    /\ UNCHANGED <<account, attempts, tokens, link, resets, changing, resetTo>>

RecordFailure(l) ==
    /\ lPc[l] = "record"
    /\ Goto(l, "lockCheck")
    /\ recent' = recent + 1
    /\ UNCHANGED <<account, older, proved, tokens, link, resets, changing, history>>

\* apply_lockout(): the count ...
LockCheck(l) ==
    /\ lPc[l] = "lockCheck"
    /\ Goto(l, IF Failures >= MaxFailures THEN "lock" ELSE "new")
    /\ UNCHANGED <<account, attempts, proved, tokens, link, resets, changing, history>>

\* ... and the lock.
ApplyLockout(l) ==
    /\ lPc[l] = "lock"
    /\ Goto(l, "new")
    /\ locked' = Lockout
    /\ UNCHANGED <<password, attempts, proved, tokens, link, resets, changing, history>>

ClearFailures(l) ==
    /\ lPc[l] = "clear"
    /\ Goto(l, "unlock")
    /\ recent' = 0 /\ older' = 0
    /\ UNCHANGED <<account, proved, tokens, link, resets, changing, history>>

\* unlock(); prune() then drops rows that no longer count.
Unlock(l) ==
    /\ lPc[l] = "unlock"
    /\ Goto(l, "session")
    /\ locked' = 0
    /\ UNCHANGED <<password, attempts, proved, tokens, link, resets, changing, history>>

CreateSession(l) ==
    /\ lPc[l] = "session"
    /\ Goto(l, "new")
    /\ sessions' = sessions \cup {l}
    /\ UNCHANGED <<account, attempts, proved, challenged, link, resets, changing, history>>

Login(l) ==
    \/ CheckLock(l) \/ CountFailures(l) \/ Verify(l) \/ RecordFailure(l) \/ LockCheck(l)
    \/ ApplyLockout(l) \/ ClearFailures(l) \/ Unlock(l) \/ CreateSession(l)

-----------------------------------------------------------------------------
(* Passkeys *)

\* passkey_login_options(), unless the throttle of its own scope refuses it: the row
\* of a challenge, which stands for the browser's last one.
PasskeyOptions(l) ==
    /\ l \in WithPasskey /\ l \notin sessions /\ lPc[l] = "new"
    /\ challenged' = challenged \cup {l}
    /\ proved' = [proved EXCEPT ![l] = password]
    /\ overtaken' = overtaken \ {l}
    /\ UNCHANGED <<account, attempts, lPc, sessions, link, resets, changing, resetTo>>

\* passkey_login() reads the challenge ...  Whose challenge it is, is not compared:
\* one asked for under another address would do as well, and a reset takes away only
\* those of its account, which are the ones followed here.
PasskeyRead(l) ==
    /\ lPc[l] = "new" /\ l \in challenged \ sessions
    /\ Goto(l, "credential")
    /\ UNCHANGED <<account, attempts, proved, tokens, link, resets, changing, history>>

\* ... and the credential, and the answer is right or wrong ...
PasskeyProve(l) ==
    /\ lPc[l] = "credential"
    /\ Goto(l, "consume") \/ Goto(l, "new")
    /\ UNCHANGED <<account, attempts, proved, tokens, link, resets, changing, history>>

\* ... takes the challenge away, if it is still there, opens the session ...
PasskeyConsume(l) ==
    /\ lPc[l] = "consume"
    /\ Goto(l, "passkeySession")
    /\ challenged' = challenged \ {l}
    /\ UNCHANGED <<account, attempts, proved, sessions, link, resets, changing, history>>

PasskeySession(l) ==
    /\ lPc[l] = "passkeySession"
    /\ Goto(l, "passkeyClear")
    /\ sessions' = sessions \cup {l}
    /\ UNCHANGED <<account, attempts, proved, challenged, link, resets, changing, history>>

\* ... and ends the throttle.
PasskeyClear(l) ==
    /\ lPc[l] = "passkeyClear"
    /\ Goto(l, "passkeyUnlock")
    /\ recent' = 0 /\ older' = 0
    /\ UNCHANGED <<account, proved, tokens, link, resets, changing, history>>

PasskeyUnlock(l) ==
    /\ lPc[l] = "passkeyUnlock"
    /\ Goto(l, "new")
    /\ locked' = 0
    /\ UNCHANGED <<password, attempts, proved, tokens, link, resets, changing, history>>

Passkey(l) ==
    \/ PasskeyOptions(l) \/ PasskeyRead(l) \/ PasskeyProve(l) \/ PasskeyConsume(l)
    \/ PasskeySession(l) \/ PasskeyClear(l) \/ PasskeyUnlock(l)

-----------------------------------------------------------------------------
(* Sessions *)

\* A logout, the end of its time, or revoke_session(); a challenge runs out.
EndSession(l) ==
    /\ \/ l \in sessions /\ sessions' = sessions \ {l} /\ UNCHANGED challenged
       \/ l \in challenged /\ challenged' = challenged \ {l} /\ UNCHANGED sessions
    /\ UNCHANGED <<account, attempts, logins, link, resets, changing, history>>

\* revoke_other_sessions(): every row of the account but one.
RevokeOthers(l) ==
    /\ l \in sessions /\ lPc[l] = "new"
    /\ sessions' = {l} /\ challenged' = {}
    /\ UNCHANGED <<account, attempts, logins, link, resets, changing, history>>

\* force_logout_user(), by an admin
ForceLogout ==
    /\ sessions' = {} /\ challenged' = {}
    /\ UNCHANGED <<account, attempts, logins, link, resets, changing, history>>

-----------------------------------------------------------------------------
(* The password *)

\* change_password(): the current password is read and proved ...
ChangeCheck(l) ==
    /\ l \in sessions \ changing /\ lPc[l] = "new"
    /\ changing' = changing \cup {l}
    /\ UNCHANGED <<account, attempts, logins, tokens, link, resets, history>>

\* ... and replaced, whatever it is by now.
ChangePassword(l) ==
    /\ l \in changing /\ password < MaxPasswords
    /\ changing' = changing \ {l}
    /\ password' = password + 1
    /\ UNCHANGED <<locked, attempts, logins, tokens, link, resets, history>>

\* reset_user_password(), by an admin
AdminReset ==
    /\ password < MaxPasswords
    /\ password' = password + 1
    /\ UNCHANGED <<locked, attempts, logins, tokens, link, resets, changing, history>>

\* forgot_post(): earlier links are void, a new one is queued for the mail.
Forgot ==
    /\ \E k \in Links :
        /\ link[k] = "absent" /\ \A j \in Links : j < k => link[j] # "absent"
        /\ link' = [j \in Links |-> CASE j = k -> "open"
                                      [] link[j] = "open" -> "used"
                                      [] OTHER -> link[j]]
    /\ UNCHANGED <<account, attempts, logins, tokens, resets, changing, history>>

LinkExpires ==
    /\ \E k \in Links : link[k] = "open" /\ link' = [link EXCEPT ![k] = "used"]
    /\ UNCHANGED <<account, attempts, logins, tokens, resets, changing, history>>

\* reset_post(): _reset_row() ...
ResetRead(r) ==
    /\ rPc[r] = "new"
    /\ \E k \in Links : link[k] = "open" /\ rLink' = [rLink EXCEPT ![r] = k]
    /\ rPc' = [rPc EXCEPT ![r] = "commit"]
    /\ UNCHANGED <<account, attempts, logins, tokens, link, changing, history>>

HasProved ==
    {l \in Logins : lPc[l] \in {"clear", "unlock", "session", "credential", "consume",
                                "passkeySession"}}

\* Mutant: the challenges of passkeys are kept.
ResetKeepsChallenges(r) ==
    /\ rPc[r] = "commit" /\ password < MaxPasswords
    /\ rPc' = [rPc EXCEPT ![r] = "clear"]
    /\ password' = password + 1 /\ locked' = 0
    /\ link' = [link EXCEPT ![rLink[r]] = "used"]
    /\ rLink' = [rLink EXCEPT ![r] = 0]
    /\ sessions' = {}
    /\ resetTo' = password + 1 /\ overtaken' = HasProved
    /\ UNCHANGED <<attempts, logins, challenged, changing>>

\* ... its transaction, which does not look at the link again ...
ResetCommit(r) ==
    /\ rPc[r] = "commit" /\ password < MaxPasswords
    /\ rPc' = [rPc EXCEPT ![r] = "clear"]
    /\ password' = password + 1 /\ locked' = 0
    /\ link' = [link EXCEPT ![rLink[r]] = "used"]
    /\ rLink' = [rLink EXCEPT ![r] = 0]
    /\ sessions' = {} /\ challenged' = {}
    /\ resetTo' = password + 1 /\ overtaken' = HasProved
    /\ UNCHANGED <<attempts, logins, changing>>

\* ... and clear_failures().
ResetClear(r) ==
    /\ rPc[r] = "clear"
    /\ rPc' = [rPc EXCEPT ![r] = "new"]
    /\ recent' = 0 /\ older' = 0
    /\ UNCHANGED <<account, logins, tokens, link, rLink, changing, history>>

Reset(r) == ResetRead(r) \/ ResetCommit(r) \/ ResetClear(r)

-----------------------------------------------------------------------------
\* A request goes no further: the database is locked or full, or the server is
\* killed, which is this for every request.
Abort ==
    /\ \/ \E l \in Logins : lPc[l] # "new" /\ Goto(l, "new") /\ UNCHANGED <<resets, changing>>
       \/ \E r \in Resets :
            /\ rPc[r] # "new"
            /\ rPc' = [rPc EXCEPT ![r] = "new"] /\ rLink' = [rLink EXCEPT ![r] = 0]
            /\ UNCHANGED <<lPc, changing>>
       \/ \E l \in changing : changing' = changing \ {l} /\ UNCHANGED <<lPc, resets>>
    /\ UNCHANGED <<account, attempts, proved, tokens, link, history>>

\* Mutant: the lock runs below zero.
TickBelowZero ==
    /\ locked > 0 \/ Failures > 0
    /\ slow = {} /\ slow' = {l \in Logins : lPc[l] # "new"}
    /\ locked' = locked - 1
    /\ older' = recent /\ recent' = 0
    /\ UNCHANGED <<password, logins, tokens, link, resets, changing, history>>

\* The wall clock: failures leave the window, the lock runs out.  A tick is longer
\* than a request: a login may see one tick end, not two.
Tick ==
    /\ locked > 0 \/ Failures > 0
    /\ slow = {} /\ slow' = {l \in Logins : lPc[l] # "new"}
    /\ locked' = IF locked > 0 THEN locked - 1 ELSE 0
    /\ older' = recent /\ recent' = 0
    /\ UNCHANGED <<password, logins, tokens, link, resets, changing, history>>

StillSlow == slow' = {l \in slow : lPc'[l] # "new"}

Step ==
    \/ \E l \in Logins :
         \/ Login(l) \/ Passkey(l) \/ EndSession(l) \/ RevokeOthers(l)
         \/ ChangeCheck(l) \/ ChangePassword(l)
    \/ \E r \in Resets : Reset(r)
    \/ ForceLogout \/ AdminReset \/ Forgot \/ LinkExpires \/ Abort

Next == (Step /\ StillSlow) \/ Tick

Spec == Init /\ [][Next]_vars

\* A login that was begun goes on or is given up, and time passes.
Serve(l) == lPc[l] # "new" /\ (Login(l) \/ Passkey(l)) /\ StillSlow
FairSpec == Spec /\ WF_vars(Tick) /\ \A l \in Logins : WF_vars(Serve(l))

-----------------------------------------------------------------------------
\* Every variable stays within its domain.
TypeOK ==
    /\ password \in 0..MaxPasswords /\ locked \in 0..Lockout
    /\ recent \in Nat /\ older \in Nat
    /\ lPc \in [Logins -> {"new", "count", "verify", "record", "lockCheck", "lock", "clear",
                           "unlock", "session", "credential", "consume", "passkeySession",
                           "passkeyClear", "passkeyUnlock"}]
    /\ proved \in [Logins -> 0..MaxPasswords]
    /\ sessions \in SUBSET Logins /\ challenged \in SUBSET Logins /\ changing \in SUBSET Logins
    /\ link \in [Links -> {"absent", "open", "used"}]
    /\ rPc \in [Resets -> {"new", "commit", "clear"}] /\ rLink \in [Resets -> 0..MaxLinks]
    /\ resetTo \in 0..MaxPasswords /\ overtaken \in SUBSET Logins
    /\ slow \in SUBSET Logins

\* Logins that read the count before any of them failed go beyond the limit
\* together, but never by more than there are of them.
OverrunIsBounded == Failures < MaxFailures + Cardinality(Logins)

\* A reset by link ends every session opened with an older password, and every sign-in
\* by a passkey with a challenge issued for the account before it, but for a login that
\* had proved its password, or found its challenge, and not yet opened its session.
SessionsEndWithReset ==
    \A l \in sessions : proved[l] < resetTo => l \in overtaken

Throttled == locked > 0 \/ Failures >= MaxFailures

\* The throttle ends by itself, however often the address is tried meanwhile.
ThrottleEnds == Throttled ~> ~Throttled
=============================================================================
