----------------------------- MODULE SignInProofs -----------------------------
(***************************************************************************)
(* What holds of SignIn for any number of logins and resets and any limits *)
(* of the throttle.                                                        *)
(***************************************************************************)
EXTENDS SignIn, TLAPS, FiniteSetTheorems

-----------------------------------------------------------------------------
(* Types. *)

LEMMA TypeInit == Init => TypeOK
  BY LimitAssumption DEF Init, TypeOK

LEMMA LoginTypes ==
  ASSUME TypeOK, NEW l \in Logins, Login(l), StillSlow PROVE TypeOK'
<1> USE LimitAssumption
    DEF TypeOK, StillSlow, Goto, Refuse, account, attempts, logins, tokens, resets, history
<1>1. CASE CheckLock(l)
  BY <1>1 DEF CheckLock
<1>2. CASE CountFailures(l)
  BY <1>2 DEF CountFailures
<1>3. CASE Verify(l)
  BY <1>3 DEF Verify
<1>4. CASE RecordFailure(l)
  BY <1>4 DEF RecordFailure
<1>5. CASE LockCheck(l)
  BY <1>5 DEF LockCheck
<1>6. CASE ApplyLockout(l)
  BY <1>6 DEF ApplyLockout
<1>7. CASE ClearFailures(l)
  BY <1>7 DEF ClearFailures
<1>8. CASE Unlock(l)
  BY <1>8 DEF Unlock
<1>9. CASE CreateSession(l)
  BY <1>9 DEF CreateSession
<1> QED
  BY <1>1, <1>2, <1>3, <1>4, <1>5, <1>6, <1>7, <1>8, <1>9 DEF Login

LEMMA PasskeyTypes ==
  ASSUME TypeOK, NEW l \in Logins, Passkey(l), StillSlow PROVE TypeOK'
<1> USE LimitAssumption
    DEF TypeOK, StillSlow, Goto, account, attempts, logins, tokens, resets, history
<1>1. CASE PasskeyOptions(l)
  BY <1>1 DEF PasskeyOptions
<1>2. CASE PasskeyRead(l)
  BY <1>2 DEF PasskeyRead
<1>3. CASE PasskeyProve(l)
  BY <1>3 DEF PasskeyProve
<1>4. CASE PasskeyConsume(l)
  BY <1>4 DEF PasskeyConsume
<1>5. CASE PasskeySession(l)
  BY <1>5 DEF PasskeySession
<1>6. CASE PasskeyClear(l)
  BY <1>6 DEF PasskeyClear
<1>7. CASE PasskeyUnlock(l)
  BY <1>7 DEF PasskeyUnlock
<1> QED
  BY <1>1, <1>2, <1>3, <1>4, <1>5, <1>6, <1>7 DEF Passkey

\* The steps that are not of a login: of a browser with a session, or an admin ...
SessionStep ==
    \/ \E l \in Logins :
         EndSession(l) \/ RevokeOthers(l) \/ ChangeCheck(l) \/ ChangePassword(l)
    \/ ForceLogout \/ AdminReset

\* ... and of a link, or of a request that fails.
LinkStep == (\E r \in Resets : Reset(r)) \/ Forgot \/ LinkExpires \/ Abort

LEMMA StepSplit ==
  Step => (\E l \in Logins : Login(l) \/ Passkey(l)) \/ SessionStep \/ LinkStep
  BY DEF Step, SessionStep, LinkStep

LEMMA SessionTypes ==
  ASSUME TypeOK, SessionStep, StillSlow PROVE TypeOK'
<1> USE LimitAssumption DEF TypeOK, StillSlow, account, attempts, logins, tokens, resets, history
<1>1. ASSUME NEW l \in Logins, EndSession(l) PROVE TypeOK'
  BY <1>1 DEF EndSession
<1>2. ASSUME NEW l \in Logins, RevokeOthers(l) PROVE TypeOK'
  BY <1>2 DEF RevokeOthers
<1>3. ASSUME NEW l \in Logins, ChangeCheck(l) PROVE TypeOK'
  BY <1>3 DEF ChangeCheck
<1>4. ASSUME NEW l \in Logins, ChangePassword(l) PROVE TypeOK'
  BY <1>4 DEF ChangePassword
<1>5. CASE ForceLogout
  BY <1>5 DEF ForceLogout
<1>6. CASE AdminReset
  BY <1>6 DEF AdminReset
<1> QED
  BY <1>1, <1>2, <1>3, <1>4, <1>5, <1>6 DEF SessionStep

LEMMA LinkTypes ==
  ASSUME TypeOK, LinkStep, StillSlow PROVE TypeOK'
<1> USE LimitAssumption DEF TypeOK, StillSlow, Links, account, attempts, logins, tokens, resets, history
<1>1. ASSUME NEW r \in Resets, ResetRead(r) PROVE TypeOK'
  BY <1>1 DEF ResetRead
<1>2. ASSUME NEW r \in Resets, ResetCommit(r) PROVE TypeOK'
  <2>1. password' \in 0..MaxPasswords /\ resetTo' \in 0..MaxPasswords /\ locked' \in 0..Lockout
    BY <1>2 DEF ResetCommit
  <2>2. overtaken' \in SUBSET Logins
    BY <1>2 DEF ResetCommit, HasProved
  <2>3. link' \in [Links -> {"absent", "open", "used"}]
    BY <1>2 DEF ResetCommit
  <2>4. rPc' \in [Resets -> {"new", "commit", "clear"}]
    BY <1>2 DEF ResetCommit
  <2> QED
    BY <1>2, <2>1, <2>2, <2>3, <2>4 DEF ResetCommit
<1>3. ASSUME NEW r \in Resets, ResetClear(r) PROVE TypeOK'
  BY <1>3 DEF ResetClear
<1>4. CASE Forgot
  <2>1. link' \in [Links -> {"absent", "open", "used"}]
    BY <1>4 DEF Forgot
  <2> QED
    BY <1>4, <2>1 DEF Forgot
<1>5. CASE LinkExpires
  BY <1>5 DEF LinkExpires
<1>6. CASE Abort
  <2>1. lPc' \in [Logins -> {"new", "count", "verify", "record", "lockCheck", "lock", "clear",
                             "unlock", "session", "credential", "consume", "passkeySession",
                             "passkeyClear", "passkeyUnlock"}]
    BY <1>6 DEF Abort, Goto
  <2>2. rPc' \in [Resets -> {"new", "commit", "clear"}] /\ rLink' \in [Resets -> 0..MaxLinks]
    <3>1. 0 \in 0..MaxLinks
      OBVIOUS
    <3>2. CASE UNCHANGED resets
      BY <3>2
    <3>3. ASSUME NEW r \in Resets, rPc' = [rPc EXCEPT ![r] = "new"],
                 rLink' = [rLink EXCEPT ![r] = 0]
          PROVE  rPc' \in [Resets -> {"new", "commit", "clear"}] /\ rLink' \in [Resets -> 0..MaxLinks]
      BY <3>1, <3>3
    <3> QED
      BY <1>6, <3>2, <3>3 DEF Abort
  <2>3. changing' \in SUBSET Logins
    BY <1>6 DEF Abort
  <2> QED
    BY <1>6, <2>1, <2>2, <2>3 DEF Abort
<1> QED
  BY <1>1, <1>2, <1>3, <1>4, <1>5, <1>6 DEF LinkStep, Reset

LEMMA TypeStep == TypeOK /\ [Next]_vars => TypeOK'
<1> SUFFICES ASSUME TypeOK, [Next]_vars PROVE TypeOK'
  OBVIOUS
<1>1. CASE Step /\ StillSlow
  BY <1>1, StepSplit, LoginTypes, PasskeyTypes, SessionTypes, LinkTypes
<1>2. CASE Tick
  BY <1>2, LimitAssumption DEF Tick, TypeOK, logins, tokens, resets, history
<1>3. CASE UNCHANGED vars
  BY <1>3 DEF vars, TypeOK, account, attempts, logins, tokens, resets, history
<1> QED
  BY <1>1, <1>2, <1>3 DEF Next

-----------------------------------------------------------------------------
(* The limit on failures. *)

\* The logins that were let through and may still fail.
Past == {l \in Logins : lPc[l] \in {"verify", "record"}}

\* Each of them found room for one failure more, and fails at most once.
RoomForPast == Failures + Cardinality(Past) < MaxFailures + Cardinality(Logins)

LEMMA LoginsFinite ==
  /\ IsFiniteSet(Past) /\ Cardinality(Past) \in Nat
  /\ Cardinality(Logins) \in Nat
  /\ Cardinality(Past) <= Cardinality(Logins)
  BY LoginAssumption, FS_Subset, FS_CardinalityType DEF Past

LEMMA FailuresType == (TypeOK => Failures \in Nat) /\ (TypeOK' => Failures' \in Nat)
  BY DEF TypeOK, Failures

\* Nothing was counted and nobody was let through.
Shrinks == Failures' <= Failures /\ Past' \subseteq Past

LEMMA ShrinkKeepsRoom ==
  ASSUME TypeOK, TypeOK', RoomForPast, Shrinks PROVE RoomForPast'
<1>1. IsFiniteSet(Past') /\ Cardinality(Past') \in Nat /\ Cardinality(Past') <= Cardinality(Past)
  BY LoginsFinite, FS_Subset, FS_CardinalityType DEF Shrinks
<1>2. Failures' <= Failures
  BY DEF Shrinks
<1>3. Failures \in Nat /\ Failures' \in Nat
  BY FailuresType
<1> QED
  BY <1>1, <1>2, <1>3, LoginsFinite, LimitAssumption DEF RoomForPast

LEMMA LoginShrinks ==
  ASSUME TypeOK, NEW l \in Logins, Login(l), ~RecordFailure(l),
         CountFailures(l) => Failures >= MaxFailures
  PROVE  Shrinks
<1> USE DEF TypeOK, Goto, Refuse, Shrinks, Failures, Past, attempts
<1>1. CASE CheckLock(l)
  BY <1>1 DEF CheckLock
<1>2. CASE CountFailures(l)
  BY <1>2 DEF CountFailures
<1>3. CASE Verify(l)
  BY <1>3 DEF Verify
<1>4. CASE LockCheck(l) \/ ApplyLockout(l)
  BY <1>4 DEF LockCheck, ApplyLockout
<1>5. CASE ClearFailures(l)
  BY <1>5 DEF ClearFailures
<1>6. CASE Unlock(l) \/ CreateSession(l)
  BY <1>6 DEF Unlock, CreateSession
<1> QED
  BY <1>1, <1>2, <1>3, <1>4, <1>5, <1>6 DEF Login

LEMMA PasskeyShrinks ==
  ASSUME TypeOK, NEW l \in Logins, Passkey(l) PROVE Shrinks
<1> USE DEF TypeOK, Goto, Shrinks, Failures, Past, attempts
<1>1. CASE PasskeyOptions(l) \/ PasskeyRead(l) \/ PasskeyProve(l)
  BY <1>1 DEF PasskeyOptions, PasskeyRead, PasskeyProve
<1>2. CASE PasskeyConsume(l) \/ PasskeySession(l)
  BY <1>2 DEF PasskeyConsume, PasskeySession
<1>3. CASE PasskeyClear(l) \/ PasskeyUnlock(l)
  BY <1>3 DEF PasskeyClear, PasskeyUnlock
<1> QED
  BY <1>1, <1>2, <1>3 DEF Passkey

LEMMA LoginKeepsRoom ==
  ASSUME TypeOK, TypeOK', RoomForPast, NEW l \in Logins, Login(l) PROVE RoomForPast'
<1>1. CASE RecordFailure(l)
  <2>1. Failures \in Nat /\ Failures' = Failures + 1
    BY <1>1 DEF RecordFailure, Failures, TypeOK
  <2>2. Past' = Past \ {l} /\ l \in Past
    BY <1>1 DEF RecordFailure, Past, Goto, TypeOK
  <2>3. Cardinality(Past') = Cardinality(Past) - 1
    BY <2>2, LoginsFinite, FS_RemoveElement
  <2> QED
    BY <2>1, <2>3, LoginsFinite, LimitAssumption DEF RoomForPast
<1>2. CASE CountFailures(l) /\ ~(Failures >= MaxFailures)
  <2>1. Failures \in Nat /\ Failures' = Failures /\ Failures < MaxFailures
    BY <1>2, LimitAssumption DEF CountFailures, Failures, TypeOK, attempts
  <2>2. Past' \subseteq Logins
    BY DEF Past
  <2>3. Cardinality(Past') \in Nat /\ Cardinality(Past') <= Cardinality(Logins)
    BY <2>2, LoginAssumption, FS_Subset, FS_CardinalityType
  <2> QED
    BY <2>1, <2>3, LoginsFinite, LimitAssumption DEF RoomForPast
<1>3. CASE ~RecordFailure(l) /\ (CountFailures(l) => Failures >= MaxFailures)
  BY <1>3, LoginShrinks, ShrinkKeepsRoom
<1> QED
  BY <1>1, <1>2, <1>3

LEMMA OtherShrinks ==
  ASSUME TypeOK, SessionStep \/ LinkStep \/ Tick \/ UNCHANGED vars PROVE Shrinks
<1> USE DEF TypeOK, Shrinks, Failures, Past, attempts, logins, tokens
<1>1. CASE SessionStep
  BY <1>1 DEF SessionStep, EndSession, RevokeOthers, ChangeCheck, ChangePassword,
              ForceLogout, AdminReset
<1>2. CASE LinkStep
  BY <1>2 DEF LinkStep, Reset, ResetRead, ResetCommit, ResetClear, Forgot, LinkExpires, Abort, Goto
<1>3. CASE Tick
  BY <1>3 DEF Tick
<1>4. CASE UNCHANGED vars
  BY <1>4 DEF vars
<1> QED
  BY <1>1, <1>2, <1>3, <1>4

LEMMA RoomStep == TypeOK /\ RoomForPast /\ [Next]_vars => RoomForPast'
<1> SUFFICES ASSUME TypeOK, RoomForPast, [Next]_vars PROVE RoomForPast'
  OBVIOUS
<1>1. TypeOK'
  BY TypeStep
<1>2. CASE \E l \in Logins : Login(l)
  BY <1>1, <1>2, LoginKeepsRoom
<1>3. CASE \E l \in Logins : Passkey(l)
  BY <1>1, <1>3, PasskeyShrinks, ShrinkKeepsRoom
<1>4. CASE SessionStep \/ LinkStep \/ Tick \/ UNCHANGED vars
  BY <1>1, <1>4, OtherShrinks, ShrinkKeepsRoom
<1> QED
  BY <1>2, <1>3, <1>4, StepSplit DEF Next

\* However many logins are at work at a time, the failures of an address pass
\* the limit by less than that many, although each login reads the count
\* before the slow check of the password and adds to it after (login_post()).
THEOREM OverrunBounded == Spec => []OverrunIsBounded
<1>1. Init => TypeOK /\ RoomForPast
  <2> SUFFICES ASSUME Init PROVE RoomForPast
    BY TypeInit
  <2>1. Past = {}
    BY DEF Init, Past
  <2> QED
    BY <2>1, LoginsFinite, FS_EmptySet, LimitAssumption DEF Init, RoomForPast, Failures
<1>2. TypeOK /\ RoomForPast /\ [Next]_vars => (TypeOK /\ RoomForPast)'
  BY TypeStep, RoomStep
<1>3. TypeOK /\ RoomForPast => OverrunIsBounded
  BY LoginsFinite, LimitAssumption DEF TypeOK, RoomForPast, OverrunIsBounded, Failures
<1> QED
  BY <1>1, <1>2, <1>3, PTL DEF Spec

\* Logins, passkeys, sessions, links and resets keep their domains; the lock never
\* runs below zero.
THEOREM TypeCorrect == Spec => []TypeOK
<1>1. Init => TypeOK
  BY TypeInit
<1>2. TypeOK /\ [Next]_vars => TypeOK'
  BY TypeStep
<1> QED
  BY <1>1, <1>2, PTL DEF Spec

-----------------------------------------------------------------------------
(* Sessions and resets. *)

\* A browser with a session is at no login that could open another, and no reset is
\* ahead of the password.
OneOrOther ==
    /\ \A l \in sessions : lPc[l] \in {"new", "passkeyClear", "passkeyUnlock"}
    /\ resetTo <= password

\* What holds of sessions holds of the logins that will open one; a reset leaves no
\* challenge.
OvertakenKnown ==
    /\ \A l \in sessions \cup HasProved : proved[l] < resetTo => l \in overtaken
    /\ \A l \in challenged : proved[l] >= resetTo

SessionInv == OneOrOther /\ OvertakenKnown

LEMMA LoginKeepsSessions ==
  ASSUME TypeOK, SessionInv, NEW l \in Logins, Login(l) PROVE SessionInv'
<1> USE DEF TypeOK, SessionInv, OneOrOther, OvertakenKnown, HasProved, Goto, Refuse,
            account, attempts, logins, tokens, history
<1>1. CASE CheckLock(l)
  BY <1>1 DEF CheckLock
<1>2. CASE CountFailures(l)
  BY <1>2 DEF CountFailures
<1>3. CASE Verify(l)
  BY <1>3 DEF Verify
<1>4. CASE RecordFailure(l)
  BY <1>4 DEF RecordFailure
<1>5. CASE LockCheck(l)
  BY <1>5 DEF LockCheck
<1>6. CASE ApplyLockout(l)
  BY <1>6 DEF ApplyLockout
<1>7. CASE ClearFailures(l)
  BY <1>7 DEF ClearFailures
<1>8. CASE Unlock(l)
  BY <1>8 DEF Unlock
<1>9. CASE CreateSession(l)
  BY <1>9 DEF CreateSession
<1> QED
  BY <1>1, <1>2, <1>3, <1>4, <1>5, <1>6, <1>7, <1>8, <1>9 DEF Login

LEMMA PasskeyKeepsSessions ==
  ASSUME TypeOK, SessionInv, NEW l \in Logins, Passkey(l) PROVE SessionInv'
<1> USE DEF TypeOK, SessionInv, OneOrOther, OvertakenKnown, HasProved, Goto,
            account, attempts, logins, tokens, history
<1>1. CASE PasskeyOptions(l)
  BY <1>1 DEF PasskeyOptions
<1>2. CASE PasskeyRead(l)
  BY <1>2 DEF PasskeyRead
<1>3. CASE PasskeyProve(l)
  BY <1>3 DEF PasskeyProve
<1>4. CASE PasskeyConsume(l)
  BY <1>4 DEF PasskeyConsume
<1>5. CASE PasskeySession(l)
  BY <1>5 DEF PasskeySession
<1>6. CASE PasskeyClear(l)
  BY <1>6 DEF PasskeyClear
<1>7. CASE PasskeyUnlock(l)
  BY <1>7 DEF PasskeyUnlock
<1> QED
  BY <1>1, <1>2, <1>3, <1>4, <1>5, <1>6, <1>7 DEF Passkey

LEMMA OtherKeepsSessions ==
  ASSUME TypeOK, SessionInv, SessionStep \/ LinkStep \/ Tick \/ UNCHANGED vars
  PROVE  SessionInv'
<1> USE DEF TypeOK, SessionInv, OneOrOther, OvertakenKnown, HasProved,
            account, attempts, logins, tokens, history
<1>1. CASE SessionStep
  BY <1>1 DEF SessionStep, EndSession, RevokeOthers, ChangeCheck, ChangePassword,
              ForceLogout, AdminReset
<1>2. ASSUME NEW r \in Resets, ResetCommit(r) PROVE SessionInv'
  BY <1>2 DEF ResetCommit
<1>3. CASE Abort
  BY <1>3 DEF Abort, Goto
<1>4. ASSUME NEW r \in Resets, ResetRead(r) \/ ResetClear(r) PROVE SessionInv'
  BY <1>4 DEF ResetRead, ResetClear
<1>5. CASE Forgot \/ LinkExpires
  BY <1>5 DEF Forgot, LinkExpires
<1>6. CASE Tick \/ UNCHANGED vars
  BY <1>6 DEF Tick, vars
<1> QED
  BY <1>1, <1>2, <1>3, <1>4, <1>5, <1>6 DEF LinkStep, Reset

\* A reset by link ends every session opened with an older password and every sign-in by
\* a passkey begun before it, except for the logins that had proved the password, or
\* found their challenge, when the reset was committed (reset_post()).
THEOREM ResetEndsSessions == Spec => []SessionsEndWithReset
<1>1. Init => TypeOK /\ SessionInv
  BY TypeInit DEF Init, SessionInv, OneOrOther, OvertakenKnown, HasProved
<1>2. TypeOK /\ SessionInv /\ [Next]_vars => (TypeOK /\ SessionInv)'
  BY TypeStep, StepSplit, LoginKeepsSessions, PasskeyKeepsSessions, OtherKeepsSessions DEF Next
<1>3. SessionInv => SessionsEndWithReset
  BY DEF SessionInv, OvertakenKnown, SessionsEndWithReset
<1> QED
  BY <1>1, <1>2, <1>3, PTL DEF Spec
=============================================================================
