---------------------------- MODULE InvitesProofs ----------------------------
(***************************************************************************)
(* Theorems about Invites for every number of invites, registrations and   *)
(* accounts.                                                               *)
(***************************************************************************)
EXTENDS Invites, TLAPS

\* The transaction keeps count and accounts together; what an earlier check saw
\* is not part of the argument, except that the invite it names was created, so
\* that its uses are those it was given.
CheckedExists ==
    \A r \in Registrations :
        pc[r] \in {"invited", "checked"} => /\ token[r] \in Tokens /\ exists[token[r]]
                                            /\ email[r] \in Emails
UnusedBefore == \A i \in Tokens : ~exists[i] => made[i] = 0

Inv == TypeOK /\ UsesAreAccounts /\ WithinMaxUses /\ CheckedExists /\ UnusedBefore

LEMMA InvInit == Init => Inv
  BY InviteAssumption
     DEF Init, Inv, TypeOK, UsesAreAccounts, WithinMaxUses, CheckedExists, UnusedBefore

LEMMA ClampInRange ==
  ASSUME NEW n \in Requested
  PROVE  Clamp(n) \in 1..UsesLimit
  BY InviteAssumption DEF Clamp

LEMMA InvNext == Inv /\ [Next]_vars => Inv'
<1> SUFFICES ASSUME Inv, [Next]_vars PROVE Inv'
  OBVIOUS
<1> USE InviteAssumption DEF Inv
<1>1. ASSUME NEW i \in Tokens, NEW n \in Requested, Create(i, n) PROVE Inv'
  <2>1. TypeOK'
    BY <1>1, ClampInRange DEF Create, TypeOK, requestVars
  <2>2. UsesAreAccounts' /\ WithinMaxUses'
    BY <1>1, ClampInRange
       DEF Create, TypeOK, UsesAreAccounts, WithinMaxUses, UnusedBefore
  <2>3. CheckedExists' /\ UnusedBefore'
    BY <1>1 DEF Create, TypeOK, CheckedExists, UnusedBefore, requestVars
  <2> QED
    BY <2>1, <2>2, <2>3
<1>2. ASSUME NEW i \in Tokens, Revoke(i) PROVE Inv'
  BY <1>2 DEF Revoke, TypeOK, UsesAreAccounts, WithinMaxUses, CheckedExists,
              UnusedBefore, requestVars
<1>3. ASSUME NEW i \in Tokens, Expire(i) PROVE Inv'
  BY <1>3 DEF Expire, TypeOK, UsesAreAccounts, WithinMaxUses, CheckedExists,
              UnusedBefore, requestVars
<1>4. ASSUME NEW r \in Registrations, NEW i \in Tokens, NEW e \in Emails,
             CheckInvite(r, i, e)
      PROVE  Inv'
  BY <1>4 DEF CheckInvite, Usable, TypeOK, UsesAreAccounts, WithinMaxUses,
              CheckedExists, UnusedBefore, inviteVars
<1>5. ASSUME NEW r \in Registrations, CheckEmail(r) PROVE Inv'
  BY <1>5 DEF CheckEmail, TypeOK, UsesAreAccounts, WithinMaxUses, CheckedExists,
              UnusedBefore, inviteVars
<1>6. ASSUME NEW r \in Registrations, Register(r) PROVE Inv'
  <2> DEFINE i == token[r]  e == email[r]
  <2>1. i \in Tokens /\ exists[i] /\ e \in Emails
    BY <1>6 DEF Register, CheckedExists
  <2>2. CASE Claimable(i) /\ e \notin accounts
    BY <1>6, <2>1, <2>2
       DEF Register, Claimable, TypeOK, UsesAreAccounts, WithinMaxUses, CheckedExists,
           UnusedBefore
  <2>3. CASE ~(Claimable(i) /\ e \notin accounts)
    BY <1>6, <2>1, <2>3
       DEF Register, TypeOK, UsesAreAccounts, WithinMaxUses, CheckedExists,
           UnusedBefore
  <2> QED
    BY <2>2, <2>3
<1>7. ASSUME NEW e \in Emails, DeleteAccount(e) PROVE Inv'
  BY <1>7 DEF DeleteAccount, TypeOK, UsesAreAccounts, WithinMaxUses, CheckedExists,
              UnusedBefore, requestVars
<1>8. CASE UNCHANGED vars
  BY <1>8 DEF vars, inviteVars, requestVars, TypeOK, UsesAreAccounts, WithinMaxUses,
              CheckedExists, UnusedBefore
<1> QED
  BY <1>1, <1>2, <1>3, <1>4, <1>5, <1>6, <1>7, <1>8 DEF Next

\* However many registrations pass the check with the same last use, the invite
\* makes no more accounts than it has uses, and it counts each of them.
THEOREM UsesBounded == Spec => [](TypeOK /\ WithinMaxUses /\ UsesAreAccounts)
<1>1. Init => Inv
  BY InvInit
<1>2. Inv /\ [Next]_vars => Inv'
  BY InvNext
<1>3. Inv => TypeOK /\ WithinMaxUses /\ UsesAreAccounts
  BY DEF Inv
<1> QED
  BY <1>1, <1>2, <1>3, PTL DEF Spec

\* No request in any state of its checks leaves the domain of a variable.
THEOREM TypeCorrect == Spec => []TypeOK
  BY UsesBounded, PTL

\* register_post() rolls the claim of an invite back with the account: the uses
\* that are counted are the accounts that were made, also when the address is taken
\* between the check and the INSERT.
THEOREM UsesCountAccounts == Spec => []UsesAreAccounts
  BY UsesBounded, PTL

\* Once an invite is revoked no registration makes an account with it, not even
\* one that was let in before.
THEOREM RevocationIsFinal == Spec => NoneJoinsRevoked
<1>1. Inv /\ [Next]_vars => [RevocationHolds]_vars
  <2> SUFFICES ASSUME Inv, Next, NEW i \in Tokens, revoked[i]
               PROVE  made'[i] = made[i]
    BY DEF RevocationHolds
  <2>1. ASSUME NEW r \in Registrations, Register(r) PROVE made'[i] = made[i]
    BY <2>1 DEF Register, Claimable, Inv, TypeOK
  <2> QED
    BY <2>1 DEF Next, Create, Revoke, Expire, CheckInvite, CheckEmail, DeleteAccount
<1> QED
  BY <1>1, InvInit, InvNext, PTL DEF Spec, NoneJoinsRevoked
=============================================================================
