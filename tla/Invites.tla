------------------------------- MODULE Invites -------------------------------
(***************************************************************************)
(* Invite-only registration: app/invites.py and register_post() of         *)
(* app/auth.py.                                                            *)
(*                                                                         *)
(* A registration looks at the invite, then at the address, and only then  *)
(* opens the transaction that claims a use and inserts the account; between *)
(* these steps other registrations, revocations and deletions are served.  *)
(***************************************************************************)
EXTENDS Integers, FiniteSets

CONSTANTS
    Tokens,        \* the invites that are created
    Registrations, \* POSTs of the registration form
    Emails,
    Founders,      \* addresses with an account that no invite made (bootstrap)
    Requested,     \* the number of uses an admin may ask for, in range or not
    UsesLimit,     \* MAX_USES_LIMIT
    NoToken, NoEmail,
    MaxDeletions   \* bound: deletions of an account

ASSUME InviteAssumption ==
    /\ Founders \subseteq Emails /\ Requested \subseteq Int
    /\ UsesLimit \in Nat \ {0} /\ MaxDeletions \in Nat
    /\ NoToken \notin Tokens /\ NoEmail \notin Emails

VARIABLES
    \* the table invites
    exists, maxUses, usedCount, usedBy, revoked, expired,
    \* the addresses in the table users
    accounts,
    \* the registrations in progress
    pc, token, email,
    \* how many accounts each invite has made
    made,
    deletions

inviteVars == <<exists, maxUses, usedCount, usedBy, revoked, expired>>
requestVars == <<pc, token, email>>
vars == <<inviteVars, accounts, requestVars, made, deletions>>

Init ==
    /\ exists = [i \in Tokens |-> FALSE]
    /\ maxUses = [i \in Tokens |-> 1]
    /\ usedCount = [i \in Tokens |-> 0]
    /\ usedBy = [i \in Tokens |-> NoEmail]
    /\ revoked = [i \in Tokens |-> FALSE]
    /\ expired = [i \in Tokens |-> FALSE]
    /\ accounts = Founders
    /\ pc = [r \in Registrations |-> "new"]
    /\ token = [r \in Registrations |-> NoToken]
    /\ email = [r \in Registrations |-> NoEmail]
    /\ made = [i \in Tokens |-> 0]
    /\ deletions = 0

-----------------------------------------------------------------------------
\* Mutant: no upper limit.
AtLeastOne(n) == IF n < 1 THEN 1 ELSE n

\* max(1, min(max_uses, MAX_USES_LIMIT))
Clamp(n) == IF n < 1 THEN 1 ELSE IF n > UsesLimit THEN UsesLimit ELSE n

\* invite_create()
Create(i, n) ==
    /\ ~exists[i]
    /\ exists' = [exists EXCEPT ![i] = TRUE]
    /\ maxUses' = [maxUses EXCEPT ![i] = Clamp(n)]
    /\ UNCHANGED <<usedCount, usedBy, revoked, expired, accounts, requestVars, made,
                   deletions>>

\* invite_revoke(), of an invite in any state.
Revoke(i) ==
    /\ exists[i]
    /\ revoked' = [revoked EXCEPT ![i] = TRUE]
    /\ UNCHANGED <<exists, maxUses, usedCount, usedBy, expired, accounts, requestVars,
                   made, deletions>>

\* expires_at passes.
Expire(i) ==
    /\ exists[i] /\ ~expired[i]
    /\ expired' = [expired EXCEPT ![i] = TRUE]
    /\ UNCHANGED <<exists, maxUses, usedCount, usedBy, revoked, accounts, requestVars,
                   made, deletions>>

-----------------------------------------------------------------------------
(* register_post() *)

Usable(i) == exists[i] /\ ~revoked[i] /\ usedCount[i] < maxUses[i] /\ ~expired[i]

\* The SELECT of the invite, for a friendly answer.
CheckInvite(r, i, e) ==
    /\ pc[r] = "new"
    /\ pc' = [pc EXCEPT ![r] = IF Usable(i) THEN "invited" ELSE "refused"]
    /\ token' = [token EXCEPT ![r] = i]
    /\ email' = [email EXCEPT ![r] = e]
    /\ UNCHANGED <<inviteVars, accounts, made, deletions>>

\* The SELECT of the address, and the password policy.
CheckEmail(r) ==
    /\ pc[r] = "invited"
    /\ \E goodPassword \in BOOLEAN :
         pc' = [pc EXCEPT ![r] = IF email[r] \notin accounts /\ goodPassword
                                  THEN "checked" ELSE "refused"]
    /\ UNCHANGED <<inviteVars, accounts, token, email, made, deletions>>

\* Mutants: the count, or the revocation, is left to the check made before.
ClaimableByCheck(i) == ~revoked[i]
ClaimableIfRevoked(i) == usedCount[i] < maxUses[i]

\* WHERE id = ? AND used_count < max_uses AND revoked_at IS NULL
Claimable(i) == usedCount[i] < maxUses[i] /\ ~revoked[i]

\* Mutant: the claim is committed before the account is inserted.
ClaimApart(r) ==
    LET i == token[r]  e == email[r]  free == e \notin accounts IN
    /\ pc[r] = "checked"
    /\ Claimable(i)
    /\ usedCount' = [usedCount EXCEPT ![i] = @ + 1]
    /\ accounts' = accounts \cup {e}
    /\ made' = [made EXCEPT ![i] = @ + IF free THEN 1 ELSE 0]
    /\ pc' = [pc EXCEPT ![r] = IF free THEN "registered" ELSE "refused"]
    /\ UNCHANGED <<exists, maxUses, usedBy, revoked, expired, token, email, deletions>>

\* One transaction: claim a use, insert the account, note who used the invite.
\* An address taken meanwhile breaks UNIQUE(email) and rolls the claim back.
Register(r) ==
    LET i == token[r]  e == email[r] IN
    /\ pc[r] = "checked"
    /\ IF Claimable(i) /\ e \notin accounts
         THEN /\ usedCount' = [usedCount EXCEPT ![i] = @ + 1]
              /\ accounts' = accounts \cup {e}
              /\ usedBy' = [usedBy EXCEPT ![i] = e]
              /\ made' = [made EXCEPT ![i] = @ + 1]
              /\ pc' = [pc EXCEPT ![r] = "registered"]
         ELSE /\ pc' = [pc EXCEPT ![r] = "refused"]
              /\ UNCHANGED <<usedCount, accounts, usedBy, made>>
    /\ UNCHANGED <<exists, maxUses, revoked, expired, token, email, deletions>>

\* delete_user(): the address is free again; used_by is ON DELETE SET NULL.
DeleteAccount(e) ==
    /\ e \in accounts \ Founders /\ deletions < MaxDeletions
    /\ accounts' = accounts \ {e}
    /\ usedBy' = [i \in Tokens |-> IF usedBy[i] = e THEN NoEmail ELSE usedBy[i]]
    /\ deletions' = deletions + 1
    /\ UNCHANGED <<exists, maxUses, usedCount, revoked, expired, requestVars, made>>

-----------------------------------------------------------------------------
Next ==
    \/ \E i \in Tokens : \/ \E n \in Requested : Create(i, n)
                         \/ Revoke(i) \/ Expire(i)
    \/ \E r \in Registrations :
          \/ \E i \in Tokens, e \in Emails : CheckInvite(r, i, e)
          \/ CheckEmail(r) \/ Register(r)
    \/ \E e \in Emails : DeleteAccount(e)

Spec == Init /\ [][Next]_vars

-----------------------------------------------------------------------------
\* Every variable stays within its domain.
TypeOK ==
    /\ exists \in [Tokens -> BOOLEAN] /\ revoked \in [Tokens -> BOOLEAN]
    /\ expired \in [Tokens -> BOOLEAN]
    /\ maxUses \in [Tokens -> 1..UsesLimit] /\ usedCount \in [Tokens -> Nat]
    /\ usedBy \in [Tokens -> Emails \cup {NoEmail}]
    /\ accounts \subseteq Emails
    /\ pc \in [Registrations -> {"new", "invited", "checked", "registered", "refused"}]
    /\ token \in [Registrations -> Tokens \cup {NoToken}]
    /\ email \in [Registrations -> Emails \cup {NoEmail}]
    /\ made \in [Tokens -> Nat]
    /\ deletions \in 0..MaxDeletions

\* An invite never makes more accounts than it has uses, however many
\* registrations passed the check with the same last use.
WithinMaxUses == \A i \in Tokens : made[i] <= maxUses[i]

\* The count of the invite is the number of accounts it made: no use is lost to
\* a registration that failed, and none is free.
UsesAreAccounts == \A i \in Tokens : usedCount[i] = made[i]

\* No account is made with an invite that is revoked, even by a registration
\* that was let in before the revocation.
RevocationHolds == \A i \in Tokens : revoked[i] => made'[i] = made[i]
NoneJoinsRevoked == [][RevocationHolds]_vars
=============================================================================
