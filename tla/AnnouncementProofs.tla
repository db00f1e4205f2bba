------------------------- MODULE AnnouncementProofs -------------------------
(***************************************************************************)
(* Announcements are made once, to everyone, and are not missed: proofs    *)
(* for any number of videos, members, transcodes, edits and kills.         *)
(***************************************************************************)
EXTENDS Announcement, TLAPS

\* Only members who may leave a preference are ever unsubscribed.
SteadyStay == \A u \in Members \ Fickle : subscribed[u]

\* A row is queued only under the claim, and once.
RowsUnderClaim ==
    \A v \in Videos, u \in Members : mails[v][u] <= IF notified[v] THEN 1 ELSE 0

\* A task that sees to the tokens has every steady member among its recipients,
\* and a token for each recipient it is through with who still exists.
TaskKnows(a) ==
    /\ pc[a] # "new" => video[a] \in Videos
    /\ pc[a] \in {"mint", "minting"} =>
        /\ \A u \in Members \ Fickle : exists[u] => u \in rcpts[a]
        /\ \A u \in rcpts[a] \ todo[a] : exists[u] => tokens[a][u] # NoToken

IInv == /\ TypeOK /\ SteadyStay /\ RowsUnderClaim
        /\ \A a \in Announcers : TaskKnows(a)
        /\ EveryoneIsTold /\ NoEmptyLink

LEMMA IInvInit == Init => IInv
  BY AnnouncementAssumption
  DEF Init, IInv, TypeOK, SteadyStay, RowsUnderClaim, TaskKnows, EveryoneIsTold,
      NoEmptyLink, Members, Announcers, Pcs

-----------------------------------------------------------------------------
\* A step that leaves the announcements alone, and of the tasks moves only a.
Quiet(a) ==
    /\ UNCHANGED <<notified, exists, subscribed, mailVars>>
    /\ \A b \in Announcers \ {a} :
        /\ pc'[b] = pc[b] /\ video'[b] = video[b]
        /\ rcpts'[b] = rcpts[b] /\ todo'[b] = todo[b] /\ tokens'[b] = tokens[b]

LEMMA QuietStep ==
  ASSUME IInv, TypeOK', NEW a \in Announcers, Quiet(a), TaskKnows(a)'
  PROVE  IInv'
<1>1. SteadyStay' /\ RowsUnderClaim' /\ EveryoneIsTold' /\ NoEmptyLink'
  BY DEF IInv, Quiet, mailVars, SteadyStay, RowsUnderClaim, EveryoneIsTold, NoEmptyLink
<1>2. ASSUME NEW b \in Announcers, b # a PROVE TaskKnows(b)'
  BY <1>2 DEF IInv, Quiet, TaskKnows
<1> QED
  BY <1>1, <1>2 DEF IInv

\* The steps of a transcode, an edit, and a kill.
LEMMA SourceStep ==
  ASSUME IInv, NEW a \in Announcers,
         \/ a \in Runs /\
               ((\E v \in Videos : BeginRun(a, v)) \/ EndRun(a) \/ ReadStatus(a))
         \/ a \in Edits /\ ((\E v \in Videos : EditRead(a, v)) \/ EditWrite(a))
         \/ Kill(a) \/ ReadVideo(a)
  PROVE  IInv'
<1> USE DEF IInv, TypeOK, Goto, Pcs, memberVars, mailVars, videoVars, localVars
<1>1. CASE \E v \in Videos : BeginRun(a, v)
  <2> PICK v \in Videos : BeginRun(a, v)
    BY <1>1
  <2>1. TypeOK'
    BY DEF BeginRun
  <2>2. Quiet(a) /\ TaskKnows(a)'
    BY DEF BeginRun, Quiet, TaskKnows
  <2> QED
    BY <2>1, <2>2, QuietStep
<1>2. CASE EndRun(a)
  <2>1. TypeOK'
    BY <1>2 DEF EndRun
  <2>2. Quiet(a) /\ TaskKnows(a)'
    BY <1>2 DEF EndRun, Quiet, TaskKnows
  <2> QED
    BY <2>1, <2>2, QuietStep
<1>3. CASE \E v \in Videos : EditRead(a, v)
  <2> PICK v \in Videos : EditRead(a, v)
    BY <1>3
  <2>1. TypeOK'
    BY DEF EditRead
  <2>2. Quiet(a) /\ TaskKnows(a)'
    BY DEF EditRead, Quiet, TaskKnows
  <2> QED
    BY <2>1, <2>2, QuietStep
<1>4. CASE EditWrite(a)
  <2>1. TypeOK'
    BY <1>4 DEF EditWrite
  <2>2. Quiet(a) /\ TaskKnows(a)'
    BY <1>4 DEF EditWrite, Quiet, TaskKnows
  <2> QED
    BY <2>1, <2>2, QuietStep
<1>5. CASE Kill(a)
  <2>1. TypeOK'
    BY <1>5, AnnouncementAssumption DEF Kill
  <2>2. Quiet(a) /\ TaskKnows(a)'
    BY <1>5 DEF Kill, Quiet, TaskKnows
  <2> QED
    BY <2>1, <2>2, QuietStep
<1>6. CASE ReadVideo(a)
  <2>1. TypeOK'
    BY <1>6 DEF ReadVideo
  <2>2. Quiet(a) /\ TaskKnows(a)'
    BY <1>6 DEF ReadVideo, Quiet, TaskKnows
  <2> QED
    BY <2>1, <2>2, QuietStep
<1>7. CASE ReadStatus(a)
  <2>1. TypeOK'
    BY <1>7 DEF ReadStatus
  <2>2. Quiet(a) /\ TaskKnows(a)'
    BY <1>7 DEF ReadStatus, Quiet, TaskKnows
  <2> QED
    BY <2>1, <2>2, QuietStep
<1> QED
  BY <1>1, <1>2, <1>3, <1>4, <1>5, <1>6, <1>7

\* The steps that read members and tokens.
LEMMA TokenStep ==
  ASSUME IInv, NEW a \in Announcers, ReadMembers(a) \/ ReadToken(a) \/ MintToken(a)
  PROVE  IInv'
<1> USE DEF IInv, TypeOK, Goto, Pcs, memberVars, mailVars, videoVars
<1>1. CASE ReadMembers(a)
  <2>1. TypeOK'
    BY <1>1 DEF ReadMembers, Subscribers
  <2>2. Quiet(a) /\ TaskKnows(a)'
    BY <1>1 DEF ReadMembers, Subscribers, Quiet, TaskKnows, SteadyStay
  <2> QED
    BY <2>1, <2>2, QuietStep
<1>2. CASE ReadToken(a)
  <2> PICK u \in todo[a] :
        /\ pc[a] = "mint"
        /\ IF exists[u] /\ token[u] = NoToken
             THEN Goto(a, "minting") /\ UNCHANGED <<todo, tokens>>
             ELSE /\ tokens' = [tokens EXCEPT ![a][u] = token[u]]
                  /\ todo' = [todo EXCEPT ![a] = @ \ {u}]
                  /\ UNCHANGED pc
    BY <1>2 DEF ReadToken
  <2>0. u \in Members
    OBVIOUS
  <2>1. TypeOK'
    <3>1. UNCHANGED <<videoVars, memberVars, mailVars, video, seen, target, rcpts, kills>>
      BY <1>2 DEF ReadToken
    <3>2. CASE exists[u] /\ token[u] = NoToken
      BY <3>1, <3>2
    <3>3. CASE ~(exists[u] /\ token[u] = NoToken)
      <4>1. tokens' = [tokens EXCEPT ![a][u] = token[u]] /\ UNCHANGED pc
            /\ todo' = [todo EXCEPT ![a] = @ \ {u}]
        BY <3>3
      <4>2. token[u] \in Announcers \cup {NoToken}
        BY <2>0
      <4>3. tokens' \in [Announcers -> [Members -> Announcers \cup {NoToken}]]
        BY <2>0, <4>1, <4>2
      <4>4. todo' \in [Announcers -> SUBSET Members]
        BY <4>1
      <4> QED
        BY <3>1, <4>1, <4>3, <4>4
    <3> QED
      BY <3>2, <3>3
  <2>2. Quiet(a)
    BY <1>2, <2>0 DEF ReadToken, Quiet
  <2>3. TaskKnows(a)'
    BY <1>2, <2>0 DEF ReadToken, TaskKnows
  <2> QED
    BY <2>1, <2>2, <2>3, QuietStep
<1>3. CASE MintToken(a)
  <2> PICK u \in todo[a] :
        /\ token' = IF exists[u] THEN [token EXCEPT ![u] = a] ELSE token
        /\ tokens' = [tokens EXCEPT ![a][u] = a]
        /\ todo' = [todo EXCEPT ![a] = @ \ {u}]
    BY <1>3 DEF MintToken
  <2>1. TypeOK' /\ u \in Members
    BY <1>3 DEF MintToken
  <2>2. Quiet(a)
    BY <1>3, <2>1 DEF MintToken, Quiet
  <2>3. TaskKnows(a)'
    BY <1>3, <2>1, AnnouncementAssumption DEF MintToken, TaskKnows
  <2> QED
    BY <2>1, <2>2, <2>3, QuietStep
<1> QED
  BY <1>1, <1>2, <1>3

\* The transaction.
LEMMA ClaimStep ==
  ASSUME IInv, NEW a \in Announcers, Claim(a)
  PROVE  IInv'
<1> USE DEF IInv, TypeOK, Goto, Pcs, memberVars, mailVars, localVars
<1>1. video[a] \in Videos /\ pc[a] = "mint" /\ todo[a] = {}
  BY DEF Claim, TaskKnows
<1>2. CASE ~notified[video[a]] /\ AllThere(a)
  <2> DEFINE v == video[a]
  <2>1. /\ mails' = [mails EXCEPT ![v] =
             [u \in Members |-> IF u \in rcpts[a] THEN @[u] + 1 ELSE @[u]]]
        /\ link' = [link EXCEPT ![v] =
             [u \in Members |-> IF u \in rcpts[a] THEN tokens[a][u] ELSE @[u]]]
        /\ notified' = [notified EXCEPT ![v] = TRUE]
    BY <1>2 DEF Claim, FanOut
  <2>2. mails' \in [Videos -> [Members -> Nat]]
    BY <1>1, <2>1
  <2>3. link' \in [Videos -> [Members -> Announcers \cup {NoToken}]]
    BY <1>1, <2>1
  <2>4. TypeOK'
    BY <2>1, <2>2, <2>3 DEF Claim
  <2>5. RowsUnderClaim'
    BY <1>1, <1>2, <2>1 DEF RowsUnderClaim
  <2>6. \A u \in rcpts[a] : tokens[a][u] # NoToken
    BY <1>1, <1>2 DEF TaskKnows, AllThere
  <2>7. NoEmptyLink'
    BY <1>1, <2>1, <2>6 DEF NoEmptyLink
  <2>8. \A u \in Members : mails[v][u] = 0
    BY <1>1, <1>2 DEF RowsUnderClaim
  <2>9. EveryoneIsTold'
    BY <1>1, <2>1, <2>8 DEF EveryoneIsTold, TaskKnows, Claim
  <2>10. SteadyStay' /\ \A b \in Announcers : TaskKnows(b)'
    BY DEF Claim, SteadyStay, TaskKnows
  <2> QED
    BY <2>4, <2>5, <2>7, <2>9, <2>10
<1>3. CASE ~(~notified[video[a]] /\ AllThere(a))
  <2>1. UNCHANGED <<mails, link, notified>>
    BY <1>3 DEF Claim
  <2>2. TypeOK' /\ Quiet(a) /\ TaskKnows(a)'
    BY <2>1 DEF Claim, Quiet, TaskKnows
  <2> QED
    BY <2>2, QuietStep
<1> QED
  BY <1>2, <1>3

LEMMA MemberStep ==
  ASSUME IInv, NEW n \in Members, ChangePreference(n) \/ DeleteMember(n)
  PROVE  IInv'
<1> USE DEF IInv, TypeOK, SteadyStay, RowsUnderClaim, TaskKnows, EveryoneIsTold,
            NoEmptyLink, videoVars, mailVars, localVars
<1>1. CASE ChangePreference(n)
  BY <1>1 DEF ChangePreference
<1>2. CASE DeleteMember(n)
  BY <1>2 DEF DeleteMember
<1> QED
  BY <1>1, <1>2

LEMMA IInvStep == IInv /\ [Next]_vars => IInv'
<1> SUFFICES ASSUME IInv, [Next]_vars PROVE IInv'
  OBVIOUS
<1>1. CASE Next
  BY <1>1, SourceStep, TokenStep, ClaimStep, MemberStep DEF Next, Announce, Announcers
<1>2. CASE UNCHANGED vars
  BY <1>2 DEF vars, videoVars, memberVars, mailVars, localVars, IInv, TypeOK, SteadyStay,
              RowsUnderClaim, TaskKnows, EveryoneIsTold, NoEmptyLink
<1> QED
  BY <1>1, <1>2

\* Whatever is retried, killed or deleted: a member never gets two announcements of
\* a video, every member who stays subscribed gets the one there is, and it
\* carries a token.
THEOREM AnnouncementsAreSound ==
  Spec => [](TypeOK /\ AnnouncedOnce /\ EveryoneIsTold /\ NoEmptyLink)
<1>1. ASSUME TypeOK, RowsUnderClaim, NEW v \in Videos, NEW u \in Members
      PROVE  mails[v][u] <= 1
  <2>1. mails[v][u] \in Nat /\ mails[v][u] <= IF notified[v] THEN 1 ELSE 0
    BY <1>1 DEF TypeOK, RowsUnderClaim
  <2>2. CASE notified[v]
    BY <2>1, <2>2
  <2>3. CASE ~notified[v]
    BY <2>1, <2>3
  <2> QED
    BY <2>2, <2>3
<1>2. IInv => TypeOK /\ AnnouncedOnce /\ EveryoneIsTold /\ NoEmptyLink
  BY <1>1 DEF IInv, AnnouncedOnce
<1> QED
  BY <1>2, IInvInit, IInvStep, PTL DEF Spec

\* Every variable of the announcement keeps its domain.
THEOREM TypeCorrect == Spec => []TypeOK
  BY AnnouncementsAreSound, PTL

\* queue_new_video_notifications() claims notified_at and queues the mails in one
\* transaction: no kill and no other run leaves a member who stays subscribed out.
THEOREM NobodyIsForgotten == Spec => []EveryoneIsTold
  BY AnnouncementsAreSound, PTL

-----------------------------------------------------------------------------
\* A token that a task found or minted is the member's, until it is overwritten.
TokensHold ==
    \A a \in Announcers : pc[a] \in {"mint", "minting"} =>
        \A u \in rcpts[a] \ (todo[a] \cup replaced) : exists[u] => tokens[a][u] = token[u]

\* A step that leaves tokens, mails and members alone, and in which only a task
\* that is not yet, or no longer, at the tokens moves.
LEMMA LinksQuiet ==
  ASSUME TokensHold, LinksWork, UNCHANGED <<memberVars, mailVars, tokens>>,
         NEW a \in Announcers,
         \A b \in Announcers \ {a} : /\ pc'[b] = pc[b] /\ rcpts'[b] = rcpts[b]
                                     /\ todo'[b] = todo[b],
         pc'[a] \in {"mint", "minting"} =>
             \/ rcpts'[a] \subseteq todo'[a]
             \/ /\ pc[a] \in {"mint", "minting"}
                /\ rcpts'[a] = rcpts[a] /\ todo'[a] = todo[a]
  PROVE  (TokensHold /\ LinksWork)'
<1>1. LinksWork'
  BY DEF LinksWork, memberVars, mailVars
<1>2. ASSUME NEW b \in Announcers, pc'[b] \in {"mint", "minting"},
             NEW u \in rcpts'[b] \ (todo'[b] \cup replaced'), exists'[u]
      PROVE  tokens'[b][u] = token'[u]
  BY <1>2 DEF TokensHold, memberVars
<1> QED
  BY <1>1, <1>2 DEF TokensHold

LEMMA LinksToken ==
  ASSUME IInv, TokensHold, LinksWork, NEW a \in Announcers, ReadToken(a) \/ MintToken(a)
  PROVE  (TokensHold /\ LinksWork)'
<1> USE DEF IInv, TypeOK, Goto
<1>1. CASE ReadToken(a)
  <2>1. PICK u \in todo[a] :
          IF exists[u] /\ token[u] = NoToken
            THEN Goto(a, "minting") /\ UNCHANGED <<todo, tokens>>
            ELSE /\ tokens' = [tokens EXCEPT ![a][u] = token[u]]
                 /\ todo' = [todo EXCEPT ![a] = @ \ {u}]
                 /\ UNCHANGED pc
    BY <1>1 DEF ReadToken
  <2>2. UNCHANGED <<memberVars, mailVars, rcpts>> /\ pc[a] = "mint" /\ u \in Members
    BY <1>1 DEF ReadToken
  <2>3. CASE exists[u] /\ token[u] = NoToken
    BY <2>1, <2>2, <2>3, LinksQuiet
  <2>4. CASE ~(exists[u] /\ token[u] = NoToken)
    <3>1. LinksWork'
      BY <2>2 DEF LinksWork, memberVars, mailVars
    <3>2. ASSUME NEW b \in Announcers, pc'[b] \in {"mint", "minting"},
                 NEW n \in rcpts'[b] \ (todo'[b] \cup replaced'), exists'[n]
          PROVE  tokens'[b][n] = token'[n]
      <4>1. n \in Members /\ pc[b] \in {"mint", "minting"} /\ rcpts'[b] = rcpts[b]
        BY <2>1, <2>2, <2>4, <3>2
      <4>2. CASE b = a /\ n = u
        BY <2>1, <2>2, <2>4, <4>2 DEF memberVars
      <4>3. CASE ~(b = a /\ n = u)
        <5>1. tokens'[b][n] = tokens[b][n] /\ n \notin todo[b]
          BY <2>1, <2>4, <3>2, <4>1, <4>3
        <5> QED
          BY <2>2, <3>2, <4>1, <5>1 DEF TokensHold, memberVars
      <4> QED
        BY <4>2, <4>3
    <3> QED
      BY <3>1, <3>2 DEF TokensHold
  <2> QED
    BY <2>3, <2>4
<1>2. CASE MintToken(a)
  <2>1. PICK u \in todo[a] :
          /\ token' = IF exists[u] THEN [token EXCEPT ![u] = a] ELSE token
          /\ replaced' = IF token[u] # NoToken THEN replaced \cup {u} ELSE replaced
          /\ tokens' = [tokens EXCEPT ![a][u] = a]
          /\ todo' = [todo EXCEPT ![a] = @ \ {u}]
    BY <1>2 DEF MintToken
  <2>2. /\ UNCHANGED <<exists, mailVars, rcpts>>
        /\ pc[a] = "minting" /\ pc' = [pc EXCEPT ![a] = "mint"] /\ u \in Members
    BY <1>2 DEF MintToken
  <2>3. LinksWork'
    <3> SUFFICES ASSUME NEW v \in Videos, NEW n \in Members \ replaced',
                        mails[v][n] > 0, exists[n]
                 PROVE  link[v][n] = token'[n]
      BY <2>2 DEF LinksWork, mailVars
    <3>1. link[v][n] = token[n] /\ link[v][n] # NoToken
      BY <2>1 DEF LinksWork, NoEmptyLink
    <3>2. n # u
      BY <2>1, <3>1
    <3> QED
      BY <2>1, <2>2, <3>1, <3>2
  <2>4. ASSUME NEW b \in Announcers, pc'[b] \in {"mint", "minting"},
               NEW n \in rcpts'[b] \ (todo'[b] \cup replaced'), exists'[n]
        PROVE  tokens'[b][n] = token'[n]
    <3>1. n \in Members /\ pc[b] \in {"mint", "minting"} /\ rcpts'[b] = rcpts[b]
          /\ n \notin replaced /\ exists[n]
      BY <2>1, <2>2, <2>4
    <3>2. CASE b = a /\ n = u
      BY <2>1, <2>2, <3>1, <3>2
    <3>3. CASE b = a /\ n # u
      BY <2>1, <2>2, <2>4, <3>1, <3>3 DEF TokensHold
    <3>4. CASE b # a
      <4>1. tokens'[b] = tokens[b] /\ n \in rcpts[b] \ todo[b]
        BY <2>1, <2>4, <3>1, <3>4
      <4>2. tokens[b][n] = token[n] /\ tokens[b][n] # NoToken
        BY <3>1, <4>1 DEF TokensHold, TaskKnows
      <4>3. n # u
        BY <2>1, <2>4, <4>2
      <4> QED
        BY <2>1, <2>2, <4>1, <4>2, <4>3
    <3> QED
      BY <3>2, <3>3, <3>4
  <2> QED
    BY <2>3, <2>4 DEF TokensHold
<1> QED
  BY <1>1, <1>2

LEMMA LinksClaim ==
  ASSUME IInv, TokensHold, LinksWork, NEW a \in Announcers, Claim(a)
  PROVE  (TokensHold /\ LinksWork)'
<1> USE DEF IInv, TypeOK, Goto
<1>1. /\ UNCHANGED <<memberVars, localVars>> /\ pc' = [pc EXCEPT ![a] = "done"]
      /\ pc[a] = "mint" /\ todo[a] = {} /\ video[a] \in Videos
  BY DEF Claim, TaskKnows
<1>2. TokensHold'
  BY <1>1 DEF TokensHold, memberVars, localVars
<1>3. CASE ~notified[video[a]] /\ AllThere(a)
  <2>1. mails' = [mails EXCEPT ![video[a]] =
           [u \in Members |-> IF u \in rcpts[a] THEN @[u] + 1 ELSE @[u]]]
        /\ link' = [link EXCEPT ![video[a]] =
           [u \in Members |-> IF u \in rcpts[a] THEN tokens[a][u] ELSE @[u]]]
    BY <1>3 DEF Claim, FanOut
  <2>2. \A u \in rcpts[a] \ replaced : exists[u] => tokens[a][u] = token[u]
    BY <1>1 DEF TokensHold
  <2>3. LinksWork'
    <3> SUFFICES ASSUME NEW v \in Videos, NEW u \in Members \ replaced,
                        mails'[v][u] > 0, exists[u]
                 PROVE  link'[v][u] = token[u]
      BY <1>1 DEF LinksWork, memberVars
    <3>1. CASE v = video[a] /\ u \in rcpts[a]
      BY <1>1, <2>1, <2>2, <3>1
    <3>2. CASE ~(v = video[a] /\ u \in rcpts[a])
      <4>1. mails'[v][u] = mails[v][u] /\ link'[v][u] = link[v][u]
        BY <1>1, <2>1, <3>2
      <4> QED
        BY <4>1 DEF LinksWork
    <3> QED
      BY <3>1, <3>2
  <2> QED
    BY <1>2, <2>3
<1>4. CASE ~(~notified[video[a]] /\ AllThere(a))
  <2>1. UNCHANGED mailVars
    BY <1>4 DEF Claim
  <2> QED
    BY <1>1, <1>2, <2>1 DEF LinksWork, memberVars, mailVars
<1> QED
  BY <1>3, <1>4

LEMMA LinksStep == IInv /\ TokensHold /\ LinksWork /\ [Next]_vars => (TokensHold /\ LinksWork)'
<1> SUFFICES ASSUME IInv, TokensHold, LinksWork, [Next]_vars
             PROVE  (TokensHold /\ LinksWork)'
  OBVIOUS
<1> USE DEF IInv, TypeOK, Goto
<1>1. ASSUME NEW a \in Announcers,
             \/ a \in Runs /\
                   ((\E v \in Videos : BeginRun(a, v)) \/ EndRun(a) \/ ReadStatus(a))
             \/ a \in Edits /\ ((\E v \in Videos : EditRead(a, v)) \/ EditWrite(a))
             \/ Kill(a) \/ ReadVideo(a)
      PROVE  (TokensHold /\ LinksWork)'
  <2>1. UNCHANGED <<memberVars, mailVars, tokens, rcpts, todo>>
    BY <1>1 DEF BeginRun, EndRun, ReadStatus, EditRead, EditWrite, Kill, ReadVideo, localVars
  <2>2. /\ \A b \in Announcers \ {a} : pc'[b] = pc[b]
        /\ pc'[a] \notin {"mint", "minting"}
    BY <1>1 DEF BeginRun, EndRun, ReadStatus, EditRead, EditWrite, Kill, ReadVideo
  <2> QED
    BY <2>1, <2>2, LinksQuiet
<1>2. ASSUME NEW a \in Announcers, ReadMembers(a) PROVE (TokensHold /\ LinksWork)'
  <2>1. /\ UNCHANGED <<memberVars, mailVars, tokens>>
        /\ rcpts'[a] = todo'[a]
        /\ \A b \in Announcers \ {a} : /\ pc'[b] = pc[b] /\ rcpts'[b] = rcpts[b]
                                       /\ todo'[b] = todo[b]
    BY <1>2 DEF ReadMembers
  <2> QED
    BY <2>1, LinksQuiet
<1>3. ASSUME NEW n \in Members, ChangePreference(n) \/ DeleteMember(n)
      PROVE  (TokensHold /\ LinksWork)'
  <2>1. /\ UNCHANGED <<pc, localVars, mailVars, replaced>>
        /\ \A u \in Members : exists'[u] => exists[u] /\ token'[u] = token[u]
    BY <1>3 DEF ChangePreference, DeleteMember
  <2> QED
    BY <2>1 DEF TokensHold, LinksWork, localVars, mailVars
<1>4. CASE UNCHANGED vars
  BY <1>4 DEF vars, memberVars, mailVars, localVars, TokensHold, LinksWork
<1> QED
  BY <1>1, <1>2, <1>3, <1>4, LinksToken, LinksClaim DEF Next, Announce, Announcers

\* The link of every announcement still works for a member whose token no second
\* announcer overwrote, for any number of videos, members, announcers and kills.
THEOREM LinksKeepWorking == Spec => []LinksWork
<1>1. Init => TokensHold /\ LinksWork
  BY DEF Init, TokensHold, LinksWork
<1>2. IInv /\ TokensHold /\ LinksWork /\ [Next]_vars => (TokensHold /\ LinksWork)'
  BY LinksStep
<1> QED
  BY <1>1, <1>2, IInvInit, IInvStep, PTL DEF Spec

-----------------------------------------------------------------------------
\* No two edits of one video are between their SELECT and their UPDATE at once:
\* edits may follow each other, in any number, but do not overlap.
EditsApart ==
    \A e, f \in Edits :
        pc[e] = "write" /\ pc[f] = "write" /\ video[e] = video[f] => e = f

\* Then what an edit has read is what it will replace.
ReadIsReplaced ==
    \A e \in Edits : pc[e] = "write" => seen[e] = visible[video[e]]

LEMMA MissedSource ==
  ASSUME EditsApart, IInv, ReadIsReplaced, NobodyMissed, NEW a \in Announcers,
         \/ a \in Runs /\
               ((\E v \in Videos : BeginRun(a, v)) \/ EndRun(a) \/ ReadStatus(a))
         \/ a \in Edits /\ ((\E v \in Videos : EditRead(a, v)) \/ EditWrite(a))
  PROVE  (ReadIsReplaced /\ NobodyMissed)'
<1> USE AnnouncementAssumption
    DEF IInv, TypeOK, Goto, memberVars, mailVars, Announcers, localVars
<1>1. CASE a \in Runs /\ \E v \in Videos : BeginRun(a, v)
  <2> PICK v \in Videos : BeginRun(a, v)
    BY <1>1
  <2>1. ReadIsReplaced'
    BY <1>1 DEF BeginRun, ReadIsReplaced
  <2>2. \A b \in Announcers \ {a} : pc'[b] = pc[b] /\ video'[b] = video[b]
    BY DEF BeginRun
  <2>3. ASSUME NEW w \in Videos, ready'[w], Announcing(w) PROVE Announcing(w)'
    BY <2>2, <2>3 DEF BeginRun, Announcing
  <2>4. NobodyMissed'
    BY <2>3 DEF BeginRun, NobodyMissed
  <2> QED
    BY <2>1, <2>4
<1>2. CASE a \in Runs /\ EndRun(a)
  <2>1. ReadIsReplaced'
    BY <1>2 DEF EndRun, ReadIsReplaced
  <2>2. \A w \in Videos : w = video[a] => Announcing(w)'
    BY <1>2 DEF EndRun, Announcing
  <2>3. \A w \in Videos : Announcing(w) => Announcing(w)'
    BY <1>2 DEF EndRun, Announcing
  <2>4. \A w \in Videos : w # video[a] => ready'[w] = ready[w]
    BY <1>2 DEF EndRun
  <2>5. UNCHANGED <<visible, notified, exists, kills>>
    BY <1>2 DEF EndRun
  <2>6. NobodyMissed'
    <3> SUFFICES ASSUME NEW w \in Videos, ready'[w], visible'[w], kills' = 0,
                        \A u \in Members : exists'[u]
                 PROVE  notified'[w] \/ Announcing(w)'
      BY DEF NobodyMissed
    <3>1. CASE w = video[a]
      BY <2>2, <3>1
    <3>2. CASE w # video[a]
      BY <2>3, <2>4, <2>5, <3>2 DEF NobodyMissed
    <3> QED
      BY <3>1, <3>2
  <2> QED
    BY <2>1, <2>6
<1>3. CASE a \in Edits /\ \E v \in Videos : EditRead(a, v)
  <2> PICK v \in Videos : EditRead(a, v)
    BY <1>3
  <2>1. ReadIsReplaced'
    BY <1>3 DEF EditRead, ReadIsReplaced, videoVars
  <2>2. \A b \in Announcers \ {a} : pc'[b] = pc[b] /\ video'[b] = video[b]
    BY DEF EditRead
  <2>3. UNCHANGED <<ready, visible, notified, exists, kills>> /\ pc[a] = "new"
    BY DEF EditRead, videoVars
  <2>4. ASSUME NEW w \in Videos, Announcing(w) PROVE Announcing(w)'
    <3>1. PICK b \in Announcers :
             /\ video[b] = w
             /\ pc[b] \in {"ended", "announce", "members", "mint", "minting"}
      BY <2>4 DEF Announcing
    <3>2. b # a
      BY <2>3, <3>1
    <3> QED
      BY <2>2, <3>1, <3>2 DEF Announcing
  <2>5. NobodyMissed'
    BY <2>3, <2>4 DEF NobodyMissed
  <2> QED
    BY <2>1, <2>5
<1>4. CASE a \in Edits /\ EditWrite(a)
  <2>1. ReadIsReplaced'
    <3> SUFFICES ASSUME NEW e \in Edits, pc'[e] = "write"
                 PROVE  seen'[e] = visible'[video'[e]]
      BY DEF ReadIsReplaced
    <3>1. e # a /\ pc[e] = "write" /\ pc[a] = "write"
      BY <1>4 DEF EditWrite
    <3>2. video[e] # video[a]
      BY <1>4, <3>1 DEF EditsApart
    <3> QED
      BY <1>4, <3>1, <3>2 DEF EditWrite, ReadIsReplaced
  <2>2. seen[a] = visible[video[a]] /\ video[a] \in Videos
    BY <1>4 DEF EditWrite, ReadIsReplaced, TaskKnows
  <2>3. \A w \in Videos : Announcing(w) => Announcing(w)'
    BY <1>4 DEF EditWrite, Announcing, Pcs
  <2>4. \A w \in Videos : visible'[w] => visible[w] \/ Announcing(w)'
    BY <1>4, <2>2 DEF EditWrite, Announcing
  <2>5. NobodyMissed'
    BY <1>4, <2>3, <2>4 DEF EditWrite, NobodyMissed
  <2> QED
    BY <2>1, <2>5
<1>5. CASE a \in Runs /\ ReadStatus(a)
  <2>1. ReadIsReplaced'
    BY <1>5 DEF ReadStatus, ReadIsReplaced, videoVars
  <2>2. \A w \in Videos : ready[w] /\ Announcing(w) => Announcing(w)'
    BY <1>5 DEF ReadStatus, Announcing, Pcs
  <2>3. NobodyMissed'
    BY <1>5, <2>2 DEF ReadStatus, NobodyMissed, videoVars
  <2> QED
    BY <2>1, <2>3
<1> QED
  BY <1>1, <1>2, <1>3, <1>4, <1>5

\* The steps of an announcement: whoever turns back found it announced, or
\* the video not ready or not visible.
LEMMA MissedAnnounce ==
  ASSUME IInv, ReadIsReplaced, NobodyMissed, NEW a \in Announcers, Announce(a) \/ Kill(a)
  PROVE  (ReadIsReplaced /\ NobodyMissed)'
<1> USE DEF IInv, TypeOK, Goto, memberVars, mailVars, videoVars, localVars
<1>1. pc[a] # "new" /\ video[a] \in Videos
  BY DEF Announce, ReadVideo, ReadMembers, ReadToken, MintToken, Claim, Kill, TaskKnows
<1>2. /\ UNCHANGED <<ready, visible, exists, video, seen>>
      /\ \A b \in Announcers \ {a} : pc'[b] = pc[b]
      /\ pc'[a] # "write"
  BY DEF Announce, ReadVideo, ReadMembers, ReadToken, MintToken, Claim, Kill
<1>3. ReadIsReplaced'
  BY <1>2 DEF ReadIsReplaced, Announcers
<1>4. \A w \in Videos : w # video[a] /\ Announcing(w) => Announcing(w)'
  BY <1>2 DEF Announcing
<1>5. \A w \in Videos : notified[w] => notified'[w]
  BY <1>1 DEF Announce, ReadVideo, ReadMembers, ReadToken, MintToken, Claim, Kill
<1>6. kills' = kills \/ kills' # 0
  BY DEF Announce, ReadVideo, ReadMembers, ReadToken, MintToken, Claim, Kill
<1>7. ASSUME ready[video[a]], visible[video[a]], kills' = 0, \A u \in Members : exists[u]
      PROVE  notified'[video[a]] \/ Announcing(video[a])'
  <2>1. CASE Kill(a)
    BY <1>7, <2>1 DEF Kill
  <2>2. CASE ReadVideo(a)
    BY <1>2, <1>7, <2>2 DEF ReadVideo, Announcing
  <2>3. CASE ReadMembers(a) \/ ReadToken(a) \/ MintToken(a)
    <3>1. pc'[a] \in {"mint", "minting"}
      BY <2>3 DEF ReadMembers, ReadToken, MintToken
    <3> QED
      BY <1>2, <3>1 DEF Announcing
  <2>4. CASE Claim(a)
    BY <1>1, <1>7, <2>4 DEF Claim, AllThere
  <2> QED
    BY <2>1, <2>2, <2>3, <2>4 DEF Announce
<1>8. NobodyMissed'
  BY <1>2, <1>4, <1>5, <1>6, <1>7 DEF NobodyMissed
<1> QED
  BY <1>3, <1>8

LEMMA MissedStep ==
  EditsApart /\ IInv /\ ReadIsReplaced /\ NobodyMissed /\ [Next]_vars
    => (ReadIsReplaced /\ NobodyMissed)'
<1> SUFFICES ASSUME EditsApart, IInv, ReadIsReplaced, NobodyMissed, [Next]_vars
             PROVE  (ReadIsReplaced /\ NobodyMissed)'
  OBVIOUS
<1>1. CASE \E r \in Runs :
              (\E v \in Videos : BeginRun(r, v)) \/ EndRun(r) \/ ReadStatus(r)
  BY <1>1, MissedSource DEF Announcers
<1>2. CASE \E e \in Edits : (\E v \in Videos : EditRead(e, v)) \/ EditWrite(e)
  BY <1>2, MissedSource DEF Announcers
<1>3. CASE \E a \in Announcers : Announce(a) \/ Kill(a)
  BY <1>3, MissedAnnounce
<1>4. CASE \E u \in Members : ChangePreference(u) \/ DeleteMember(u)
  <2>1. UNCHANGED <<ready, visible, notified, pc, video, seen, kills>>
    BY <1>4 DEF ChangePreference, DeleteMember, videoVars, localVars
  <2>2. \A u \in Members : exists'[u] => exists[u]
    BY <1>4 DEF ChangePreference, DeleteMember, IInv, TypeOK
  <2>3. ReadIsReplaced'
    BY <2>1 DEF ReadIsReplaced
  <2>4. \A v \in Videos : Announcing(v)' = Announcing(v)
    BY <2>1 DEF Announcing
  <2>5. NobodyMissed'
    BY <2>1, <2>2, <2>4 DEF NobodyMissed
  <2> QED
    BY <2>3, <2>5
<1>5. CASE UNCHANGED vars
  BY <1>5 DEF vars, videoVars, memberVars, localVars, ReadIsReplaced, NobodyMissed, Announcing
<1> QED
  BY <1>1, <1>2, <1>3, <1>4, <1>5 DEF Next

\* But for kills and deleted members, and as long as no two edits of a video
\* overlap, a video that is ready and visible is announced or being announced:
\* however often it is transcoded, published and hidden again, and whichever of
\* the transcode and the edit ends last.
THEOREM PublicationIsAnnounced == Spec /\ []EditsApart => []NobodyMissed
<1>1. Init => ReadIsReplaced /\ NobodyMissed
  BY DEF Init, ReadIsReplaced, NobodyMissed, Announcers
<1>2. EditsApart /\ IInv /\ ReadIsReplaced /\ NobodyMissed /\ [Next]_vars
        => (ReadIsReplaced /\ NobodyMissed)'
  BY MissedStep
<1> QED
  BY <1>1, <1>2, IInvInit, IInvStep, PTL DEF Spec
=============================================================================
