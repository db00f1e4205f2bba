---------------------------- MODULE Announcement ----------------------------
(***************************************************************************)
(* The announcement of a new video: queue_new_video_notifications() and    *)
(* unsubscribe_token() of app/notifications.py, as the transcode worker    *)
(* and edit_video() of app/videos.py call them.                            *)
(*                                                                         *)
(* A transcode that ends and an edit that publishes may announce the same  *)
(* video at the same time.  Each reads the video, then the members, then   *)
(* sees to a token for each member, and only then opens the transaction    *)
(* that claims the announcement and fills the mail queue.                  *)
(***************************************************************************)
EXTENDS Integers, FiniteSets

CONSTANTS
    Videos,
    MaxMembers,  \* the members that do not own the videos
    Fickle,      \* members who change their preference
    Leaving,     \* members whose account may be deleted
    Runs,        \* runs of the transcode of some video
    Edits,       \* POSTs of the edit form of some video
    NoToken,     \* notify_token IS NULL
    NoVideo,
    MaxKills     \* bound: tasks that are killed, or ended by a database error

Members == 1..MaxMembers
Announcers == Runs \cup Edits

ASSUME AnnouncementAssumption ==
    /\ MaxMembers \in Nat /\ MaxKills \in Nat
    /\ Fickle \subseteq Members /\ Leaving \subseteq Members
    /\ Runs \cap Edits = {} /\ NoToken \notin Announcers /\ NoVideo \notin Videos

VARIABLES
    \* status = 'ready', visibility = 'site', notified_at IS NOT NULL
    ready, visible, notified,
    \* the members: the row, notify_new_videos, notify_token
    exists, subscribed, token,
    \* the 'new_video' rows ever queued, and the token in the last one's body
    mails, link,
    \* the tasks: the video, what an edit read and will write, the recipients,
    \* those whose token is still to be seen to, the tokens found
    pc, video, seen, target, rcpts, todo, tokens,
    kills,
    replaced     \* history: members whose token was overwritten by another

videoVars == <<ready, visible, notified>>
memberVars == <<exists, subscribed, token, replaced>>
mailVars == <<mails, link>>
localVars == <<video, seen, target, rcpts, todo, tokens>>
vars == <<videoVars, memberVars, mailVars, pc, localVars, kills>>

Pcs == {"new", "transcoding", "ended", "write", "announce", "members", "mint",
        "minting", "done"}

Goto(a, where) == pc' = [pc EXCEPT ![a] = where]

\* Videos are uploaded for the site or as private ones.
Init ==
    /\ ready = [v \in Videos |-> FALSE]
    /\ visible \in [Videos -> BOOLEAN]
    /\ notified = [v \in Videos |-> FALSE]
    /\ exists = [u \in Members |-> TRUE]
    /\ subscribed = [u \in Members |-> TRUE]
    /\ token = [u \in Members |-> NoToken]
    /\ mails = [v \in Videos |-> [u \in Members |-> 0]]
    /\ link = [v \in Videos |-> [u \in Members |-> NoToken]]
    /\ pc = [a \in Announcers |-> "new"]
    /\ video = [a \in Announcers |-> NoVideo]
    /\ seen = [a \in Announcers |-> FALSE]
    /\ target = [a \in Announcers |-> FALSE]
    /\ rcpts = [a \in Announcers |-> {}]
    /\ todo = [a \in Announcers |-> {}]
    /\ tokens = [a \in Announcers |-> [u \in Members |-> NoToken]]
    /\ kills = 0 /\ replaced = {}

-----------------------------------------------------------------------------
(* What announces a video. *)

\* transcode_video(): status 'processing'; also when recovery or a retry runs
\* a video again.
BeginRun(r, v) ==
    /\ pc[r] = "new"
    /\ ready' = [ready EXCEPT ![v] = FALSE]
    /\ video' = [video EXCEPT ![r] = v]
    /\ Goto(r, "transcoding")
    /\ UNCHANGED <<visible, notified, memberVars, mailVars, seen, target, rcpts, todo,
                   tokens, kills>>

\* ... and 'ready' or 'failed'.
EndRun(r) ==
    /\ pc[r] = "transcoding"
    /\ \E ok \in BOOLEAN : ready' = [ready EXCEPT ![video[r]] = ok]
    /\ Goto(r, "ended")
    /\ UNCHANGED <<visible, notified, memberVars, mailVars, localVars, kills>>

\* _run_job() reads the status back, whoever wrote it, and announces a video
\* that is ready.
ReadStatus(r) ==
    /\ pc[r] = "ended"
    /\ Goto(r, IF ready[video[r]] THEN "announce" ELSE "done")
    /\ UNCHANGED <<videoVars, memberVars, mailVars, localVars, kills>>

\* Mutant: a form without the visibility field is not defaulted.
EditReadPartial(e, v) ==
    /\ pc[e] = "new"
    /\ video' = [video EXCEPT ![e] = v]
    /\ seen' = [seen EXCEPT ![e] = visible[v]]
    /\ target' = [target EXCEPT ![e] = NoVideo]
    /\ Goto(e, "write")
    /\ UNCHANGED <<videoVars, memberVars, mailVars, rcpts, todo, tokens, kills>>

\* edit_video(), the SELECT; a form that leaves the visibility alone writes
\* back the one that was read.
EditRead(e, v) ==
    /\ pc[e] = "new"
    /\ video' = [video EXCEPT ![e] = v]
    /\ seen' = [seen EXCEPT ![e] = visible[v]]
    /\ \E wanted \in BOOLEAN : target' = [target EXCEPT ![e] = wanted]
    /\ Goto(e, "write")
    /\ UNCHANGED <<videoVars, memberVars, mailVars, rcpts, todo, tokens, kills>>

\* Mutant: publishing leaves the announcement to the transcode.
EditQuietly(e) ==
    /\ pc[e] = "write"
    /\ visible' = [visible EXCEPT ![video[e]] = target[e]]
    /\ Goto(e, "done")
    /\ UNCHANGED <<ready, notified, memberVars, mailVars, localVars, kills>>

\* edit_video(), the UPDATE; an edit that publishes announces.
EditWrite(e) ==
    /\ pc[e] = "write"
    /\ visible' = [visible EXCEPT ![video[e]] = target[e]]
    /\ Goto(e, IF target[e] /\ ~seen[e] THEN "announce" ELSE "done")
    /\ UNCHANGED <<ready, notified, memberVars, mailVars, localVars, kills>>

-----------------------------------------------------------------------------
(* queue_new_video_notifications() *)

ReadVideo(a) ==
    LET v == video[a] IN
    /\ pc[a] = "announce"
    /\ Goto(a, IF ready[v] /\ visible[v] /\ ~notified[v] THEN "members" ELSE "done")
    /\ UNCHANGED <<videoVars, memberVars, mailVars, localVars, kills>>

Subscribers == {u \in Members : exists[u] /\ subscribed[u]}

ReadMembers(a) ==
    /\ pc[a] = "members"
    /\ rcpts' = [rcpts EXCEPT ![a] = Subscribers]
    /\ todo' = [todo EXCEPT ![a] = Subscribers]
    /\ Goto(a, "mint")
    /\ UNCHANGED <<videoVars, memberVars, mailVars, video, seen, target, tokens, kills>>

\* The members are gone through in the order of their ids.
IsNext(a, u) == u \in todo[a] /\ \A n \in todo[a] : u <= n

\* unsubscribe_token(), the SELECT: the token there is (none, for a member who
\* has left), or mint one.
ReadToken(a) ==
    /\ pc[a] = "mint"
    /\ \E u \in todo[a] :
        /\ IsNext(a, u)
        /\ IF exists[u] /\ token[u] = NoToken
             THEN Goto(a, "minting") /\ UNCHANGED <<todo, tokens>>
             ELSE /\ tokens' = [tokens EXCEPT ![a][u] = token[u]]
                  /\ todo' = [todo EXCEPT ![a] = @ \ {u}]
                  /\ UNCHANGED pc
    /\ UNCHANGED <<videoVars, memberVars, mailVars, video, seen, target, rcpts, kills>>

\* unsubscribe_token(), the UPDATE of a fresh token (named after its announcer),
\* which does not ask whether there is one by now.
MintToken(a) ==
    /\ pc[a] = "minting"
    /\ \E u \in todo[a] :
        /\ IsNext(a, u)
        /\ token' = IF exists[u] THEN [token EXCEPT ![u] = a] ELSE token
        /\ replaced' = IF token[u] # NoToken THEN replaced \cup {u} ELSE replaced
        /\ tokens' = [tokens EXCEPT ![a][u] = a]
        /\ todo' = [todo EXCEPT ![a] = @ \ {u}]
    /\ Goto(a, "mint")
    /\ UNCHANGED <<videoVars, exists, subscribed, mailVars, video, seen, target, rcpts,
                   kills>>

\* One queue row per recipient.
FanOut(a) ==
    LET v == video[a] IN
    /\ mails' = [mails EXCEPT ![v] =
           [u \in Members |-> IF u \in rcpts[a] THEN @[u] + 1 ELSE @[u]]]
    /\ link' = [link EXCEPT ![v] =
           [u \in Members |-> IF u \in rcpts[a] THEN tokens[a][u] ELSE @[u]]]

AllThere(a) == \A u \in rcpts[a] : exists[u]

\* Mutants: the gate is not looked at; the claim is committed before the rows.
ClaimAlways(a) ==
    /\ pc[a] = "mint" /\ todo[a] = {}
    /\ IF AllThere(a)
         THEN FanOut(a) /\ notified' = [notified EXCEPT ![video[a]] = TRUE]
         ELSE UNCHANGED <<mailVars, notified>>
    /\ Goto(a, "done")
    /\ UNCHANGED <<ready, visible, memberVars, localVars, kills>>
ClaimApart(a) ==
    /\ pc[a] = "mint" /\ todo[a] = {}
    /\ IF AllThere(a) /\ ~notified[video[a]] THEN FanOut(a) ELSE UNCHANGED mailVars
    /\ notified' = [notified EXCEPT ![video[a]] = TRUE]
    /\ Goto(a, "done")
    /\ UNCHANGED <<ready, visible, memberVars, localVars, kills>>

\* Mutant: the connection does not enforce foreign keys.
ClaimUnchecked(a) ==
    /\ pc[a] = "mint" /\ todo[a] = {}
    /\ IF ~notified[video[a]]
         THEN FanOut(a) /\ notified' = [notified EXCEPT ![video[a]] = TRUE]
         ELSE UNCHANGED <<mailVars, notified>>
    /\ Goto(a, "done")
    /\ UNCHANGED <<ready, visible, memberVars, localVars, kills>>

\* One transaction: the claim (notified_at IS NULL) and the rows.  A recipient
\* whose account is gone breaks the foreign key and rolls back both.
Claim(a) ==
    /\ pc[a] = "mint" /\ todo[a] = {}
    /\ IF ~notified[video[a]] /\ AllThere(a)
         THEN FanOut(a) /\ notified' = [notified EXCEPT ![video[a]] = TRUE]
         ELSE UNCHANGED <<mailVars, notified>>
    /\ Goto(a, "done")
    /\ UNCHANGED <<ready, visible, memberVars, localVars, kills>>

Announce(a) ==
    ReadVideo(a) \/ ReadMembers(a) \/ ReadToken(a) \/ MintToken(a) \/ Claim(a)

\* The process is killed, or the database raises: the callers swallow it.
Kill(a) ==
    /\ pc[a] \notin {"new", "done"} /\ kills < MaxKills
    /\ kills' = kills + 1
    /\ Goto(a, "done")
    /\ UNCHANGED <<videoVars, memberVars, mailVars, localVars>>

-----------------------------------------------------------------------------
(* The members. *)

\* Mutant: a link can be used once.
ChangeAndSpend(u) ==
    /\ u \in Fickle /\ exists[u]
    /\ subscribed' = [subscribed EXCEPT ![u] = ~@]
    /\ token' = [token EXCEPT ![u] = NoToken]
    /\ UNCHANGED <<videoVars, exists, replaced, mailVars, pc, localVars, kills>>

\* update_profile(), set_preference()
ChangePreference(u) ==
    /\ u \in Fickle /\ exists[u]
    /\ subscribed' = [subscribed EXCEPT ![u] = ~@]
    /\ UNCHANGED <<videoVars, exists, token, replaced, mailVars, pc, localVars, kills>>

\* delete_user()
DeleteMember(u) ==
    /\ u \in Leaving /\ exists[u]
    /\ exists' = [exists EXCEPT ![u] = FALSE]
    /\ token' = [token EXCEPT ![u] = NoToken]
    /\ UNCHANGED <<videoVars, subscribed, replaced, mailVars, pc, localVars, kills>>

-----------------------------------------------------------------------------
Next ==
    \/ \E r \in Runs : (\E v \in Videos : BeginRun(r, v)) \/ EndRun(r) \/ ReadStatus(r)
    \/ \E e \in Edits : (\E v \in Videos : EditRead(e, v)) \/ EditWrite(e)
    \/ \E a \in Announcers : Announce(a) \/ Kill(a)
    \/ \E u \in Members : ChangePreference(u) \/ DeleteMember(u)

Spec == Init /\ [][Next]_vars

-----------------------------------------------------------------------------
\* Every variable stays within its domain.
TypeOK ==
    /\ ready \in [Videos -> BOOLEAN] /\ visible \in [Videos -> BOOLEAN]
    /\ notified \in [Videos -> BOOLEAN]
    /\ exists \in [Members -> BOOLEAN] /\ subscribed \in [Members -> BOOLEAN]
    /\ token \in [Members -> Announcers \cup {NoToken}]
    /\ mails \in [Videos -> [Members -> Nat]]
    /\ link \in [Videos -> [Members -> Announcers \cup {NoToken}]]
    /\ pc \in [Announcers -> Pcs]
    /\ video \in [Announcers -> Videos \cup {NoVideo}]
    /\ seen \in [Announcers -> BOOLEAN] /\ target \in [Announcers -> BOOLEAN]
    /\ rcpts \in [Announcers -> SUBSET Members]
    /\ todo \in [Announcers -> SUBSET Members]
    /\ tokens \in [Announcers -> [Members -> Announcers \cup {NoToken}]]
    /\ kills \in 0..MaxKills
    /\ replaced \subseteq Members

\* Nobody gets two announcements of a video, however often it is transcoded or
\* published, and by how many tasks at a time.
AnnouncedOnce == \A v \in Videos, u \in Members : mails[v][u] <= 1

\* A video that counts as announced was announced to every member who has been
\* subscribed all along: no kill or error leaves the announcement half done.
EveryoneIsTold ==
    \A v \in Videos, u \in Members \ Fickle :
        notified[v] /\ exists[u] => mails[v][u] = 1

\* At work on the announcement of v, or about to start.
Announcing(v) ==
    \E a \in Announcers : /\ video[a] = v
                          /\ pc[a] \in {"ended", "announce", "members", "mint", "minting"}

\* A video that is ready and visible has been announced or is being announced:
\* whichever of the transcode and the publishing edit comes last sees the other.
\* As long as no two edits of the video overlap, and but for kills and deleted
\* members (README).
NobodyMissed ==
    \A v \in Videos : ready[v] /\ visible[v] /\ kills = 0 /\ (\A u \in Members : exists[u])
        => notified[v] \/ Announcing(v)

\* No announcement carries a link without a token, although the member may leave
\* while tokens are seen to.
NoEmptyLink == \A v \in Videos, u \in Members : mails[v][u] > 0 => link[v][u] # NoToken

\* The link of every announcement a member ever got still works: it carries the
\* token in the member's row, whatever the member chose since, unless two
\* announcers minted for the member at the same time.
LinksWork ==
    \A v \in Videos, u \in Members \ replaced :
        mails[v][u] > 0 /\ exists[u] => link[v][u] = token[u]
=============================================================================
