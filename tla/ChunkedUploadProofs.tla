------------------------- MODULE ChunkedUploadProofs -------------------------
(***************************************************************************)
(* A chunked upload makes a video with a hole only in the race named at    *)
(* VideoIsWhole, a .part file without its .meta file has a cause, and an   *)
(* undisturbed upload is not refused: proofs for any number of chunks,     *)
(* retries, requests of other uploads and faults.                          *)
(***************************************************************************)
EXTENDS ChunkedUpload, TLAPS

Reading == {"look", "open", "data", "metaOpen", "metaWrite"}

\* The first chunk is over before the next one is sent.
FirstIsAlone ==
    \A r \in Requests :
        /\ r[1] > index => pc[r] = "new"
        /\ InFlight(r) /\ r[1] = 0 => cPc = "wait" /\ r = Current

\* Nothing is listed or staged that was not sent.
Within ==
    /\ received \subseteq 0..index /\ part \subseteq 0..index
    /\ \A r \in Requests : pc[r] \in Reading => seen[r] \subseteq 0..index

\* While the first chunk is in place, so is everything a request knows of.
Knows(r) ==
    /\ pc[r] \in Reading /\ 0 \in part => seen[r] \subseteq part
    /\ pc[r] \in {"metaOpen", "metaWrite"} /\ 0 \in part => r[1] \in part
    /\ pc[r] = "open" /\ creates[r] /\ r[1] > 0 => 0 \notin part
    /\ pc[r] = "data" /\ fd[r] # "part" /\ r[1] > 0 => 0 \notin part
    /\ pc[r] = "data" /\ fd[r] = "part" => staged

Listed ==
    /\ ~staged => part = {}
    /\ 0 \in part => received \subseteq part

\* The browser need not wait for the chunk it is at.
HasAnswer ==
    \/ cPc \in {"complete", "finishing"} \/ fPc # "idle"
    \/ cPc = "wait" /\ pc[Current] = "ok"

\* No request has written the list of an old upload, and none is at work once the
\* last answer has come.
OldIsQuiet ==
    old => /\ \A r \in Requests : pc[r] # "metaWrite"
           /\ HasAnswer => \A r \in Requests : ~InFlight(r)

\* Beside a removal that lasts until completion is asked for nobody is at work, or
\* the history says so.
RemovalIsSeen ==
    fPc # "idle" /\ Removing => overrun \/ \A r \in Requests : ~InFlight(r)

FinalKnows ==
    /\ fPc # "idle" => cPc \in {"finishing", "done", "failed"}
    /\ fPc = "check" => (0 \in part => part = Chunks)
    /\ fPc \in {"probe", "move"} =>
           \/ part = Chunks \/ overrun
           \/ ~staged /\ \A r \in Requests : ~InFlight(r)
    /\ fPc \in {"delete", "deleteMeta", "insert", "ok"} => raw = Chunks \/ overrun
    /\ video => fPc = "ok"

IInv == /\ TypeOK /\ FirstIsAlone /\ Within /\ Listed /\ OldIsQuiet /\ RemovalIsSeen
        /\ FinalKnows /\ \A r \in Requests : Knows(r)

LEMMA RequestFacts ==
  /\ \A r \in Requests : r[1] \in Chunks
  /\ 0 \in Chunks /\ Chunks \subseteq Nat /\ \A c \in Chunks : c <= Total - 1
  /\ TypeOK => Current \in Requests /\ Current[1] = index /\ index \in Nat
  BY UploadAssumption DEF Requests, Chunks, TypeOK, Current

LEMMA IInvInit == Init => IInv
<1> SUFFICES ASSUME Init PROVE IInv
  OBVIOUS
<1>0. 0 \in Chunks /\ 0 \in 0..MaxRetries /\ 0 \in 0..MaxFaults
  BY UploadAssumption DEF Chunks
<1>1. TypeOK
  BY <1>0 DEF Init, TypeOK, Steps
<1>2. FirstIsAlone /\ Within /\ Listed /\ OldIsQuiet /\ RemovalIsSeen /\ FinalKnows
  BY DEF Init, FirstIsAlone, Within, Listed, OldIsQuiet, HasAnswer, RemovalIsSeen,
         FinalKnows, InFlight, Steps, Reading
<1>3. \A r \in Requests : Knows(r)
  BY DEF Init, Knows, Reading
<1> QED
  BY <1>1, <1>2, <1>3 DEF IInv

-----------------------------------------------------------------------------
(* The domains. *)

LEMMA TypeUnlink ==
  ASSUME TypeOK, UnlinkPart \/ UnlinkMeta
  PROVE  /\ staged' \in BOOLEAN /\ part' \in SUBSET Chunks
         /\ meta' \in {"none", "empty", "garbled", "listed"} /\ received' \in SUBSET Chunks
         /\ old' \in BOOLEAN
         /\ fd' \in [Requests -> {"none", "part", "raw", "meta", "lost"}]
  BY DEF TypeOK, UnlinkPart, UnlinkMeta, Unlinked, partFile, metaFile

LEMMA TypeFault ==
  ASSUME TypeOK, Fault
  PROVE  faults' \in 0..MaxFaults /\ faults' > 0
  BY UploadAssumption DEF TypeOK, Fault

LEMMA TypeChunk ==
  ASSUME TypeOK, NEW r \in Requests, UploadChunk(r) \/ Fail(r)
  PROVE  TypeOK'
<1>1. pc' \in [Requests -> Steps \cup {"new", "ok", "error", "over"}]
  <2>1. \E x \in Steps \cup {"ok", "error"} : Goto(r, x)
    BY DEF UploadChunk, CleanupLook, CleanupPart, CleanupMeta, ReadMeta, Look, Open, WriteData,
           OpenMeta, WriteMeta, Fail, Steps
  <2>2. pc \in [Requests -> Steps \cup {"new", "ok", "error", "over"}]
    BY DEF TypeOK
  <2> QED
    BY <2>1, <2>2 DEF Goto
<1>2. r[1] \in Chunks
  BY RequestFacts
<1> USE DEF TypeOK, client, requests, partFile, metaFile, library, history
<1>3. CASE CleanupLook(r)
  BY <1>1, <1>3 DEF CleanupLook
<1>4. CASE CleanupPart(r) \/ CleanupMeta(r)
  <2>1. UNCHANGED <<client, seen, creates, fPc, sPc, library, history>>
    BY <1>4 DEF CleanupPart, CleanupMeta
  <2>2. UnlinkPart \/ UnlinkMeta
    BY <1>4 DEF CleanupPart, CleanupMeta
  <2> QED
    BY <1>1, <2>1, <2>2, TypeUnlink
<1>5. CASE ReadMeta(r)
  BY <1>1, <1>5 DEF ReadMeta
<1>6. CASE Look(r)
  BY <1>1, <1>6 DEF Look
<1>7. CASE Open(r)
  <2>1. /\ fd' \in [Requests -> {"none", "part", "raw", "meta", "lost"}]
        /\ staged' \in BOOLEAN /\ part' \in SUBSET Chunks
    BY <1>7 DEF Open
  <2>2. overtaken' \in BOOLEAN
    BY <1>7 DEF Open
  <2>3. UNCHANGED <<client, seen, creates, fPc, sPc, metaFile, library, late, aged, overrun,
                    faults>>
    BY <1>7 DEF Open
  <2> QED
    BY <1>1, <2>1, <2>2, <2>3
<1>8. CASE WriteData(r)
  <2>1. part' \in SUBSET Chunks /\ raw' \in SUBSET Chunks
    BY <1>2, <1>8 DEF WriteData
  <2> QED
    BY <1>1, <1>8, <2>1 DEF WriteData, Close
<1>9. CASE OpenMeta(r)
  <2>1. /\ fd' \in [Requests -> {"none", "part", "raw", "meta", "lost"}]
        /\ seen' \in [Requests -> SUBSET Chunks]
    BY <1>2, <1>9 DEF OpenMeta
  <2> QED
    BY <1>1, <1>9, <2>1 DEF OpenMeta
<1>10. CASE WriteMeta(r)
  <2>1. meta' \in {"none", "empty", "garbled", "listed"} /\ received' \in SUBSET Chunks
    BY <1>10 DEF WriteMeta
  <2>2. /\ fd' \in [Requests -> {"none", "part", "raw", "meta", "lost"}]
        /\ seen' \in [Requests -> SUBSET Chunks] /\ creates' \in [Requests -> BOOLEAN]
    BY <1>10 DEF WriteMeta, Close
  <2> QED
    BY <1>1, <1>10, <2>1, <2>2 DEF WriteMeta
<1>11. CASE Fail(r)
  <2>1. faults' \in 0..MaxFaults
    BY <1>11, TypeFault DEF Fail
  <2>2. seen' \in [Requests -> SUBSET Chunks]
    BY <1>11 DEF Fail
  <2> QED
    BY <1>1, <1>11, <2>1, <2>2 DEF Fail
<1> QED
  BY <1>3, <1>4, <1>5, <1>6, <1>7, <1>8, <1>9, <1>10, <1>11 DEF UploadChunk

LEMMA TypeBrowser ==
  ASSUME TypeOK, Browser
  PROVE  TypeOK'
<1> USE UploadAssumption, RequestFacts
    DEF TypeOK, Steps, requests, partFile, metaFile, library, history
<1>1. CASE Send
  BY <1>1 DEF Send
<1>2. CASE Answered
  BY <1>2 DEF Answered, Chunks
<1>3. CASE Refused
  BY <1>3 DEF Refused, TryAgain
<1>4. CASE ConnectionLost
  BY <1>4 DEF ConnectionLost, TryAgain
<1>5. CASE Outlived
  BY <1>5 DEF Outlived, TryAgain
<1>6. CASE Complete
  <2>1. overrun' \in BOOLEAN
    BY <1>6 DEF Complete
  <2> QED
    BY <1>6, <2>1 DEF Complete, FinalSteps
<1>7. CASE Completed
  BY <1>7 DEF Completed
<1> QED
  BY <1>1, <1>2, <1>3, <1>4, <1>5, <1>6, <1>7 DEF Browser

LEMMA TypeFinal ==
  ASSUME TypeOK, UploadComplete \/ Age \/ Kill \/ FinalFail
  PROVE  TypeOK'
<1> USE DEF FGoto
<1>1. CASE FinalRead \/ FinalCheck \/ FinalProbe \/ FinalInsert
  <2>1. fPc' \in FinalSteps \cup {"idle", "ok", "incomplete", "error"}
    BY <1>1 DEF FinalRead, FinalCheck, FinalProbe, FinalInsert, FinalSteps
  <2>2. /\ video' \in {video, TRUE}
        /\ UNCHANGED <<client, requests, sPc, partFile, metaFile, raw, history>>
    BY <1>1 DEF FinalRead, FinalCheck, FinalProbe, FinalInsert, library
  <2>3. video' \in BOOLEAN
    BY <2>2 DEF TypeOK
  <2> QED
    BY <2>1, <2>2, <2>3 DEF TypeOK, client, requests, partFile, metaFile, history
<1>2. CASE FinalReject \/ FinalDelete
  <2>1. UnlinkPart \/ UnlinkMeta
    BY <1>2 DEF FinalReject, FinalDelete
  <2>2. UNCHANGED <<client, pc, seen, creates, sPc, library, history>>
    BY <1>2 DEF FinalReject, FinalDelete
  <2>3. fPc' \in FinalSteps \cup {"idle", "ok", "incomplete", "error"}
    BY <1>2 DEF FinalReject, FinalDelete, FinalSteps
  <2> QED
    BY <2>1, <2>2, <2>3, TypeUnlink DEF TypeOK, client, library, history
<1>3. CASE FinalMove
  <2>1. fPc' \in FinalSteps \cup {"idle", "ok", "incomplete", "error"}
    BY <1>3 DEF FinalMove, FinalSteps
  <2>2. fd' \in [Requests -> {"none", "part", "raw", "meta", "lost"}]
    BY <1>3 DEF FinalMove, TypeOK
  <2>3. staged' \in BOOLEAN /\ part' \in SUBSET Chunks /\ raw' \in SUBSET Chunks
    BY <1>3 DEF FinalMove, TypeOK, partFile
  <2>4. UNCHANGED <<client, pc, seen, creates, sPc, metaFile, video, history>>
    BY <1>3 DEF FinalMove
  <2> QED
    BY <2>1, <2>2, <2>3, <2>4 DEF TypeOK, client, metaFile, history
<1>4. CASE Age
  BY <1>4 DEF Age, TypeOK, client, requests, partFile, library
<1>5. CASE Kill
  <2>1. pc' \in [Requests -> Steps \cup {"new", "ok", "error", "over"}]
    BY <1>5 DEF Kill, TypeOK
  <2>2. /\ fPc' \in FinalSteps \cup {"idle", "ok", "incomplete", "error"}
        /\ sPc' \in [Sweepers -> {"idle", "part", "meta"}]
    BY <1>5 DEF Kill, TypeOK
  <2>3. faults' \in 0..MaxFaults
    BY <1>5, TypeFault DEF Kill
  <2>4. UNCHANGED <<client, seen, creates, fd, partFile, metaFile, library, late, aged,
                    overtaken, overrun>>
    BY <1>5 DEF Kill
  <2> QED
    BY <2>1, <2>2, <2>3, <2>4 DEF TypeOK, client, partFile, metaFile, library
<1>6. CASE FinalFail
  <2>1. faults' \in 0..MaxFaults /\ fPc' \in FinalSteps \cup {"idle", "ok", "incomplete", "error"}
    BY <1>6, TypeFault DEF FinalFail
  <2>2. UNCHANGED <<client, requests, sPc, partFile, metaFile, library, late, aged,
                    overtaken, overrun>>
    BY <1>6 DEF FinalFail
  <2> QED
    BY <2>1, <2>2 DEF TypeOK, client, requests, partFile, metaFile, library
<1> QED
  BY <1>1, <1>2, <1>3, <1>4, <1>5, <1>6 DEF UploadComplete

LEMMA TypeSweep ==
  ASSUME TypeOK, NEW s \in Sweepers, Sweep(s) \/ SweepFail(s)
  PROVE  TypeOK'
<1>1. sPc' \in [Sweepers -> {"idle", "part", "meta"}]
  BY DEF TypeOK, Sweep, SweepLook, SweepPart, SweepMeta, SweepFail, SGoto
<1>2. CASE SweepLook(s)
  BY <1>1, <1>2 DEF SweepLook, TypeOK, client, requests, partFile, metaFile, library, history
<1>3. CASE SweepPart(s) \/ SweepMeta(s)
  <2>1. UnlinkPart \/ UnlinkMeta
    BY <1>3 DEF SweepPart, SweepMeta
  <2>2. UNCHANGED <<client, pc, seen, creates, fPc, library, history>>
    BY <1>3 DEF SweepPart, SweepMeta
  <2> QED
    BY <1>1, <2>1, <2>2, TypeUnlink DEF TypeOK, client, library, history
<1>4. CASE SweepFail(s)
  <2>1. faults' \in 0..MaxFaults
    BY <1>4, TypeFault DEF SweepFail
  <2>2. UNCHANGED <<client, requests, fPc, partFile, metaFile, library, late, aged, overtaken,
                    overrun>>
    BY <1>4 DEF SweepFail
  <2> QED
    BY <1>1, <2>1, <2>2 DEF TypeOK, client, requests, partFile, metaFile, library
<1> QED
  BY <1>2, <1>3, <1>4 DEF Sweep

LEMMA TypeStep == TypeOK /\ [Next]_vars => TypeOK'
<1> SUFFICES ASSUME TypeOK, [Next]_vars PROVE TypeOK'
  OBVIOUS
<1>1. CASE UNCHANGED vars
  BY <1>1 DEF vars, client, requests, partFile, metaFile, library, history, TypeOK
<1> QED
  BY <1>1, TypeChunk, TypeBrowser, TypeFinal, TypeSweep DEF Next

-----------------------------------------------------------------------------
(* The browser. *)

LEMMA BrowserStep ==
  ASSUME 0 \notin Linger, IInv, Browser
  PROVE  IInv'
<1> USE RequestFacts DEF IInv, requests, partFile, metaFile, library, history
<1>1. TypeOK'
  BY TypeBrowser
<1>2. Current \in Requests /\ Current[1] = index /\ index \in Nat
  OBVIOUS
<1>3. /\ index' \in Nat /\ index <= index'
      /\ UNCHANGED <<seen, creates, fd, sPc, partFile, metaFile, library>>
  BY <1>1, <1>2 DEF Browser, Send, Answered, Refused, ConnectionLost, Outlived, Complete,
                    Completed, TryAgain
<1>4. \A r \in Requests : pc'[r] = pc[r] \/ pc'[r] \in {"gc", "over"}
  BY DEF TypeOK, Browser, Send, Answered, Refused, ConnectionLost, Outlived, Complete,
         Completed
<1>5. FirstIsAlone'
  <2> USE DEF FirstIsAlone, InFlight, Steps, TypeOK
  <2>1. CASE Send
    <3>1. \A r \in Requests : pc'[r] = IF r = Current THEN "gc" ELSE pc[r]
      BY <1>2, <2>1 DEF Send
    <3>2. Current' = Current /\ index' = index /\ cPc' = "wait" /\ cPc # "wait"
      BY <2>1 DEF Send, Current
    <3> QED
      BY <1>2, <3>1, <3>2
  <2>2. CASE Answered
    <3>1. \A r \in Requests : r[1] > index' => pc[r] = "new"
      <4> SUFFICES ASSUME NEW r \in Requests, r[1] > index' PROVE pc[r] = "new"
        OBVIOUS
      <4>1. r[1] \in Nat
        OBVIOUS
      <4>2. r[1] > index
        BY <1>2, <1>3, <4>1
      <4> QED
        BY <4>2
    <3>2. ASSUME NEW r \in Requests, pc[r] \in Steps, r[1] = 0 PROVE FALSE
      BY <2>2, <3>2 DEF Answered
    <3> QED
      BY <2>2, <3>1, <3>2 DEF Answered
  <2>3. CASE Refused
    BY <1>2, <2>3 DEF Refused, TryAgain, Current
  <2>4. CASE ConnectionLost
    <3>1. \A r \in Requests : pc'[r] = IF r = Current THEN "over" ELSE pc[r]
      BY <1>2, <2>4 DEF ConnectionLost
    <3>2. index' = index
      BY <2>4 DEF ConnectionLost, TryAgain
    <3>3. ASSUME NEW r \in Requests PROVE r[1] > index' => pc'[r] = "new"
      BY <1>2, <3>1, <3>2, <3>3
    <3>4. ASSUME NEW r \in Requests, pc'[r] \in Steps, r[1] = 0 PROVE FALSE
      BY <1>2, <3>1, <3>4
    <3> QED
      BY <3>3, <3>4
  <2>5. CASE Outlived
    <3>1. index # 0 /\ index' = index /\ pc' = pc
      BY <2>5 DEF Outlived, TryAgain
    <3>2. ASSUME NEW r \in Requests, pc[r] \in Steps, r[1] = 0 PROVE FALSE
      BY <1>2, <3>1, <3>2
    <3> QED
      BY <3>1, <3>2
  <2>6. CASE Complete \/ Completed
    BY <1>2, <2>6 DEF Complete, Completed, Current
  <2> QED
    BY <2>1, <2>2, <2>3, <2>4, <2>5, <2>6 DEF Browser
<1>6. Within' /\ Listed'
  BY <1>2, <1>3, <1>4 DEF Within, Listed, Reading
<1>7. ASSUME NEW r \in Requests PROVE Knows(r)'
  BY <1>3, <1>4, <1>7 DEF Knows, Reading
<1>8. OldIsQuiet'
  <2> USE DEF OldIsQuiet, HasAnswer, InFlight, Steps, TypeOK
  <2>1. CASE Send
    BY <1>2, <2>1 DEF Send, Current, FinalKnows
  <2>2. CASE Answered
    BY <1>2, <2>2 DEF Answered, Current
  <2>3. CASE Refused \/ Outlived
    BY <1>2, <2>3 DEF Refused, Outlived, TryAgain, Current
  <2>4. CASE ConnectionLost
    BY <1>2, <2>4 DEF ConnectionLost, TryAgain, Current
  <2>5. CASE Complete \/ Completed
    BY <1>2, <2>5 DEF Complete, Completed, Current
  <2> QED
    BY <2>1, <2>2, <2>3, <2>4, <2>5 DEF Browser
<1>9. FinalKnows' /\ RemovalIsSeen'
  <2> USE DEF FinalKnows, RemovalIsSeen
  <2>1. CASE Send \/ Answered \/ Refused \/ ConnectionLost \/ Outlived
    <3>1. fPc = "idle" /\ fPc' = "idle" /\ video' = video
      BY <2>1 DEF Send, Answered, Refused, ConnectionLost, Outlived, TryAgain
    <3> QED
      BY <3>1
  <2>2. CASE Complete
    <3>1. /\ fPc' = "read" /\ cPc' = "finishing" /\ video' = video
          /\ UNCHANGED <<pc, sPc>> /\ fPc = "idle"
      BY <2>2 DEF Complete
    <3>2. ASSUME Removing, NEW r \in Requests, InFlight(r) PROVE overrun'
      BY <2>2, <3>2 DEF Complete
    <3>3. Removing' <=> Removing
      BY <3>1 DEF Removing
    <3>4. \A r \in Requests : InFlight(r)' <=> InFlight(r)
      BY <3>1 DEF InFlight
    <3> QED
      BY <3>1, <3>2, <3>3, <3>4
  <2>3. CASE Completed
    <3>1. /\ cPc' \in {"finishing", "done", "failed"}
          /\ UNCHANGED <<fPc, sPc, requests, partFile, metaFile, library, history>>
      BY <2>3 DEF Completed
    <3>2. Removing' <=> Removing
      BY <3>1 DEF Removing
    <3>3. \A r \in Requests : InFlight(r)' <=> InFlight(r)
      BY <3>1 DEF InFlight
    <3> QED
      BY <3>1, <3>2, <3>3
  <2> QED
    BY <2>1, <2>2, <2>3 DEF Browser
<1> QED
  BY <1>1, <1>5, <1>6, <1>7, <1>8, <1>9

-----------------------------------------------------------------------------
(* The requests for chunks. *)

\* What the steps of a request have in common.
Advances(r) ==
    /\ InFlight(r) /\ pc[r] # pc'[r]
    /\ pc'[r] \in (Steps \ {"gc"}) \cup {"ok", "error"}
    /\ \A q \in Requests \ {r} :
          pc'[q] = pc[q] /\ seen'[q] = seen[q] /\ creates'[q] = creates[q]
    /\ UNCHANGED <<client, fPc, sPc, video, overrun>>
    /\ old' => old /\ pc'[r] \notin {"metaWrite", "ok"}
    /\ pc'[r] = "gcPart" => old
    /\ pc'[r] = "gcMeta" => pc[r] = "gcPart"

LEMMA StepAdvances ==
  ASSUME IInv, NEW r \in Requests, UploadChunk(r) \/ Fail(r)
  PROVE  Advances(r)
<1> USE DEF IInv, TypeOK, Goto, InFlight, Steps, Advances, OldIsQuiet, HasAnswer, requests,
            partFile, metaFile, library, history
<1>1. CASE CleanupLook(r)
  BY <1>1 DEF CleanupLook
<1>2. CASE CleanupPart(r) \/ CleanupMeta(r)
  BY <1>2 DEF CleanupPart, CleanupMeta, UnlinkPart, UnlinkMeta
<1>3. CASE ReadMeta(r) \/ Look(r)
  BY <1>3 DEF ReadMeta, Look
<1>4. CASE Open(r) \/ WriteData(r)
  BY <1>4 DEF Open, WriteData
<1>5. CASE OpenMeta(r) \/ WriteMeta(r)
  BY <1>5 DEF OpenMeta, WriteMeta
<1>6. CASE Fail(r)
  BY <1>6 DEF Fail
<1> QED
  BY <1>1, <1>2, <1>3, <1>4, <1>5, <1>6 DEF UploadChunk

\* What remains to be shown of a step that advances a request.
LEMMA AdvanceStep ==
  ASSUME IInv, TypeOK', NEW r \in Requests, Advances(r),
         Within', Listed', Knows(r)',
         \A q \in Requests \ {r} : Knows(q)',
         fPc \in {"check", "probe", "move"} /\ 0 \in part' => 0 \in part /\ part \subseteq part',
         fPc \in {"probe", "move"} /\ part = Chunks => part' = Chunks \/ overrun,
         raw \subseteq raw'
  PROVE  IInv'
<1>1. FirstIsAlone'
  BY DEF IInv, FirstIsAlone, Advances, InFlight, client, Current, Steps
<1>2. InFlight(r) /\ \A q \in Requests : InFlight(q)' => InFlight(q)
  BY DEF Advances, InFlight
<1>3. OldIsQuiet'
  <2>1. old' => ~HasAnswer
    BY <1>2 DEF IInv, OldIsQuiet, Advances
  <2>2. UNCHANGED <<cPc, fPc, index, attempt>> /\ Current \in Requests
    BY RequestFacts DEF IInv, Advances, client
  <2>3. old' => \A q \in Requests : pc'[q] # "metaWrite"
    BY DEF IInv, OldIsQuiet, Advances
  <2>4. old' => pc'[Current] # "ok" \/ cPc # "wait"
    BY <2>1, <2>2 DEF Advances, HasAnswer
  <2>5. old' => ~HasAnswer'
    BY <2>1, <2>2, <2>4 DEF HasAnswer, Current
  <2> QED
    BY <2>3, <2>5 DEF OldIsQuiet
<1>4. RemovalIsSeen'
  <2>1. fPc # "idle" => ~old
    BY <1>2 DEF IInv, OldIsQuiet, HasAnswer
  <2>2. fPc # "idle" /\ Removing' => Removing
    BY <2>1 DEF Advances, Removing
  <2> QED
    BY <1>2, <2>2 DEF IInv, RemovalIsSeen, Advances
<1>5. FinalKnows'
  BY <1>2 DEF IInv, FinalKnows, Advances, TypeOK, client
<1> QED
  BY <1>1, <1>3, <1>4, <1>5 DEF IInv

LEMMA Late ==
  ASSUME IInv, NEW r \in Requests, InFlight(r)
  PROVE  /\ r[1] \in 0..index
         /\ r[1] = 0 => /\ index = 0 /\ fPc = "idle"
                        /\ \A q \in Requests \ {r} : ~InFlight(q)
<1> USE RequestFacts DEF IInv, FirstIsAlone, InFlight, Steps
<1>1. r[1] \in Nat /\ index \in Nat
  OBVIOUS
<1>2. r[1] <= index
  BY <1>1
<1>3. ASSUME r[1] = 0 PROVE index = 0 /\ cPc = "wait" /\ r = Current
  BY <1>3
<1>4. ASSUME r[1] = 0, NEW q \in Requests \ {r} PROVE ~InFlight(q)
  <2>1. q[1] \in Nat
    OBVIOUS
  <2>2. CASE q[1] = 0
    BY <1>3, <1>4, <2>2
  <2>3. CASE q[1] > 0
    BY <1>3, <1>4, <2>3
  <2> QED
    BY <2>1, <2>2, <2>3
<1>5. r[1] = 0 => fPc = "idle"
  BY <1>3 DEF FinalKnows
<1> QED
  BY <1>1, <1>2, <1>3, <1>4, <1>5

\* The steps that do not write the .part file.
LEMMA StagedStep ==
  ASSUME IInv, NEW r \in Requests,
         \/ CleanupLook(r) \/ CleanupPart(r) \/ CleanupMeta(r) \/ ReadMeta(r) \/ Look(r)
         \/ OpenMeta(r) \/ WriteMeta(r) \/ Fail(r)
  PROVE  IInv'
<1> USE DEF IInv, TypeOK, Goto, Steps, Reading, partFile, metaFile, library, history, requests
<1>1. TypeOK' /\ Advances(r)
  BY TypeChunk, StepAdvances DEF UploadChunk
<1>2. index' = index /\ r[1] \in 0..index
  BY <1>1, Late DEF Advances, client
<1>3. CASE CleanupLook(r) \/ CleanupPart(r) \/ CleanupMeta(r)
  <2>1. CASE CleanupLook(r)
    <3>1. UNCHANGED <<fd, partFile, received, raw>> /\ pc'[r] \in {"gcPart", "read"}
      BY <2>1 DEF CleanupLook
    <3>2. Within' /\ Listed' /\ \A q \in Requests : Knows(q)'
      BY <1>1, <1>2, <3>1 DEF Within, Listed, Knows, Advances
    <3> QED
      BY <1>1, <3>1, <3>2, AdvanceStep
  <2>2. CASE CleanupPart(r)
    <3>1. /\ part' = {} /\ UNCHANGED <<received, raw>> /\ pc[r] = "gcPart" /\ pc'[r] = "gcMeta"
          /\ \A q \in Requests : pc[q] = "data" => fd'[q] # "part"
      BY <2>2 DEF CleanupPart, UnlinkPart, Unlinked
    <3>2. fPc \in {"probe", "move"} => overrun
      BY <3>1 DEF RemovalIsSeen, Removing, InFlight
    <3>3. Within' /\ Listed' /\ \A q \in Requests : Knows(q)'
      BY <1>1, <1>2, <3>1 DEF Within, Listed, Knows, Advances
    <3> QED
      BY <1>1, <3>1, <3>2, <3>3, AdvanceStep
  <2>3. CASE CleanupMeta(r)
    <3>1. /\ UNCHANGED <<partFile, raw>> /\ received' = {} /\ pc'[r] = "read"
          /\ \A q \in Requests : pc[q] = "data" => fd'[q] = fd[q]
      BY <2>3 DEF CleanupMeta, UnlinkMeta, Unlinked
    <3>2. Within' /\ Listed' /\ \A q \in Requests : Knows(q)'
      BY <1>1, <1>2, <3>1 DEF Within, Listed, Knows, Advances
    <3> QED
      BY <1>1, <3>1, <3>2, AdvanceStep
  <2> QED
    BY <1>3, <2>1, <2>2, <2>3
<1>4. CASE ReadMeta(r)
  <2>1. /\ UNCHANGED <<fd, partFile, received, raw>>
        /\ pc'[r] = "look" /\ seen'[r] = received
    BY <1>4 DEF ReadMeta
  <2>2. Within' /\ Listed' /\ \A q \in Requests : Knows(q)'
    BY <1>1, <1>2, <2>1 DEF Within, Listed, Knows, Advances
  <2> QED
    BY <1>1, <2>1, <2>2, AdvanceStep
<1>5. CASE Look(r)
  <2>1. /\ UNCHANGED <<fd, partFile, received, raw, seen>>
        /\ pc[r] = "look" /\ pc'[r] = "open" /\ creates'[r] = ~staged
    BY <1>5 DEF Look
  <2>2. Within' /\ Listed' /\ \A q \in Requests \ {r} : Knows(q)'
    BY <1>1, <1>2, <2>1 DEF Within, Listed, Knows, Advances
  <2>3. Knows(r)'
    BY <1>1, <2>1 DEF Knows, Listed
  <2> QED
    BY <1>1, <2>1, <2>2, <2>3, AdvanceStep
<1>6. CASE OpenMeta(r)
  <2>1. /\ UNCHANGED <<partFile, raw>> /\ received' = {}
        /\ pc[r] = "metaOpen" /\ pc'[r] = "metaWrite" /\ seen'[r] = seen[r] \cup {r[1]}
        /\ \A q \in Requests \ {r} : fd'[q] = fd[q]
    BY <1>6 DEF OpenMeta
  <2>2. Within' /\ Listed' /\ \A q \in Requests \ {r} : Knows(q)'
    BY <1>1, <1>2, <2>1 DEF Within, Listed, Knows, Advances
  <2>3. Knows(r)'
    BY <1>1, <2>1 DEF Knows
  <2> QED
    BY <1>1, <2>1, <2>2, <2>3, AdvanceStep
<1>7. CASE WriteMeta(r)
  <2>1. /\ UNCHANGED <<partFile, raw>> /\ received' \in {received, {}, seen[r]}
        /\ pc[r] = "metaWrite" /\ pc'[r] = "ok"
        /\ \A q \in Requests \ {r} : fd'[q] = fd[q]
    BY <1>7 DEF WriteMeta, Close
  <2>2. seen[r] \subseteq 0..index /\ (0 \in part => seen[r] \subseteq part)
    BY <2>1 DEF Within, Knows
  <2>3. Within' /\ Listed' /\ \A q \in Requests : Knows(q)'
    BY <1>1, <1>2, <2>1, <2>2 DEF Within, Listed, Knows, Advances
  <2> QED
    BY <1>1, <2>1, <2>3, AdvanceStep
<1>8. CASE Fail(r)
  <2>1. /\ UNCHANGED <<partFile, received, raw, fd>> /\ pc'[r] \in {"read", "look", "error"}
        /\ pc'[r] = "look" => seen'[r] = {}
    BY <1>8 DEF Fail
  <2>2. Within' /\ Listed' /\ \A q \in Requests : Knows(q)'
    BY <1>1, <1>2, <2>1 DEF Within, Listed, Knows, Advances
  <2> QED
    BY <1>1, <2>1, <2>2, AdvanceStep
<1> QED
  BY <1>3, <1>4, <1>5, <1>6, <1>7, <1>8

LEMMA PartStep ==
  ASSUME IInv, NEW r \in Requests, Open(r) \/ WriteData(r)
  PROVE  IInv'
<1> USE DEF IInv, TypeOK, Goto, Steps, Reading, partFile, metaFile, library, history, requests
<1>1. TypeOK' /\ Advances(r)
  BY TypeChunk, StepAdvances DEF UploadChunk
<1>2. index' = index /\ r[1] \in 0..index /\ 0 \in 0..index
  BY <1>1, Late, RequestFacts DEF Advances, client
<1>3. r[1] = 0 => fPc = "idle" /\ index = 0 /\ \A q \in Requests \ {r} : ~InFlight(q)
  BY <1>1, Late DEF Advances
<1>4. r[1] = 0 \/ r[1] > 0
  BY <1>2, RequestFacts
<1>5. CASE Open(r) /\ creates[r]
  <2>1. /\ UNCHANGED <<received, raw, seen>> /\ part' = {} /\ staged' = TRUE
        /\ \A q \in Requests \ {r} : fd'[q] = fd[q]
        /\ pc[r] = "open" /\ pc'[r] = "data" /\ fd'[r] = "part"
    BY <1>5 DEF Open
  <2>2. r[1] > 0 => 0 \notin part
    BY <1>5, <2>1 DEF Knows
  <2>3. fPc \in {"probe", "move"} => part # Chunks
    BY <1>3, <1>4, <2>2, RequestFacts
  <2>4. Within' /\ Listed' /\ \A q \in Requests : Knows(q)'
    BY <1>1, <1>2, <2>1 DEF Within, Listed, Knows, Advances
  <2> QED
    BY <1>1, <2>1, <2>3, <2>4, AdvanceStep
<1>6. CASE Open(r) /\ ~creates[r]
  <2>1. /\ UNCHANGED <<received, raw, seen, partFile>>
        /\ \A q \in Requests \ {r} : fd'[q] = fd[q]
        /\ pc[r] = "open"
        /\ \/ pc'[r] = "error"
           \/ pc'[r] = "data" /\ fd'[r] = "part" /\ staged
    BY <1>6 DEF Open
  <2>2. Within' /\ Listed' /\ \A q \in Requests : Knows(q)'
    BY <1>1, <1>2, <2>1 DEF Within, Listed, Knows, Advances
  <2> QED
    BY <1>1, <2>1, <2>2, AdvanceStep
<1>7. CASE WriteData(r)
  <2>1. /\ UNCHANGED <<received, seen, staged>> /\ pc[r] = "data" /\ pc'[r] = "metaOpen"
        /\ \A q \in Requests \ {r} : fd'[q] = fd[q]
        /\ part \subseteq part' /\ part' \subseteq part \cup {r[1]} /\ raw \subseteq raw'
        /\ fd[r] = "part" => r[1] \in part'
        /\ fd[r] # "part" => part' = part
    BY <1>7 DEF WriteData, Close
  <2>2. r[1] > 0 /\ 0 \in part' => 0 \in part /\ fd[r] = "part"
    BY <2>1 DEF Knows
  <2>3. fPc \in {"check", "probe", "move"} => r[1] > 0
    BY <1>3, <1>4
  <2>4. Within' /\ part' \subseteq Chunks
    BY <1>1, <1>2, <2>1 DEF Within, Advances
  <2>5. r[1] = 0 => received \subseteq {0} /\ seen[r] \subseteq {0}
    BY <1>3, <2>1, RequestFacts DEF Within
  <2>6. Listed'
    <3>1. ~staged' => part' = {}
      BY <2>1 DEF Listed, Knows
    <3>2. ASSUME 0 \in part' PROVE received' \subseteq part'
      <4>1. CASE r[1] = 0
        BY <2>1, <2>5, <3>2, <4>1
      <4>2. CASE r[1] > 0
        BY <2>1, <2>2, <3>2, <4>2 DEF Listed
      <4> QED
        BY <1>4, <4>1, <4>2
    <3> QED
      BY <3>1, <3>2 DEF Listed
  <2>7. Knows(r)'
    <3>1. ASSUME 0 \in part' PROVE seen'[r] \subseteq part' /\ r[1] \in part'
      <4>1. CASE r[1] = 0
        BY <2>1, <2>5, <3>1, <4>1
      <4>2. CASE r[1] > 0
        BY <2>1, <2>2, <3>1, <4>2 DEF Knows
      <4> QED
        BY <1>4, <4>1, <4>2
    <3> QED
      BY <2>1, <3>1 DEF Knows
  <2>8. ASSUME NEW q \in Requests \ {r} PROVE Knows(q)'
    <3>1. pc'[q] = pc[q] /\ seen'[q] = seen[q] /\ creates'[q] = creates[q]
      BY <1>1 DEF Advances
    <3>2. CASE r[1] = 0
      <4>1. pc[q] \notin Steps
        BY <1>3, <3>2 DEF InFlight
      <4> QED
        BY <3>1, <4>1 DEF Knows
    <3>3. CASE r[1] > 0
      <4>1. Knows(q)
        OBVIOUS
      <4>2. 0 \in part' => 0 \in part
        BY <2>2, <3>3
      <4> QED
        BY <2>1, <3>1, <4>1, <4>2 DEF Knows
    <3> QED
      BY <1>4, <3>2, <3>3
  <2>9. fPc \in {"check", "probe", "move"} /\ 0 \in part' => 0 \in part
    BY <1>4, <2>2, <2>3
  <2>10. part = Chunks => part' = Chunks
    BY <2>1, <2>4
  <2>11. part \subseteq part' /\ raw \subseteq raw'
    BY <2>1
  <2> HIDE DEF IInv, TypeOK
  <2> QED
    BY <1>1, <2>4, <2>6, <2>7, <2>8, <2>9, <2>10, <2>11, AdvanceStep
<1> QED
  BY <1>5, <1>6, <1>7

-----------------------------------------------------------------------------
(* The request for completion. *)

LEMMA FinalStep ==
  ASSUME IInv, UploadComplete
  PROVE  IInv'
<1> USE DEF IInv, FGoto, client, requests, partFile, metaFile, library, history
<1>1. TypeOK'
  BY TypeFinal
<1>2. /\ UNCHANGED <<client, pc, seen, creates, sPc, overrun>>
      /\ fPc \in FinalSteps /\ fPc' # "idle"
  BY DEF UploadComplete, FinalRead, FinalCheck, FinalProbe, FinalReject, FinalMove,
         FinalDelete, FinalInsert, FinalSteps
<1>3. fPc # "idle" /\ cPc \in {"finishing", "done", "failed"} /\ ~video
  BY <1>2 DEF FinalKnows, FinalSteps
<1>4. /\ FirstIsAlone'
      /\ \A r \in Requests : InFlight(r)' <=> InFlight(r)
      /\ RemovalIsSeen'
  <2>1. FirstIsAlone' /\ \A r \in Requests : InFlight(r)' <=> InFlight(r)
    BY <1>2 DEF FirstIsAlone, InFlight, Current
  <2>2. Removing' <=> Removing
    BY <1>2 DEF Removing
  <2> QED
    BY <1>2, <1>3, <2>1, <2>2 DEF RemovalIsSeen
<1>5. CASE FinalRead \/ FinalCheck \/ FinalProbe \/ FinalInsert
  <2>1. UNCHANGED <<requests, partFile, metaFile, raw>>
    BY <1>5 DEF FinalRead, FinalCheck, FinalProbe, FinalInsert
  <2>2. Within' /\ Listed' /\ \A r \in Requests : Knows(r)'
    BY <1>2, <2>1 DEF Within, Listed, Knows
  <2>3. OldIsQuiet'
    BY <1>2, <1>3, <2>1 DEF OldIsQuiet, HasAnswer, InFlight, Current
  <2>4. FinalKnows'
    <3>1. CASE FinalRead
      <4>1. received = Chunks /\ 0 \in part => part = Chunks
        BY DEF Listed, TypeOK
      <4> QED
        BY <1>2, <1>3, <2>1, <3>1, <4>1 DEF FinalRead, FinalKnows
    <3>2. CASE FinalCheck
      BY <1>2, <1>3, <2>1, <3>2 DEF FinalCheck, FinalKnows
    <3>3. CASE FinalProbe
      BY <1>2, <1>3, <1>4, <2>1, <3>3 DEF FinalProbe, FinalKnows
    <3>4. CASE FinalInsert
      BY <1>2, <1>3, <2>1, <3>4 DEF FinalInsert, FinalKnows
    <3> QED
      BY <1>5, <3>1, <3>2, <3>3, <3>4
  <2> QED
    BY <1>1, <1>4, <2>2, <2>3, <2>4
<1>6. CASE FinalReject \/ FinalDelete
  <2>1. /\ UNCHANGED <<raw, video>>
        /\ UnlinkPart \/ UnlinkMeta
        /\ fPc' \in {"rejectMeta", "error", "deleteMeta", "insert"}
        /\ fPc' = "deleteMeta" => fPc = "delete"
        /\ fPc' = "insert" => fPc = "deleteMeta"
    BY <1>6 DEF FinalReject, FinalDelete
  <2>2. ASSUME UnlinkPart
        PROVE  Within' /\ Listed' /\ OldIsQuiet' /\ \A r \in Requests : Knows(r)'
    <3>1. staged' = FALSE /\ part' = {} /\ UNCHANGED <<received, old>>
      BY <2>2 DEF UnlinkPart
    <3>2. ASSUME NEW r \in Requests PROVE Knows(r)'
      <4>1. pc[r] = "data" => fd'[r] # "part"
        BY <2>2 DEF UnlinkPart, Unlinked, TypeOK
      <4> QED
        BY <1>2, <3>1, <4>1 DEF Knows
    <3> QED
      BY <1>2, <1>3, <3>1, <3>2 DEF Within, Listed, OldIsQuiet, HasAnswer, InFlight, Current
  <2>3. ASSUME UnlinkMeta
        PROVE  Within' /\ Listed' /\ OldIsQuiet' /\ \A r \in Requests : Knows(r)'
    <3>1. UNCHANGED partFile /\ received' = {} /\ old' = FALSE
      BY <2>3 DEF UnlinkMeta
    <3>2. ASSUME NEW r \in Requests PROVE Knows(r)'
      <4>1. pc[r] = "data" => fd'[r] = fd[r]
        BY <2>3 DEF UnlinkMeta, Unlinked, TypeOK
      <4> QED
        BY <1>2, <3>1, <4>1 DEF Knows
    <3> QED
      BY <1>2, <3>1, <3>2 DEF Within, Listed, OldIsQuiet, HasAnswer
  <2>4. Within' /\ Listed' /\ OldIsQuiet' /\ \A r \in Requests : Knows(r)'
    BY <2>1, <2>2, <2>3
  <2>5. FinalKnows'
    BY <1>2, <1>3, <2>1 DEF FinalKnows
  <2> QED
    BY <1>1, <1>4, <2>4, <2>5
<1>7. CASE FinalMove
  <2>1. fPc = "move" /\ UNCHANGED <<metaFile, video>>
    BY <1>7 DEF FinalMove
  <2>2. OldIsQuiet'
    BY <1>2, <1>3, <2>1 DEF OldIsQuiet, HasAnswer, InFlight, Current
  <2>3. CASE staged
    <3>1. part = Chunks \/ overrun
      BY <2>1, <2>3 DEF FinalKnows
    <3>2. raw' = part /\ part' = {} /\ fPc' = "delete"
      BY <1>7, <2>3 DEF FinalMove
    <3>3. ASSUME NEW r \in Requests PROVE Knows(r)'
      <4>1. pc[r] = "data" => fd'[r] # "part"
        BY <1>7, <2>3 DEF FinalMove, TypeOK
      <4> QED
        BY <1>2, <3>2, <4>1 DEF Knows
    <3>4. Within' /\ Listed'
      BY <1>2, <2>1, <3>2 DEF Within, Listed
    <3>5. FinalKnows'
      BY <1>2, <1>3, <2>1, <3>1, <3>2 DEF FinalKnows
    <3> QED
      BY <1>1, <1>4, <2>2, <3>3, <3>4, <3>5
  <2>4. CASE ~staged
    <3>1. UNCHANGED <<raw, partFile, fd>> /\ fPc' = "error"
      BY <1>7, <2>4 DEF FinalMove
    <3>2. \A r \in Requests : Knows(r)'
      BY <1>2, <3>1 DEF Knows
    <3>3. Within' /\ Listed'
      BY <1>2, <2>1, <3>1 DEF Within, Listed
    <3>4. FinalKnows'
      BY <1>2, <1>3, <2>1, <3>1 DEF FinalKnows
    <3> QED
      BY <1>1, <1>4, <2>2, <3>2, <3>3, <3>4
  <2> QED
    BY <2>3, <2>4 DEF TypeOK
<1> QED
  BY <1>5, <1>6, <1>7 DEF UploadComplete

-----------------------------------------------------------------------------
(* Idle uploads, their removal, and kills. *)

LEMMA IdleStep ==
  ASSUME IInv, Age \/ Kill \/ FinalFail
  PROVE  IInv'
<1> USE DEF IInv, client, requests, partFile, metaFile, library, history
<1>1. TypeOK'
  BY TypeFinal
<1>2. CASE Age
  <2>1. UNCHANGED <<client, requests, fPc, sPc, partFile, received, library, overrun>> /\ Quiet
    BY <1>2 DEF Age
  <2>2. \A r \in Requests : ~InFlight(r)'
    BY <2>1 DEF Quiet, InFlight
  <2>3. FirstIsAlone' /\ OldIsQuiet' /\ RemovalIsSeen' /\ FinalKnows'
    BY <2>1, <2>2 DEF FirstIsAlone, OldIsQuiet, HasAnswer, RemovalIsSeen, FinalKnows, Quiet,
                      FinalSteps, InFlight, Steps
  <2>4. Within' /\ Listed' /\ \A r \in Requests : Knows(r)'
    BY <2>1 DEF Within, Listed, Knows
  <2> QED
    BY <1>1, <2>3, <2>4
<1>3. CASE Kill
  <2>1. /\ UNCHANGED <<client, seen, creates, fd, partFile, metaFile, library, overrun>>
        /\ fPc' = IF fPc \in FinalSteps THEN "error" ELSE fPc
    BY <1>3 DEF Kill
  <2>2. \A r \in Requests : pc'[r] = IF InFlight(r) THEN "error" ELSE pc[r]
    BY <1>3 DEF Kill
  <2>3. \A r \in Requests : ~InFlight(r)' /\ pc'[r] \notin Reading
    BY <2>2 DEF InFlight, Steps, Reading
  <2>4. FirstIsAlone' /\ OldIsQuiet' /\ RemovalIsSeen'
    BY <2>1, <2>2, <2>3 DEF FirstIsAlone, OldIsQuiet, HasAnswer, RemovalIsSeen, InFlight, Steps
  <2>5. FinalKnows'
    BY <2>1 DEF FinalKnows, FinalSteps
  <2>6. Within' /\ Listed'
    BY <2>1, <2>3 DEF Within, Listed
  <2>7. \A r \in Requests : Knows(r)'
    BY <2>1, <2>3 DEF Knows, Reading
  <2> QED
    BY <1>1, <2>4, <2>5, <2>6, <2>7
<1>4. CASE FinalFail
  <2>1. /\ UNCHANGED <<client, requests, sPc, partFile, metaFile, library, overrun>>
        /\ fPc # "idle" /\ fPc # "ok" /\ fPc' \in {"incomplete", "error"}
    BY <1>4 DEF FinalFail, FGoto, FinalSteps
  <2>2. /\ Removing' <=> Removing
        /\ \A r \in Requests : InFlight(r)' <=> InFlight(r)
    BY <2>1 DEF Removing, InFlight
  <2>3. FirstIsAlone' /\ OldIsQuiet' /\ RemovalIsSeen'
    BY <2>1, <2>2 DEF FirstIsAlone, OldIsQuiet, HasAnswer, RemovalIsSeen, Current
  <2>4. FinalKnows'
    BY <2>1 DEF FinalKnows
  <2>5. Within' /\ Listed' /\ \A r \in Requests : Knows(r)'
    BY <2>1 DEF Within, Listed, Knows
  <2> QED
    BY <1>1, <2>3, <2>4, <2>5
<1> QED
  BY <1>2, <1>3, <1>4

LEMMA SweepStep ==
  ASSUME IInv, NEW s \in Sweepers, Sweep(s) \/ SweepFail(s)
  PROVE  IInv'
<1> USE DEF IInv, client, requests, partFile, metaFile, library, history
<1>1. TypeOK'
  BY TypeSweep
<1>2. /\ UNCHANGED <<client, pc, seen, creates, fPc, library, overrun>> /\ (old' => old)
      /\ Removing \/ old
  <2>1. UNCHANGED <<client, pc, seen, creates, fPc, library, overrun>>
    BY DEF Sweep, SweepLook, SweepPart, SweepMeta, SweepFail
  <2>2. old' => old
    BY DEF Sweep, SweepLook, SweepPart, SweepMeta, SweepFail, UnlinkPart, UnlinkMeta
  <2>3. Removing \/ old
    BY DEF Sweep, SweepLook, SweepPart, SweepMeta, SweepFail, Removing
  <2> QED
    BY <2>1, <2>2, <2>3
<1>3. \A r \in Requests : InFlight(r)' <=> InFlight(r)
  BY <1>2 DEF InFlight
<1>4. fPc # "idle" => overrun \/ \A r \in Requests : ~InFlight(r)
  BY <1>2 DEF OldIsQuiet, HasAnswer, RemovalIsSeen
<1>5. FirstIsAlone' /\ OldIsQuiet' /\ RemovalIsSeen'
  BY <1>2, <1>3, <1>4 DEF FirstIsAlone, OldIsQuiet, HasAnswer, RemovalIsSeen, Current
<1>6. CASE SweepLook(s) \/ SweepFail(s)
  <2>1. UNCHANGED <<requests, partFile, metaFile>>
    BY <1>6 DEF SweepLook, SweepFail
  <2>2. Within' /\ Listed' /\ FinalKnows' /\ \A r \in Requests : Knows(r)'
    BY <1>2, <1>3, <2>1 DEF Within, Listed, Knows, FinalKnows
  <2> QED
    BY <1>1, <1>5, <2>2
<1>7. CASE SweepPart(s)
  <2>1. staged' = FALSE /\ part' = {} /\ received' = received
    BY <1>7 DEF SweepPart, UnlinkPart
  <2>2. ASSUME NEW r \in Requests PROVE Knows(r)'
    <3>1. pc[r] = "data" => fd'[r] # "part"
      BY <1>7 DEF SweepPart, UnlinkPart, Unlinked, TypeOK
    <3> QED
      BY <1>2, <2>1, <3>1 DEF Knows
  <2>3. FinalKnows'
    BY <1>2, <1>3, <1>4, <2>1 DEF FinalKnows
  <2>4. Within' /\ Listed'
    BY <1>2, <2>1 DEF Within, Listed
  <2> QED
    BY <1>1, <1>5, <2>2, <2>3, <2>4
<1>8. CASE SweepMeta(s)
  <2>1. UNCHANGED partFile /\ received' = {}
    BY <1>8 DEF SweepMeta, UnlinkMeta
  <2>2. ASSUME NEW r \in Requests PROVE Knows(r)'
    <3>1. pc[r] = "data" => fd'[r] = fd[r]
      BY <1>8 DEF SweepMeta, UnlinkMeta, Unlinked, TypeOK
    <3> QED
      BY <1>2, <2>1, <3>1 DEF Knows
  <2>3. Within' /\ Listed' /\ FinalKnows'
    BY <1>2, <1>3, <2>1 DEF Within, Listed, FinalKnows
  <2> QED
    BY <1>1, <1>5, <2>2, <2>3
<1> QED
  BY <1>6, <1>7, <1>8 DEF Sweep

-----------------------------------------------------------------------------
LEMMA IInvStep == 0 \notin Linger /\ IInv /\ [Next]_vars => IInv'
<1> SUFFICES ASSUME 0 \notin Linger, IInv, [Next]_vars PROVE IInv'
  OBVIOUS
<1>1. CASE UNCHANGED vars
  <2>1. TypeOK'
    BY <1>1, TypeStep DEF IInv
  <2> USE DEF vars, client, requests, partFile, metaFile, library, history
  <2>2. FirstIsAlone' /\ Within' /\ Listed'
    BY <1>1 DEF IInv, FirstIsAlone, Within, Listed, InFlight, Current
  <2>3. OldIsQuiet' /\ RemovalIsSeen' /\ FinalKnows'
    BY <1>1 DEF IInv, OldIsQuiet, HasAnswer, RemovalIsSeen, Removing, FinalKnows, InFlight, Current
  <2>4. \A r \in Requests : Knows(r)'
    BY <1>1 DEF IInv, Knows
  <2> QED
    BY <2>1, <2>2, <2>3, <2>4 DEF IInv
<1>2. ASSUME NEW r \in Requests, UploadChunk(r) \/ Fail(r) PROVE IInv'
  BY <1>2, StagedStep, PartStep DEF UploadChunk
<1> QED
  BY <1>1, <1>2, BrowserStep, FinalStep, IdleStep, SweepStep DEF Next

\* A request for the first chunk that outlives its connection can empty the file
\* that later chunks have been written to (README, observed limits).
FirstEndsWithItsConnection == 0 \notin Linger

\* A video is made of every chunk of its file, whatever the other requests, kills
\* and the removal of old uploads do, unless such a removal went on beside a late
\* request when completion was asked for.
THEOREM UploadsAreWhole == FirstEndsWithItsConnection /\ Spec => []VideoIsWhole
<1>1. IInv => VideoIsWhole
  BY DEF IInv, FinalKnows, VideoIsWhole
<1>2. ASSUME 0 \notin Linger PROVE Spec => []VideoIsWhole
  BY <1>1, <1>2, IInvInit, IInvStep, PTL DEF Spec
<1> QED
  BY <1>2 DEF FirstEndsWithItsConnection

-----------------------------------------------------------------------------
(* Staging files. *)

\* No request is sent twice.
Fresh ==
    cPc \in {"send", "wait"} =>
        \A r \in Requests :
            \/ r[1] > index
            \/ r[1] = index /\ r[2] > attempt
            \/ r = Current /\ cPc = "send"
            => pc[r] = "new"

\* .part comes up between the two removals only if a request creates it there.
BetweenIsEmpty == Between /\ staged => overtaken

SInv == TypeOK /\ Fresh /\ BetweenIsEmpty /\ StagingIsSeen

LEMMA FreshBrowser ==
  ASSUME TypeOK, Fresh, Browser
  PROVE  Fresh'
<1>1. /\ index \in Nat /\ attempt \in Nat
      /\ \A r \in Requests : r[1] \in Nat /\ r[2] \in Nat
  <2>1. attempt \in Nat
    BY UploadAssumption DEF TypeOK
  <2>2. ASSUME NEW r \in Requests PROVE r[2] \in Nat
    BY UploadAssumption DEF Requests
  <2> QED
    BY <2>1, <2>2, RequestFacts
<1> USE RequestFacts DEF TypeOK, requests
<1>2. Current[1] = index /\ Current[2] = attempt
  BY DEF Current
<1>3. CASE Send
  <2>1. /\ UNCHANGED <<index, attempt>> /\ cPc = "send" /\ cPc' = "wait"
        /\ \A r \in Requests \ {Current} : pc'[r] = pc[r]
    BY <1>3 DEF Send
  <2> QED
    BY <1>1, <1>2, <2>1 DEF Fresh
<1>4. CASE Answered
  <2>1. CASE index = Total - 1
    BY <1>4, <2>1 DEF Answered, Fresh
  <2>2. CASE index # Total - 1
    <3>1. pc' = pc /\ attempt' = 0 /\ index' = index + 1 /\ cPc = "wait"
      BY <1>4, <2>2 DEF Answered
    <3>2. Current'[1] = index + 1
      BY <3>1 DEF Current
    <3>3. ASSUME NEW r \in Requests, r[1] >= index + 1 PROVE pc[r] = "new"
      BY <1>1, <3>1, <3>3 DEF Fresh
    <3> QED
      BY <1>1, <3>1, <3>2, <3>3 DEF Fresh
  <2> QED
    BY <2>1, <2>2
<1>5. CASE Refused \/ ConnectionLost \/ Outlived
  <2>1. CASE cPc' = "failed"
    BY <2>1 DEF Fresh
  <2>2. CASE cPc' # "failed"
    <3>1. /\ index' = index /\ attempt' = attempt + 1 /\ cPc = "wait"
          /\ \A r \in Requests \ {Current} : pc'[r] = pc[r]
      BY <1>5, <2>2 DEF Refused, ConnectionLost, Outlived, TryAgain
    <3>2. Current'[1] = index /\ Current'[2] = attempt + 1
      BY <3>1 DEF Current
    <3>3. ASSUME NEW r \in Requests, r[1] > index \/ (r[1] = index /\ r[2] >= attempt + 1)
          PROVE  pc[r] = "new" /\ r # Current
      BY <1>1, <1>2, <3>1, <3>3 DEF Fresh
    <3> QED
      BY <1>1, <3>1, <3>2, <3>3 DEF Fresh
  <2> QED
    BY <2>1, <2>2
<1>6. CASE Complete \/ Completed
  BY <1>6 DEF Complete, Completed, Fresh
<1> QED
  BY <1>3, <1>4, <1>5, <1>6 DEF Browser

LEMMA FreshServer ==
  ASSUME TypeOK, Fresh,
         \/ UploadComplete \/ Age \/ Kill \/ FinalFail
         \/ \E r \in Requests : UploadChunk(r) \/ Fail(r)
         \/ \E s \in Sweepers : Sweep(s) \/ SweepFail(s)
  PROVE  Fresh'
<1>1. client' = client /\ \A q \in Requests : pc[q] = "new" => pc'[q] = "new"
  <2> USE DEF TypeOK, requests, Goto, InFlight, Steps
  <2>1. CASE UploadComplete \/ Age \/ FinalFail
    BY <2>1 DEF UploadComplete, FinalRead, FinalCheck, FinalProbe, FinalReject, FinalMove,
                FinalDelete, FinalInsert, Age, FinalFail
  <2>2. CASE Kill
    BY <2>2 DEF Kill
  <2>3. ASSUME NEW r \in Requests, UploadChunk(r) \/ Fail(r)
        PROVE  client' = client /\ \A q \in Requests : pc[q] = "new" => pc'[q] = "new"
    BY <2>3 DEF UploadChunk, CleanupLook, CleanupPart, CleanupMeta, ReadMeta, Look, Open,
                WriteData, OpenMeta, WriteMeta, Fail
  <2>4. ASSUME NEW s \in Sweepers, Sweep(s) \/ SweepFail(s)
        PROVE  client' = client /\ pc' = pc
    BY <2>4 DEF Sweep, SweepLook, SweepPart, SweepMeta, SweepFail
  <2> QED
    BY <2>1, <2>2, <2>3, <2>4
<1> QED
  BY <1>1 DEF Fresh, client, Current

LEMMA BetweenStep ==
  ASSUME TypeOK, BetweenIsEmpty, [Next]_vars
  PROVE  BetweenIsEmpty'
<1> USE DEF TypeOK, partFile, metaFile, history, requests, client
<1>1. CASE Browser \/ Age \/ UNCHANGED vars
  <2>1. UNCHANGED <<staged, overtaken, sPc>>
    BY <1>1 DEF Browser, Send, Answered, Refused, ConnectionLost, Outlived, Complete,
                Completed, Age, vars
  <2>2. fPc' \in {"rejectMeta", "deleteMeta"} => fPc' = fPc
    BY <1>1 DEF Browser, Send, Answered, Refused, ConnectionLost, Outlived, Complete,
                Completed, Age, vars
  <2>3. \A r \in Requests : pc'[r] = "gcMeta" => pc[r] = "gcMeta"
    BY <1>1 DEF Browser, Send, Answered, Refused, ConnectionLost, Outlived, Complete,
                Completed, Age, vars
  <2> QED
    BY <2>1, <2>2, <2>3 DEF BetweenIsEmpty, Between
<1>2. CASE UploadComplete \/ Kill \/ FinalFail
  <2>1. UNCHANGED overtaken /\ (staged' => staged)
    BY <1>2 DEF UploadComplete, FinalRead, FinalCheck, FinalProbe, FinalReject, FinalMove,
                FinalDelete, FinalInsert, Kill, FinalFail, UnlinkPart, UnlinkMeta
  <2>2. fPc' \in {"rejectMeta", "deleteMeta"} => staged' = FALSE
    BY <1>2 DEF UploadComplete, FinalRead, FinalCheck, FinalProbe, FinalReject, FinalMove,
                FinalDelete, FinalInsert, Kill, FinalFail, UnlinkPart, FGoto, FinalSteps
  <2>3. /\ \A r \in Requests : pc'[r] = "gcMeta" => pc[r] = "gcMeta"
        /\ \A s \in Sweepers : sPc'[s] = "meta" => sPc[s] = "meta"
    BY <1>2 DEF UploadComplete, FinalRead, FinalCheck, FinalProbe, FinalReject, FinalMove,
                FinalDelete, FinalInsert, Kill, FinalFail
  <2> QED
    BY <2>1, <2>2, <2>3 DEF BetweenIsEmpty, Between
<1>3. ASSUME NEW r \in Requests, UploadChunk(r) \/ Fail(r) PROVE BetweenIsEmpty'
  <2>1. CASE CleanupPart(r)
    BY <2>1 DEF CleanupPart, UnlinkPart, BetweenIsEmpty
  <2>2. UNCHANGED <<fPc, sPc>>
    BY <1>3 DEF UploadChunk, CleanupLook, CleanupPart, CleanupMeta, ReadMeta, Look, Open,
                WriteData, OpenMeta, WriteMeta, Fail
  <2>3. CASE ~CleanupPart(r)
    <3>1. \A q \in Requests : pc'[q] = "gcMeta" => pc[q] = "gcMeta"
      BY <1>3, <2>3 DEF UploadChunk, CleanupLook, CleanupMeta, ReadMeta, Look, Open, WriteData,
                        OpenMeta, WriteMeta, Fail, Goto
    <3>2. Between' => Between
      BY <2>2, <3>1 DEF Between
    <3>3. CASE Open(r)
      <4>1. staged' => staged \/ creates[r]
        BY <3>3 DEF Open
      <4>2. (creates[r] /\ Between) \/ overtaken => overtaken'
        BY <3>3 DEF Open
      <4> QED
        BY <3>2, <4>1, <4>2 DEF BetweenIsEmpty
    <3>4. CASE ~Open(r)
      <4>1. UNCHANGED <<staged, overtaken>>
        BY <1>3, <2>3, <3>4 DEF UploadChunk, CleanupLook, CleanupMeta, UnlinkMeta, ReadMeta,
                                Look, WriteData, OpenMeta, WriteMeta, Fail
      <4> QED
        BY <3>2, <4>1 DEF BetweenIsEmpty
    <3> QED
      BY <3>3, <3>4
  <2> QED
    BY <2>1, <2>3
<1>4. ASSUME NEW s \in Sweepers, Sweep(s) \/ SweepFail(s) PROVE BetweenIsEmpty'
  <2>1. CASE SweepPart(s)
    BY <2>1 DEF SweepPart, UnlinkPart, BetweenIsEmpty
  <2>2. CASE ~SweepPart(s)
    <3>1. UNCHANGED <<pc, fPc, staged, overtaken>>
      BY <1>4, <2>2 DEF Sweep, SweepLook, SweepMeta, UnlinkMeta, SweepFail
    <3>2. \A t \in Sweepers : sPc'[t] = "meta" => sPc[t] = "meta"
      BY <1>4, <2>2 DEF Sweep, SweepLook, SweepMeta, SweepFail, SGoto
    <3> QED
      BY <3>1, <3>2 DEF BetweenIsEmpty, Between
  <2> QED
    BY <2>1, <2>2
<1> QED
  BY <1>1, <1>2, <1>3, <1>4 DEF Next

LEMMA SeenStep ==
  ASSUME TypeOK, Fresh, BetweenIsEmpty, StagingIsSeen, [Next]_vars
  PROVE  StagingIsSeen'
<1> USE DEF TypeOK, partFile, metaFile, history, requests
<1> DEFINE AtWork(r) == pc[r] \in {"data", "metaOpen"}
<1>1. CASE Browser \/ UNCHANGED vars
  <2>1. UNCHANGED <<partFile, metaFile, overtaken, faults>>
    BY <1>1 DEF Browser, Send, Answered, Refused, ConnectionLost, Outlived, Complete,
                Completed, vars
  <2>2. ASSUME NEW r \in Requests, AtWork(r) PROVE AtWork(r)'
    <3>1. CASE Send
      <4>1. r # Current
        BY <2>2, <3>1, RequestFacts DEF Send, Fresh
      <4> QED
        BY <2>2, <3>1, <4>1 DEF Send
    <3>2. CASE ConnectionLost
      BY <2>2, <3>2 DEF ConnectionLost
    <3>3. CASE ~Send /\ ~ConnectionLost
      BY <1>1, <2>2, <3>3 DEF Browser, Answered, Refused, Outlived, Complete, Completed, vars
    <3> QED
      BY <3>1, <3>2, <3>3
  <2> QED
    BY <2>1, <2>2 DEF StagingIsSeen
<1>2. CASE Age \/ UploadComplete
  <2>1. /\ pc' = pc /\ UNCHANGED <<overtaken, faults>>
        /\ staged' /\ meta' = "none" => staged /\ (meta = "none" \/ overtaken)
    BY <1>2 DEF Age, UploadComplete, FinalRead, FinalCheck, FinalProbe, FinalReject, FinalMove,
                FinalDelete, FinalInsert, UnlinkPart, UnlinkMeta, BetweenIsEmpty, Between
  <2> QED
    BY <2>1 DEF StagingIsSeen
<1>3. ASSUME NEW r \in Requests, UploadChunk(r) PROVE StagingIsSeen'
  <2> USE DEF Goto
  <2>1. CASE CleanupLook(r) \/ CleanupPart(r) \/ CleanupMeta(r) \/ ReadMeta(r) \/ Look(r)
    <3>1. /\ UNCHANGED <<overtaken, faults>>
          /\ staged' /\ meta' = "none" => staged /\ (meta = "none" \/ overtaken)
          /\ \A q \in Requests : AtWork(q) => AtWork(q)'
      BY <2>1 DEF CleanupLook, CleanupPart, CleanupMeta, ReadMeta, Look, UnlinkPart, UnlinkMeta,
                  BetweenIsEmpty, Between
    <3> QED
      BY <3>1 DEF StagingIsSeen
  <2>2. CASE Open(r)
    <3>1. staged' => staged \/ AtWork(r)'
      BY <2>2 DEF Open
    <3>2. /\ UNCHANGED <<meta, faults>> /\ (overtaken => overtaken')
          /\ \A q \in Requests : AtWork(q) => AtWork(q)'
      BY <2>2 DEF Open
    <3> QED
      BY <3>1, <3>2 DEF StagingIsSeen
  <2>3. CASE WriteData(r)
    <3>1. AtWork(r)'
      BY <2>3 DEF WriteData
    <3> QED
      BY <3>1 DEF StagingIsSeen
  <2>4. CASE OpenMeta(r)
    BY <2>4 DEF OpenMeta, StagingIsSeen
  <2>5. CASE WriteMeta(r)
    <3>1. /\ UNCHANGED <<overtaken, faults>>
          /\ staged' /\ meta' = "none" => staged /\ meta = "none"
          /\ \A q \in Requests : AtWork(q) => AtWork(q)'
      BY <2>5 DEF WriteMeta
    <3> QED
      BY <3>1 DEF StagingIsSeen
  <2> QED
    BY <1>3, <2>1, <2>2, <2>3, <2>4, <2>5 DEF UploadChunk
<1>4. ASSUME NEW s \in Sweepers, Sweep(s) PROVE StagingIsSeen'
  <2>1. /\ pc' = pc /\ UNCHANGED <<overtaken, faults>>
        /\ staged' /\ meta' = "none" => staged /\ (meta = "none" \/ overtaken)
    BY <1>4 DEF Sweep, SweepLook, SweepPart, SweepMeta, UnlinkPart, UnlinkMeta,
                BetweenIsEmpty, Between
  <2> QED
    BY <2>1 DEF StagingIsSeen
<1>5. CASE Kill \/ FinalFail \/ (\E r \in Requests : Fail(r)) \/ \E s \in Sweepers : SweepFail(s)
  <2>1. Fault
    BY <1>5 DEF Kill, FinalFail, Fail, SweepFail
  <2> QED
    BY <2>1, TypeFault DEF StagingIsSeen
<1> QED
  BY <1>1, <1>2, <1>3, <1>4, <1>5 DEF Next

\* A .part file without its .meta file belongs to a request at work, is left from
\* a fault, or was created between the two removals of an old, a refused or a
\* finished upload; every variable stays within its domain.  For any Linger.
THEOREM StagingIsTracked == Spec => [](TypeOK /\ StagingIsSeen)
<1>1. Init => SInv
  <2>1. Init => TypeOK
    BY IInvInit DEF IInv
  <2>2. Init => Fresh /\ BetweenIsEmpty /\ StagingIsSeen
    BY DEF Init, Fresh, BetweenIsEmpty, StagingIsSeen
  <2> QED
    BY <2>1, <2>2 DEF SInv
<1>2. SInv /\ [Next]_vars => SInv'
  <2> SUFFICES ASSUME SInv, [Next]_vars PROVE SInv'
    OBVIOUS
  <2>1. TypeOK' /\ BetweenIsEmpty' /\ StagingIsSeen'
    BY BetweenStep, SeenStep, TypeStep DEF SInv
  <2>2. CASE UNCHANGED vars
    BY <2>1, <2>2 DEF SInv, Fresh, vars, client, requests, Current
  <2>3. CASE Next
    BY <2>1, <2>3, FreshBrowser, FreshServer DEF SInv, Next
  <2> QED
    BY <2>2, <2>3
<1>3. SInv => TypeOK /\ StagingIsSeen
  BY DEF SInv
<1> QED
  BY <1>1, <1>2, <1>3, PTL DEF Spec

\* Every variable of an upload keeps its domain, whatever requests come late.
THEOREM TypeCorrect == Spec => []TypeOK
  BY StagingIsTracked, PTL
-----------------------------------------------------------------------------
(* Refusals. *)

\* No request has outlived its connection, the upload never lay idle for too long,
\* and nothing has failed.
Calm == ~late /\ ~aged /\ faults = 0

\* The browser waits for the only request there is.
OneAtWork ==
    /\ \A r \in Requests : InFlight(r) => cPc = "wait" /\ r = Current
    /\ fPc # "idle" => cPc \in {"finishing", "done", "failed"}

\* The request at work finds every earlier chunk listed, and puts them on its list.
Extends(r) ==
    /\ pc[r] # "metaWrite" => 0 .. index - 1 \subseteq received
    /\ pc[r] \in Reading => 0 .. index - 1 \subseteq seen[r]
    /\ pc[r] = "metaWrite" =>
           0 .. index \subseteq seen[r] /\ fd[r] = "meta" /\ meta = "empty"
    /\ pc[r] \in {"data", "metaOpen", "metaWrite"} => staged

\* What was acknowledged is listed, and what is listed is staged.
AckedIsListed ==
    /\ cPc = "send" => 0 .. index - 1 \subseteq received
    /\ cPc = "wait" => Extends(Current)
    /\ cPc = "wait" /\ pc[Current] = "ok" => 0 .. index \subseteq received
    /\ cPc \in {"complete", "finishing"} /\ fPc = "idle" => received = Chunks
    /\ received # {} /\ fPc \notin {"rejectMeta", "delete", "deleteMeta"} => staged
    /\ ~old /\ ~Removing

FinalFinds ==
    /\ fPc = "read" => received = Chunks
    /\ fPc = "check" => staged
    /\ fPc # "incomplete"

Smooth == OneAtWork /\ AckedIsListed /\ FinalFinds

LEMMA SmoothBrowser ==
  ASSUME TypeOK, Smooth, Browser, ~late'
  PROVE  Smooth'
<1> USE RequestFacts DEF Smooth, TypeOK, requests, partFile, metaFile, library, history
<1>1. Current \in Requests /\ Current[1] = index /\ index \in Nat
  OBVIOUS
<1>a. ~Removing'
  <2>1. sPc' = sPc /\ \A r \in Requests : pc'[r] = pc[r] \/ pc'[r] \in {"gc", "over"}
    BY DEF Browser, Send, Answered, Refused, ConnectionLost, Outlived, Complete, Completed
  <2> QED
    BY <2>1 DEF AckedIsListed, Removing
<1>2. CASE Send
  <2>1. \A r \in Requests : pc'[r] = IF r = Current THEN "gc" ELSE pc[r]
    BY <1>1, <1>2 DEF Send
  <2>2. /\ Current' = Current /\ index' = index /\ cPc = "send" /\ cPc' = "wait" /\ fPc = "idle"
        /\ UNCHANGED <<seen, creates, fd, fPc, partFile, metaFile>>
    BY <1>2 DEF Send, Current, OneAtWork
  <2>3. OneAtWork'
    BY <2>1, <2>2 DEF OneAtWork, InFlight
  <2>4. AckedIsListed'
    BY <1>1, <1>a, <2>1, <2>2 DEF AckedIsListed, Extends, Reading
  <2> QED
    BY <2>2, <2>3, <2>4 DEF FinalFinds
<1>3. CASE Answered
  <2>1. /\ UNCHANGED <<requests, fPc, partFile, metaFile>> /\ cPc = "wait" /\ fPc = "idle"
        /\ pc[Current] = "ok" /\ 0 .. index \subseteq received
    BY <1>3 DEF Answered, OneAtWork, AckedIsListed
  <2>2. \A r \in Requests : ~InFlight(r)
    BY <2>1 DEF OneAtWork, InFlight, Steps
  <2>3. OneAtWork'
    BY <2>1, <2>2 DEF OneAtWork, InFlight
  <2>4. CASE index = Total - 1
    <3>1. received = Chunks /\ cPc' = "complete"
      BY <1>3, <2>1, <2>4 DEF Answered, Chunks
    <3> QED
      BY <1>a, <2>1, <2>3, <3>1 DEF AckedIsListed, FinalFinds
  <2>5. CASE index # Total - 1
    <3>1. index' = index + 1 /\ cPc' = "send"
      BY <1>3, <2>5 DEF Answered
    <3>2. 0 .. index' - 1 \subseteq received
      BY <1>1, <2>1, <3>1
    <3> QED
      BY <1>a, <2>1, <2>3, <3>1, <3>2 DEF AckedIsListed, FinalFinds
  <2> QED
    BY <2>4, <2>5
<1>4. CASE Refused \/ ConnectionLost
  <2>1. /\ cPc = "wait" /\ pc[Current] \in {"error", "gc", "ok"} /\ cPc' \in {"send", "failed"}
        /\ UNCHANGED <<index, seen, creates, fd, fPc, partFile, metaFile>>
    BY <1>4 DEF Refused, ConnectionLost, TryAgain
  <2>2. \A r \in Requests : InFlight(r)' => InFlight(r) /\ r # Current
    BY <1>4, <2>1 DEF Refused, ConnectionLost, InFlight, Steps
  <2>3. fPc = "idle" /\ 0 .. index - 1 \subseteq received
    BY <2>1 DEF OneAtWork, AckedIsListed, Extends
  <2>4. OneAtWork'
    BY <2>1, <2>2, <2>3 DEF OneAtWork
  <2> QED
    BY <1>a, <2>1, <2>3, <2>4 DEF AckedIsListed, FinalFinds
<1>5. CASE Complete
  <2>1. /\ UNCHANGED <<requests, partFile, metaFile>> /\ cPc = "complete" /\ fPc = "idle"
        /\ cPc' = "finishing" /\ fPc' = "read"
    BY <1>5 DEF Complete, OneAtWork
  <2> QED
    BY <1>a, <2>1 DEF OneAtWork, AckedIsListed, FinalFinds, InFlight
<1>6. CASE Completed
  <2>1. /\ UNCHANGED <<requests, fPc, partFile, metaFile>> /\ cPc = "finishing"
        /\ cPc' \in {"done", "failed"}
    BY <1>6 DEF Completed
  <2> QED
    BY <1>a, <2>1 DEF OneAtWork, AckedIsListed, FinalFinds, InFlight
<1>7. ~Outlived
  BY DEF Outlived
<1> QED
  BY <1>2, <1>3, <1>4, <1>5, <1>6, <1>7 DEF Browser

LEMMA SmoothChunk ==
  ASSUME TypeOK, Smooth, NEW r \in Requests, UploadChunk(r)
  PROVE  Smooth'
<1> USE RequestFacts DEF Smooth, TypeOK, Goto, Reading, client, requests, partFile, metaFile
<1>1. InFlight(r) /\ UNCHANGED <<client, fPc, sPc>> /\ \A q \in Requests \ {r} : pc'[q] = pc[q]
  BY DEF UploadChunk, CleanupLook, CleanupPart, CleanupMeta, ReadMeta, Look, Open, WriteData,
         OpenMeta, WriteMeta, InFlight, Steps
<1>2. /\ cPc = "wait" /\ r = Current /\ r = Current' /\ r[1] = index /\ index \in Nat
      /\ fPc = "idle"
  BY <1>1 DEF OneAtWork, Current
<1>3. OneAtWork' /\ FinalFinds'
  BY <1>1, <1>2 DEF OneAtWork, FinalFinds, InFlight
<1>4. Extends(r) /\ ~old /\ ~Removing /\ (received # {} => staged)
  BY <1>2 DEF AckedIsListed
<1>5. ~CleanupPart(r) /\ ~CleanupMeta(r) /\ ~Removing'
  <2>1. ~CleanupPart(r) /\ ~CleanupMeta(r)
    BY <1>4 DEF CleanupPart, CleanupMeta, Removing
  <2>2. pc'[r] \notin {"gcPart", "gcMeta"}
    BY <1>4, <2>1 DEF UploadChunk, CleanupLook, ReadMeta, Look, Open, WriteData, OpenMeta, WriteMeta
  <2> QED
    BY <1>1, <1>4, <2>1, <2>2 DEF Removing
<1> HIDE DEF Current
<1>6. SUFFICES /\ Extends(r)' /\ ~old' /\ (received' # {} => staged')
               /\ pc'[r] = "ok" => 0 .. index \subseteq received'
  BY <1>1, <1>2, <1>3, <1>5 DEF AckedIsListed
<1>7. index' = index
  BY <1>1
<1>8. CASE CleanupLook(r) \/ ReadMeta(r) \/ Look(r)
  BY <1>4, <1>7, <1>8 DEF CleanupLook, ReadMeta, Look, Extends
<1>9. CASE Open(r) \/ WriteData(r)
  BY <1>4, <1>7, <1>9 DEF Open, WriteData, Extends
<1>10. CASE OpenMeta(r)
  <2>1. /\ pc[r] = "metaOpen" /\ pc'[r] = "metaWrite" /\ seen'[r] = seen[r] \cup {index}
        /\ fd'[r] = "meta" /\ meta' = "empty" /\ received' = {} /\ ~old' /\ staged' = staged
    BY <1>2, <1>10 DEF OpenMeta
  <2>2. 0 .. index \subseteq seen'[r]
    BY <1>2, <1>4, <2>1 DEF Extends
  <2> QED
    BY <1>4, <1>7, <2>1, <2>2 DEF Extends
<1>11. CASE WriteMeta(r)
  <2>1. /\ pc'[r] = "ok" /\ received' = seen[r] /\ UNCHANGED <<staged, old>>
        /\ pc[r] = "metaWrite"
    BY <1>4, <1>11 DEF WriteMeta, Extends
  <2>2. 0 .. index \subseteq received' /\ 0 .. index - 1 \subseteq received' /\ staged'
    BY <1>2, <1>4, <2>1 DEF Extends
  <2> QED
    BY <1>4, <1>7, <2>1, <2>2 DEF Extends
<1> QED
  BY <1>5, <1>8, <1>9, <1>10, <1>11 DEF UploadChunk

LEMMA SmoothFinal ==
  ASSUME TypeOK, Smooth, UploadComplete
  PROVE  Smooth'
<1> USE DEF Smooth, FGoto, client, requests, partFile, metaFile
<1>1. UNCHANGED <<client, pc, sPc>> /\ fPc # "idle" /\ fPc' # "idle"
  BY DEF UploadComplete, FinalRead, FinalCheck, FinalProbe, FinalReject, FinalMove,
         FinalDelete, FinalInsert
<1>2. cPc \in {"finishing", "done", "failed"} /\ OneAtWork'
  BY <1>1 DEF OneAtWork, InFlight
<1>3. /\ ~old' /\ ~Removing'
      /\ received' # {} /\ fPc' \notin {"rejectMeta", "delete", "deleteMeta"} => staged'
      /\ fPc' = "read" => received' = Chunks
      /\ fPc' = "check" => staged'
      /\ fPc' # "incomplete"
  <2>1. Chunks # {}
    BY RequestFacts
  <2>2. ~Removing'
    BY <1>1 DEF AckedIsListed, Removing
  <2>3. CASE FinalRead \/ FinalCheck \/ FinalProbe \/ FinalInsert
    BY <2>1, <2>2, <2>3 DEF FinalRead, FinalCheck, FinalProbe, FinalInsert, AckedIsListed,
                            FinalFinds
  <2>4. CASE FinalReject \/ FinalDelete
    BY <2>2, <2>4 DEF FinalReject, FinalDelete, UnlinkPart, UnlinkMeta, AckedIsListed
  <2>5. CASE FinalMove
    BY <2>2, <2>5 DEF FinalMove, AckedIsListed
  <2> QED
    BY <2>3, <2>4, <2>5 DEF UploadComplete
<1> QED
  BY <1>1, <1>2, <1>3 DEF AckedIsListed, FinalFinds, client

LEMMA SmoothStep ==
  TypeOK /\ (Calm => Smooth) /\ [Next]_vars => (Calm => Smooth)'
<1> SUFFICES ASSUME TypeOK, Calm => Smooth, [Next]_vars, Calm' PROVE Smooth'
  OBVIOUS
<1>1. CASE UNCHANGED vars
  BY <1>1 DEF vars, client, requests, partFile, metaFile, history, Calm, Smooth, OneAtWork,
              AckedIsListed, Extends, FinalFinds, InFlight, Current, Removing
<1>2. CASE Browser
  <2>1. ~late /\ UNCHANGED <<aged, faults>>
    BY <1>2 DEF Browser, Send, Answered, Refused, ConnectionLost, Outlived, Complete,
                Completed, history, Calm
  <2> QED
    BY <1>2, <2>1, SmoothBrowser DEF Calm
<1>3. CASE UploadComplete
  <2>1. UNCHANGED history
    BY <1>3 DEF UploadComplete, FinalRead, FinalCheck, FinalProbe, FinalReject, FinalMove,
                FinalDelete, FinalInsert
  <2> QED
    BY <1>3, <2>1, SmoothFinal DEF Calm, history
<1>4. ASSUME NEW r \in Requests, UploadChunk(r) PROVE Smooth'
  <2>1. UNCHANGED <<late, aged, faults>>
    BY <1>4 DEF UploadChunk, CleanupLook, CleanupPart, CleanupMeta, ReadMeta, Look, Open,
                WriteData, OpenMeta, WriteMeta, history
  <2> QED
    BY <1>4, <2>1, SmoothChunk DEF Calm
<1>5. ASSUME NEW s \in Sweepers, Sweep(s) PROVE FALSE
  <2>1. Calm
    BY <1>5 DEF Sweep, SweepLook, SweepPart, SweepMeta, Calm, history
  <2> QED
    BY <1>5, <2>1 DEF Sweep, SweepLook, SweepPart, SweepMeta, Smooth, AckedIsListed, Removing
<1>6. CASE Age
  BY <1>6 DEF Age, Calm
<1>7. ~Fault
  BY TypeFault DEF Calm
<1> QED
  BY <1>1, <1>2, <1>3, <1>4, <1>5, <1>6, <1>7 DEF Next, Kill, FinalFail, Fail, SweepFail

\* An upload whose chunks were all acknowledged is refused as incomplete only after
\* a request outlived its connection, six idle hours, or a fault, however many of
\* its requests and answers are lost.
THEOREM RefusalsHaveCauses == Spec => []RefusalHasACause
<1>1. Init => (Calm => Smooth)
  <2> SUFFICES ASSUME Init PROVE Smooth
    OBVIOUS
  <2>1. 0 .. index - 1 = {}
    BY DEF Init
  <2> QED
    BY <2>1 DEF Init, Smooth, OneAtWork, AckedIsListed, FinalFinds, InFlight, Steps, Removing
<1>2. TypeOK /\ (Calm => Smooth) => RefusalHasACause
  <2>1. TypeOK => faults \in Nat
    BY UploadAssumption DEF TypeOK
  <2> QED
    BY <2>1 DEF Calm, Smooth, FinalFinds, RefusalHasACause
<1> QED
  BY <1>1, <1>2, SmoothStep, TypeCorrect, PTL DEF Spec
=============================================================================
