-------------------------- MODULE MediaFilesProofs --------------------------
(***************************************************************************)
(* Proofs about MediaFiles, for any videos, owners, renditions, deletions, *)
(* runs and faults.                                                        *)
(***************************************************************************)
EXTENDS MediaFiles, SequenceTheorems, TLAPS

\* The rendition a run is at, and those it is through with.
Out(v) == Renditions[at[v]]
Before(v) == {Renditions[i] : i \in {i \in 1..Len(Renditions) : i < at[v]}}

ReadingPcs == {"poster", "setPoster", "insert", "open", "create", "encode", "record",
               "verdict", "unlink"}
RenditionPcs == {"open", "create", "encode", "record"}

\* A video that has no row yet has no run and is in no deletion.
RowFirst ==
    /\ \A v \in Videos : uPc[v] \in {"new", "written"} => status[v] = "absent"
    /\ \A v \in Videos : status[v] = "absent" => rPc[v] = "none"
    /\ \A d \in Deletes : \A v \in selected[d] : uPc[v] = "done"

\* Where a run is in its renditions; it clears raw_path after the file.
InOrder(v) ==
    /\ rPc[v] \in {"mkdir", "probe", "poster", "setPoster", "insert"} => at[v] = 1
    /\ rPc[v] \in RenditionPcs => at[v] <= Len(Renditions)
    /\ rPc[v] = "create" => ~rc[v]
    /\ rPc[v] = "nullRaw" => "raw" \notin files[v]
    /\ Exists(v) /\ ~rawPath[v] => "raw" \notin files[v]

RunInOrder == \A v \in Videos : InOrder(v)

\* While nobody deletes the video, what a run has seen is still so.
Knows(v) ==
    /\ uPc[v] = "written" \/ rPc[v] \in ReadingPcs => "raw" \in files[v]
    /\ rPc[v] = "setPoster" => "poster" \in files[v]
    /\ rPc[v] = "record" /\ rc[v] /\ Out(v) \in files[v] => Out(v) \in whole[v]
    /\ v \notin rerun /\ rPc[v] \in RenditionPcs => ready[v] \subseteq Before(v)
    /\ v \notin rerun /\ rPc[v] = "unlink" => whole[v] # {}

RunKnows == \A v \in Videos \ purged : Knows(v)

DeletionInOrder ==
    \A d \in Deletes :
        /\ todo[d] \subseteq selected[d]
        /\ dPc[d] \in {"scan", "rmdir"} =>
              current[d] \in purged /\ current[d] \in selected[d] \ todo[d]

\* What a deletion has read, and what it leaves of a video that it is through with.
HasRead(d, v) ==
    "raw" \in files[v] =>
        <<v, "raw">> \in paths[d] /\ (v \in todo[d] \/ <<v, "raw">> \in excused)

HasSwept(d, v) ==
    v \notin todo[d] /\ <<v, "dir">> \notin excused =>
        /\ ~Running(v)
        /\ dPc[d] = "next" \/ v # current[d] => files[v] \subseteq {"raw"}
        /\ dPc[d] = "rmdir" /\ v = current[d] => files[v] \cap Inside = {}

DeletionKnows ==
    \A d \in Deletes : Deleting(d) => \A v \in selected[d] : HasRead(d, v) /\ HasSwept(d, v)

\* Only a run that was overtaken goes on after its video is gone.
GoneIsQuiet ==
    \A v \in Videos : status[v] = "gone" /\ Running(v) => <<v, "dir">> \in excused

\* The three properties, for one video.
Explained(v) ==
    ~Exists(v) =>
        /\ "raw" \in files[v] => uPc[v] = "written" \/ <<v, "raw">> \in excused
        /\ files[v] \ {"raw"} # {} => <<v, "dir">> \in excused
Backed(v) ==
    /\ v \notin rerun => ready[v] \subseteq whole[v]
    /\ posterPath[v] => PosterServed(v)
Kept(v) ==
    Exists(v) /\ v \notin purged \cup rerun => "raw" \in files[v] \/ whole[v] # {}

FilesInv ==
    /\ RowFirst /\ RunInOrder /\ RunKnows /\ DeletionInOrder /\ DeletionKnows /\ GoneIsQuiet
    /\ \A v \in Videos : Explained(v) /\ Kept(v) /\ (v \notin purged => Backed(v))

-----------------------------------------------------------------------------
(* Types. *)

LEMMA Lengths == Len(Renditions) \in Nat /\ Len(Renditions) >= 1
  BY MediaAssumption, EmptySeq

LEMMA OutIsLabel ==
  ASSUME TypeOK, NEW v \in Videos, at[v] <= Len(Renditions)
  PROVE  /\ at[v] \in 1..Len(Renditions) /\ Out(v) \in Labels
         /\ Out(v) \in Files \ {"raw", "dir"}
<1>1. at[v] \in 1..Len(Renditions)
  BY Lengths DEF TypeOK, RunTypes
<1>2. Out(v) \in Labels
  BY <1>1 DEF Out, Labels
<1> QED
  BY <1>1, <1>2, MediaAssumption DEF Files, Inside

LEMMA TypeInit == Init => TypeOK
  BY Lengths, MediaAssumption DEF Init, TypeOK, RowTypes, DiskTypes, RunTypes, DeletionTypes,
     HistoryTypes, Statuses, RunPcs

LEMMA TypeUpload ==
  ASSUME TypeOK, NEW v \in Videos, Upload(v) PROVE TypeOK'
<1> USE Lengths, MediaAssumption DEF TypeOK, videoRows, disk, run, deletion, history, Fault, Goto,
            Statuses, Files, Inside, Places, RunPcs, SetStatus
<1>1. CASE UploadWrite(v)
  <2>1. RowTypes' /\ DeletionTypes' /\ HistoryTypes'
    BY <1>1 DEF UploadWrite, RowTypes, DeletionTypes, HistoryTypes
  <2>2. DiskTypes'
    BY <1>1 DEF UploadWrite, DiskTypes
  <2>3. RunTypes'
    BY <1>1 DEF UploadWrite, RunTypes
  <2> QED
    BY <2>1, <2>2, <2>3
<1>2. CASE UploadReject(v)
  <2>1. RowTypes' /\ DeletionTypes' /\ HistoryTypes'
    BY <1>2 DEF UploadReject, RowTypes, DeletionTypes, HistoryTypes
  <2>2. DiskTypes'
    BY <1>2 DEF UploadReject, DiskTypes
  <2>3. RunTypes'
    BY <1>2 DEF UploadReject, RunTypes
  <2> QED
    BY <2>1, <2>2, <2>3
<1>3. CASE UploadInsert(v)
  <2>1. DiskTypes' /\ DeletionTypes' /\ HistoryTypes'
    BY <1>3 DEF UploadInsert, DiskTypes, DeletionTypes, HistoryTypes
  <2>2. RowTypes'
    BY <1>3 DEF UploadInsert, RowTypes
  <2>3. RunTypes'
    BY <1>3 DEF UploadInsert, RunTypes
  <2> QED
    BY <2>1, <2>2, <2>3
<1>4. CASE UploadRefused(v)
  <2>1. RowTypes' /\ DiskTypes' /\ DeletionTypes'
    BY <1>4 DEF UploadRefused, RowTypes, DiskTypes, DeletionTypes
  <2>2. RunTypes'
    BY <1>4 DEF UploadRefused, RunTypes
  <2>3. HistoryTypes'
    BY <1>4 DEF UploadRefused, HistoryTypes
  <2> QED
    BY <2>1, <2>2, <2>3
<1> QED
  BY <1>1, <1>2, <1>3, <1>4 DEF Upload

LEMMA TypeRun ==
  ASSUME TypeOK, RunInOrder, NEW v \in Videos, RunStep(v) \/ Retry(v) PROVE TypeOK'
<1> USE Lengths, MediaAssumption DEF TypeOK, videoRows, disk, run, deletion, history, Fault, Goto,
            Statuses, Files, Inside, Places, RunPcs, SetStatus
<1>1. CASE Begin(v)
  <2>1. DiskTypes' /\ DeletionTypes'
    BY <1>1 DEF Begin, DiskTypes, DeletionTypes
  <2>2. RowTypes'
    BY <1>1 DEF Begin, RowTypes
  <2>3. RunTypes'
    BY <1>1 DEF Begin, RunTypes
  <2>4. HistoryTypes'
    BY <1>1 DEF Begin, HistoryTypes
  <2> QED
    BY <2>1, <2>2, <2>3, <2>4
<1>2. CASE MakeDir(v)
  <2>1. RowTypes' /\ DeletionTypes' /\ HistoryTypes'
    BY <1>2 DEF MakeDir, RowTypes, DeletionTypes, HistoryTypes
  <2>2. DiskTypes'
    BY <1>2 DEF MakeDir, DiskTypes
  <2>3. RunTypes'
    BY <1>2 DEF MakeDir, RunTypes
  <2> QED
    BY <2>1, <2>2, <2>3
<1>3. CASE Probe(v)
  <2>1. DiskTypes' /\ DeletionTypes' /\ HistoryTypes'
    BY <1>3 DEF Probe, DiskTypes, DeletionTypes, HistoryTypes
  <2>2. RowTypes'
    BY <1>3 DEF Probe, RowTypes
  <2>3. RunTypes'
    BY <1>3 DEF Probe, RunTypes
  <2> QED
    BY <2>1, <2>2, <2>3
<1>4. CASE Poster(v)
  <2>1. RowTypes' /\ DeletionTypes' /\ HistoryTypes'
    BY <1>4 DEF Poster, RowTypes, DeletionTypes, HistoryTypes
  <2>2. DiskTypes'
    BY <1>4 DEF Poster, DiskTypes
  <2>3. RunTypes'
    BY <1>4 DEF Poster, RunTypes
  <2> QED
    BY <2>1, <2>2, <2>3
<1>5. CASE SetPoster(v)
  <2>1. DiskTypes' /\ DeletionTypes' /\ HistoryTypes'
    BY <1>5 DEF SetPoster, DiskTypes, DeletionTypes, HistoryTypes
  <2>2. RowTypes'
    BY <1>5 DEF SetPoster, Exists, RowTypes
  <2>3. RunTypes'
    BY <1>5 DEF SetPoster, RunTypes
  <2> QED
    BY <2>1, <2>2, <2>3
<1>6. CASE InsertRows(v)
  <2>1. DiskTypes' /\ DeletionTypes'
    BY <1>6 DEF InsertRows, DiskTypes, DeletionTypes
  <2>2. RowTypes'
    BY <1>6 DEF InsertRows, RowTypes
  <2>3. RunTypes'
    BY <1>6 DEF InsertRows, RunTypes
  <2>4. HistoryTypes'
    BY <1>6 DEF InsertRows, HistoryTypes
  <2> QED
    BY <2>1, <2>2, <2>3, <2>4
<1>7. CASE OpenInput(v)
  <2>1. RowTypes' /\ DiskTypes' /\ DeletionTypes' /\ HistoryTypes'
    BY <1>7 DEF OpenInput, RowTypes, DiskTypes, DeletionTypes, HistoryTypes
  <2>2. RunTypes'
    BY <1>7 DEF OpenInput, RunTypes
  <2> QED
    BY <2>1, <2>2
<1>8. CASE CreateOutput(v)
  <2>1. RowTypes' /\ DeletionTypes' /\ HistoryTypes'
    BY <1>8 DEF CreateOutput, RowTypes, DeletionTypes, HistoryTypes
  <2>2. DiskTypes'
    <3>1. Out(v) \in Labels
      BY <1>8, OutIsLabel DEF CreateOutput, RunInOrder, InOrder, RenditionPcs
    <3>2. \/ /\ files' = [files EXCEPT ![v] = @ \cup {Out(v)}]
             /\ whole' = [whole EXCEPT ![v] = @ \ {Out(v)}]
          \/ UNCHANGED disk
      BY <1>8, Zenon DEF CreateOutput, Out
    <3> QED
      BY <3>1, <3>2 DEF DiskTypes
  <2>3. RunTypes'
    <3>1. (Goto(v, "encode") \/ Goto(v, "record")) /\ UNCHANGED <<uPc, at, rc>>
      BY <1>8 DEF CreateOutput
    <3> QED
      BY <3>1 DEF RunTypes
  <2> QED
    BY <2>1, <2>2, <2>3
<1>9. CASE Encode(v)
  <2>1. RowTypes' /\ DeletionTypes' /\ HistoryTypes'
    BY <1>9 DEF Encode, RowTypes, DeletionTypes, HistoryTypes
  <2>2. DiskTypes'
    BY <1>9, OutIsLabel DEF Encode, RunInOrder, InOrder, RenditionPcs, Out, DiskTypes
  <2>3. RunTypes'
    BY <1>9 DEF Encode, RunTypes
  <2> QED
    BY <2>1, <2>2, <2>3
<1>10. CASE Record(v)
  <2>1. DiskTypes' /\ DeletionTypes' /\ HistoryTypes'
    BY <1>10 DEF Record, DiskTypes, DeletionTypes, HistoryTypes
  <2>2. RowTypes'
    BY <1>10, OutIsLabel DEF Record, RunInOrder, InOrder, RenditionPcs, Out, RowTypes
  <2>3. RunTypes'
    BY <1>10, OutIsLabel DEF Record, RunInOrder, InOrder, RenditionPcs, Out, RunTypes
  <2> QED
    BY <2>1, <2>2, <2>3
<1>11. CASE Verdict(v)
  <2>1. DiskTypes' /\ DeletionTypes' /\ HistoryTypes'
    BY <1>11 DEF Verdict, DiskTypes, DeletionTypes, HistoryTypes
  <2>2. RowTypes'
    BY <1>11 DEF Verdict, RowTypes
  <2>3. RunTypes'
    BY <1>11 DEF Verdict, RunTypes
  <2> QED
    BY <2>1, <2>2, <2>3
<1>12. CASE UnlinkRaw(v)
  <2>1. RowTypes' /\ DeletionTypes'
    BY <1>12 DEF UnlinkRaw, RowTypes, DeletionTypes
  <2>2. DiskTypes'
    BY <1>12 DEF UnlinkRaw, DiskTypes
  <2>3. RunTypes'
    BY <1>12 DEF UnlinkRaw, RunTypes
  <2>4. HistoryTypes'
    BY <1>12 DEF UnlinkRaw, HistoryTypes
  <2> QED
    BY <2>1, <2>2, <2>3, <2>4
<1>13. CASE NullRaw(v)
  <2>1. DiskTypes' /\ DeletionTypes' /\ HistoryTypes'
    BY <1>13 DEF NullRaw, DiskTypes, DeletionTypes, HistoryTypes
  <2>2. RowTypes'
    BY <1>13 DEF NullRaw, RowTypes
  <2>3. RunTypes'
    BY <1>13 DEF NullRaw, RunTypes
  <2> QED
    BY <2>1, <2>2, <2>3
<1>14. CASE Raise(v)
  <2>1. RowTypes' /\ DiskTypes' /\ DeletionTypes'
    BY <1>14 DEF Raise, RowTypes, DiskTypes, DeletionTypes
  <2>2. RunTypes'
    BY <1>14 DEF Raise, RunTypes
  <2>3. HistoryTypes'
    BY <1>14 DEF Raise, HistoryTypes
  <2> QED
    BY <2>1, <2>2, <2>3
<1>15. CASE FinishDone(v)
  <2>1. DiskTypes' /\ DeletionTypes' /\ HistoryTypes'
    BY <1>15 DEF FinishDone, DiskTypes, DeletionTypes, HistoryTypes
  <2>2. RowTypes'
    BY <1>15 DEF FinishDone, RowTypes
  <2>3. RunTypes'
    BY <1>15 DEF FinishDone, RunTypes
  <2> QED
    BY <2>1, <2>2, <2>3
<1>16. CASE HandleFailure(v)
  <2>1. DiskTypes' /\ DeletionTypes' /\ HistoryTypes'
    BY <1>16 DEF HandleFailure, DiskTypes, DeletionTypes, HistoryTypes
  <2>2. RowTypes'
    BY <1>16 DEF HandleFailure, RowTypes
  <2>3. RunTypes'
    BY <1>16 DEF HandleFailure, RunTypes
  <2> QED
    BY <2>1, <2>2, <2>3
<1>17. CASE Retry(v)
  <2>1. DiskTypes' /\ RunTypes' /\ DeletionTypes' /\ HistoryTypes'
    BY <1>17 DEF Retry, DiskTypes, RunTypes, DeletionTypes, HistoryTypes
  <2>2. RowTypes'
    BY <1>17 DEF Retry, RowTypes
  <2> QED
    BY <2>1, <2>2
<1> QED
  BY <1>1, <1>2, <1>3, <1>4, <1>5, <1>6, <1>7, <1>8, <1>9, <1>10, <1>11, <1>12, <1>13, <1>14, <1>15, <1>16, <1>17 DEF RunStep

LEMMA TypeDelete ==
  ASSUME TypeOK, DeletionInOrder, NEW d \in Deletes, DeleteStep(d) PROVE TypeOK'
<1> USE MediaAssumption DEF TypeOK, videoRows, disk, run, deletion, history, Fault, Statuses,
            Files, Inside, Places
<1>1. ASSUME NEW v \in Videos, SelectVideo(d, v) PROVE TypeOK'
  <2>1. RowTypes' /\ DiskTypes' /\ RunTypes' /\ HistoryTypes'
    BY <1>1 DEF SelectVideo, Select, PathsOf, RowTypes, DiskTypes, RunTypes, HistoryTypes
  <2>2. DeletionTypes'
    BY <1>1 DEF SelectVideo, Select, PathsOf, DeletionTypes
  <2> QED
    BY <2>1, <2>2
<1>2. ASSUME NEW v \in Videos, Unlink(d, v) PROVE TypeOK'
  <2>1. RowTypes' /\ RunTypes'
    BY <1>2 DEF Unlink, RowTypes, RunTypes
  <2>2. DiskTypes'
    <3>1. PICK F, W : /\ files' = [files EXCEPT ![v] = @ \ F]
                      /\ whole' = [whole EXCEPT ![v] = @ \ W]
      BY <1>2, Zenon DEF Unlink
    <3> QED
      BY <3>1 DEF DiskTypes
  <2>3. DeletionTypes'
    BY <1>2 DEF Unlink, DeletionTypes
  <2>4. HistoryTypes'
    BY <1>2 DEF Unlink, HistoryTypes
  <2> QED
    BY <2>1, <2>2, <2>3, <2>4
<1>3. ASSUME NEW o \in Owners, SelectAccount(d, o) PROVE TypeOK'
  <2>1. RowTypes' /\ DiskTypes' /\ RunTypes' /\ HistoryTypes'
    BY <1>3 DEF SelectAccount, Select, PathsOf, RowTypes, DiskTypes, RunTypes, HistoryTypes
  <2>2. DeletionTypes'
    BY <1>3 DEF SelectAccount, Select, PathsOf, DeletionTypes
  <2> QED
    BY <2>1, <2>2
<1>4. CASE Scan(d)
  <2> DEFINE v == current[d]
  <2>0. v \in Videos
    BY <1>4 DEF Scan, DeletionInOrder, DeletionTypes
  <2>1. RowTypes' /\ RunTypes'
    BY <1>4 DEF Scan, RowTypes, RunTypes
  <2>2. DiskTypes'
    <3>1. PICK F, W : /\ files' = [files EXCEPT ![v] = @ \ F]
                      /\ whole' = [whole EXCEPT ![v] = @ \cap W]
      BY <1>4, Zenon DEF Scan
    <3> QED
      BY <2>0, <3>1 DEF DiskTypes
  <2>3. DeletionTypes'
    BY <1>4 DEF Scan, DeletionTypes
  <2>4. HistoryTypes'
    <3>1. /\ UNCHANGED <<runs, purged, rerun>>
          /\ \/ UNCHANGED <<faults, excused>>
             \/ Fault /\ excused' = excused \cup {<<v, "dir">>}
      BY <1>4 DEF Scan
    <3> QED
      BY <2>0, <3>1 DEF HistoryTypes
  <2> QED
    BY <2>1, <2>2, <2>3, <2>4
<1>5. CASE RemoveDir(d)
  <2> DEFINE v == current[d]
  <2>0. v \in Videos
    BY <1>5 DEF RemoveDir, DeletionInOrder, DeletionTypes
  <2>1. RowTypes' /\ RunTypes' /\ HistoryTypes'
    BY <1>5 DEF RemoveDir, RowTypes, RunTypes, HistoryTypes
  <2>2. DiskTypes'
    BY <1>5, <2>0 DEF RemoveDir, DiskTypes
  <2>3. DeletionTypes'
    BY <1>5 DEF RemoveDir, DeletionTypes
  <2> QED
    BY <2>1, <2>2, <2>3
<1>6. CASE DeleteRow(d)
  <2>1. DiskTypes' /\ RunTypes'
    BY <1>6 DEF DeleteRow, DiskTypes, RunTypes
  <2>2. RowTypes'
    BY <1>6 DEF DeleteRow, RowTypes
  <2>3. DeletionTypes'
    BY <1>6 DEF DeleteRow, DeletionTypes
  <2>4. HistoryTypes'
    BY <1>6 DEF DeleteRow, HistoryTypes
  <2> QED
    BY <2>1, <2>2, <2>3, <2>4
<1> QED
  BY <1>1, <1>2, <1>3, <1>4, <1>5, <1>6 DEF DeleteStep

LEMMA TypeStep == TypeOK /\ RunInOrder /\ DeletionInOrder /\ [Next]_vars => TypeOK'
<1> SUFFICES ASSUME TypeOK, RunInOrder, DeletionInOrder, [Next]_vars PROVE TypeOK'
  OBVIOUS
<1>1. CASE Kill
  BY <1>1, MediaAssumption DEF Kill, Fault, TypeOK, RowTypes, DiskTypes, RunTypes, DeletionTypes,
     HistoryTypes, videoRows, disk, RunPcs, Places
<1>2. CASE UNCHANGED vars
  BY <1>2 DEF TypeOK, RowTypes, DiskTypes, RunTypes, DeletionTypes, HistoryTypes, vars, videoRows,
     disk, run, deletion, history
<1> QED
  BY <1>1, <1>2, TypeUpload, TypeRun, TypeDelete DEF Next

-----------------------------------------------------------------------------
(* A run keeps the invariant, and so does a retry. *)

\* A step that leaves video w alone.
Same(w) ==
    /\ status'[w] = status[w] /\ rawPath'[w] = rawPath[w] /\ posterPath'[w] = posterPath[w]
    /\ ready'[w] = ready[w] /\ files'[w] = files[w] /\ whole'[w] = whole[w]
    /\ uPc'[w] = uPc[w] /\ rPc'[w] = rPc[w] /\ at'[w] = at[w] /\ rc'[w] = rc[w]
    /\ w \in rerun' <=> w \in rerun

\* What holds of a video goes on holding when a step leaves it alone.
LEMMA SameVideo ==
  ASSUME FilesInv, NEW w \in Videos, Same(w), purged \subseteq purged', excused \subseteq excused'
  PROVE  /\ InOrder(w)' /\ Explained(w)' /\ Kept(w)'
         /\ w \notin purged' => Knows(w)' /\ Backed(w)'
  BY DEF FilesInv, RunInOrder, RunKnows, Same, InOrder, Explained, Kept, Knows, Backed,
     PosterServed, Exists, Out, Before

\* What a step of the run of v, or its retry, leaves alone.
RunFrame(v) ==
    /\ UNCHANGED <<accounts, uPc, deletion, purged>> /\ excused \subseteq excused'
    /\ \A w \in Videos \ {v} : Same(w) /\ (Running(w)' <=> Running(w))
    /\ status'[v] = "gone" <=> status[v] = "gone"
    /\ status'[v] = "absent" <=> status[v] = "absent"
    /\ "raw" \in files'[v] => "raw" \in files[v]
    /\ Running(v)' => Running(v) \/ Exists(v)
    /\ files'[v] # files[v] => Running(v)
    /\ \A d \in Deletes : Running(v)' /\ Deleting(d) /\ v \in selected[d] \ todo[d]
            => Running(v) \/ <<v, "dir">> \in excused'

LEMMA RunFrames ==
  ASSUME TypeOK, FilesInv, NEW v \in Videos, RunStep(v) \/ Retry(v) PROVE RunFrame(v)
<1> USE MediaAssumption DEF TypeOK, RowTypes, DiskTypes, RunTypes, RunFrame, Same, Running, Exists,
   Goto, SetStatus, videoRows, disk, run, deletion, history
<1>1. CASE Begin(v)
  BY <1>1 DEF Begin
<1>2. CASE MakeDir(v)
  BY <1>2 DEF MakeDir
<1>3. CASE Probe(v)
  BY <1>3 DEF Probe
<1>4. CASE Poster(v)
  BY <1>4 DEF Poster
<1>5. CASE SetPoster(v)
  BY <1>5 DEF SetPoster
<1>6. CASE InsertRows(v)
  BY <1>6 DEF InsertRows
<1>7. CASE OpenInput(v)
  BY <1>7 DEF OpenInput
<1>8. CASE CreateOutput(v)
  <2>1. Out(v) # "raw" /\ at[v] <= Len(Renditions)
    BY <1>8, OutIsLabel DEF CreateOutput, FilesInv, RunInOrder, InOrder, RenditionPcs
  <2>2. \/ files' = [files EXCEPT ![v] = @ \cup {Out(v)}] /\ whole' = [whole EXCEPT ![v] = @ \ {Out(v)}]
        \/ UNCHANGED disk
    BY <1>8, Zenon DEF CreateOutput, Out
  <2> QED
    BY <1>8, <2>1, <2>2 DEF CreateOutput
<1>9. CASE Encode(v)
  BY <1>9, OutIsLabel DEF Encode, FilesInv, RunInOrder, InOrder, RenditionPcs, Out
<1>10. CASE Record(v)
  BY <1>10, OutIsLabel DEF Record, FilesInv, RunInOrder, InOrder, RenditionPcs, Out
<1>11. CASE Verdict(v)
  BY <1>11 DEF Verdict
<1>12. CASE UnlinkRaw(v)
  BY <1>12 DEF UnlinkRaw
<1>13. CASE NullRaw(v)
  BY <1>13 DEF NullRaw
<1>14. CASE Raise(v)
  BY <1>14 DEF Raise
<1>15. CASE FinishDone(v)
  BY <1>15 DEF FinishDone
<1>16. CASE HandleFailure(v)
  BY <1>16 DEF HandleFailure
<1>17. CASE Retry(v)
  BY <1>17 DEF Retry
<1> QED
  BY <1>1, <1>2, <1>3, <1>4, <1>5, <1>6, <1>7, <1>8, <1>9, <1>10, <1>11, <1>12, <1>13, <1>14, <1>15,
     <1>16, <1>17 DEF RunStep

\* What is left to show of a step of the run of v.
StillGood(v) == InOrder(v)' /\ Kept(v)' /\ (v \notin purged' => Knows(v)' /\ Backed(v)')

\* ffmpeg overwrites no rendition that this run has recorded: labels are distinct.
LEMMA CreateKeeps ==
  ASSUME TypeOK, FilesInv, NEW v \in Videos, CreateOutput(v)
  PROVE  StillGood(v)
<1> USE DEF TypeOK, RowTypes, DiskTypes, RunTypes, Exists
<1>0. InOrder(v) /\ Kept(v) /\ (v \notin purged => Knows(v) /\ Backed(v))
  BY DEF FilesInv, RunInOrder, RunKnows
<1>1. rPc[v] = "create" /\ at[v] <= Len(Renditions) /\ Out(v) \notin {"raw", "dir", "poster"}
  <2>1. rPc[v] = "create" /\ at[v] <= Len(Renditions)
    BY <1>0 DEF CreateOutput, InOrder, RenditionPcs
  <2> QED
    BY <2>1, OutIsLabel, MediaAssumption
<1>2. /\ UNCHANGED <<videoRows, uPc, at, rc, purged, rerun>> /\ rPc'[v] \in {"encode", "record"}
      /\ "raw" \in files'[v] <=> "raw" \in files[v]
      /\ "poster" \in files'[v] <=> "poster" \in files[v]
      /\ whole[v] \ {Out(v)} \subseteq whole'[v] /\ Out(v)' = Out(v)
      /\ rPc'[v] = "record" => whole' = whole /\ files' = files
  <2>1. \/ /\ files' = [files EXCEPT ![v] = @ \cup {Out(v)}]
           /\ whole' = [whole EXCEPT ![v] = @ \ {Out(v)}] /\ Goto(v, "encode")
        \/ Goto(v, "record") /\ UNCHANGED disk
    BY Zenon DEF CreateOutput, Out
  <2> QED
    BY <1>1, <2>1 DEF CreateOutput, Goto, disk, history, Out
<1>3. v \notin purged \cup rerun => ready[v] \subseteq Before(v) /\ Out(v) \notin Before(v)
  BY <1>0, <1>1, MediaAssumption, Lengths DEF Knows, Before, Out, RenditionPcs
<1>4. v \notin purged => Knows(v)'
  BY <1>0, <1>1, <1>2 DEF InOrder, Knows, RenditionPcs, ReadingPcs, Before, videoRows
<1>5. InOrder(v)'
  BY <1>0, <1>1, <1>2 DEF InOrder, RenditionPcs, videoRows
<1>6. Kept(v)'
  BY <1>0, <1>1, <1>2 DEF Kept, Knows, ReadingPcs, videoRows
<1>7. v \notin purged => Backed(v)'
  BY <1>0, <1>1, <1>2, <1>3 DEF Backed, PosterServed, videoRows
<1> QED
  BY <1>2, <1>4, <1>5, <1>6, <1>7 DEF StillGood, history

LEMMA RunKeeps ==
  ASSUME TypeOK, FilesInv, NEW v \in Videos, RunStep(v) \/ Retry(v) PROVE StillGood(v)
<1> USE DEF RowTypes, DiskTypes, RunTypes, Goto, SetStatus, Exists, videoRows, disk, run, deletion,
   history
<1> DEFINE known == /\ InOrder(v) /\ Kept(v) /\ (v \notin purged => Knows(v) /\ Backed(v))
                    /\ RowTypes /\ DiskTypes /\ RunTypes
                    /\ rPc[v] # "none" => uPc[v] # "written"
                    /\ at[v] <= Len(Renditions) => Out(v) \in Labels \ {"raw", "dir", "poster"}
<1>0. known
  BY OutIsLabel, MediaAssumption DEF FilesInv, RowFirst, RunInOrder, RunKnows, TypeOK
<1>1. CASE Begin(v)
  BY <1>0, <1>1 DEF Begin, StillGood, InOrder, Kept, Knows, Backed, RenditionPcs, ReadingPcs,
     PosterServed, Out, Before
<1>2. CASE MakeDir(v)
  BY <1>0, <1>2 DEF MakeDir, StillGood, InOrder, Kept, Knows, Backed, RenditionPcs, ReadingPcs,
     PosterServed, Out, Before
<1>3. CASE Probe(v)
  BY <1>0, <1>3 DEF Probe, StillGood, InOrder, Kept, Knows, Backed, RenditionPcs, ReadingPcs,
     PosterServed, Out, Before
<1>4. CASE Poster(v)
  BY <1>0, <1>4 DEF Poster, StillGood, InOrder, Kept, Knows, Backed, RenditionPcs, ReadingPcs,
     PosterServed, Out, Before
<1>5. CASE SetPoster(v)
  BY <1>0, <1>5 DEF SetPoster, StillGood, InOrder, Kept, Knows, Backed, RenditionPcs, ReadingPcs,
     PosterServed, Out, Before
<1>6. CASE InsertRows(v)
  BY <1>0, <1>6, Lengths, MediaAssumption DEF InsertRows, StillGood, InOrder, Kept, Knows, Backed,
     RenditionPcs, ReadingPcs, PosterServed, Out, Before
<1>7. CASE OpenInput(v)
  BY <1>0, <1>7, Lengths, MediaAssumption DEF OpenInput, StillGood, InOrder, Kept, Knows, Backed,
     RenditionPcs, ReadingPcs, PosterServed, Out, Before
<1>8. CASE CreateOutput(v)
  BY <1>8, CreateKeeps
<1>9. CASE Encode(v)
  BY <1>0, <1>9, Lengths, MediaAssumption DEF Encode, StillGood, InOrder, Kept, Knows, Backed,
     RenditionPcs, ReadingPcs, PosterServed, Out, Before
<1>10. CASE Record(v)
  BY <1>0, <1>10, Lengths, MediaAssumption DEF Record, StillGood, InOrder, Kept, Knows, Backed,
     RenditionPcs, ReadingPcs, PosterServed, Out, Before
<1>11. CASE Verdict(v)
  BY <1>0, <1>11, Lengths, MediaAssumption DEF Verdict, StillGood, InOrder, Kept, Knows, Backed,
     RenditionPcs, ReadingPcs, PosterServed, Out, Before
<1>12. CASE UnlinkRaw(v)
  BY <1>0, <1>12 DEF UnlinkRaw, StillGood, InOrder, Kept, Knows, Backed, RenditionPcs, ReadingPcs,
     PosterServed, Out, Before
<1>13. CASE NullRaw(v)
  BY <1>0, <1>13 DEF NullRaw, StillGood, InOrder, Kept, Knows, Backed, RenditionPcs, ReadingPcs,
     PosterServed, Out, Before
<1>14. CASE Raise(v)
  BY <1>0, <1>14 DEF Raise, StillGood, InOrder, Kept, Knows, Backed, RenditionPcs, ReadingPcs,
     PosterServed, Out, Before
<1>15. CASE FinishDone(v)
  BY <1>0, <1>15 DEF FinishDone, StillGood, InOrder, Kept, Knows, Backed, RenditionPcs, ReadingPcs,
     PosterServed, Out, Before
<1>16. CASE HandleFailure(v)
  BY <1>0, <1>16 DEF HandleFailure, StillGood, InOrder, Kept, Knows, Backed, RenditionPcs,
     ReadingPcs, PosterServed, Out, Before
<1>17. CASE Retry(v)
  BY <1>0, <1>17 DEF Retry, StillGood, InOrder, Kept, Knows, Backed, RenditionPcs, ReadingPcs,
     PosterServed, Out, Before
<1> QED
  BY <1>1, <1>2, <1>3, <1>4, <1>5, <1>6, <1>7, <1>8, <1>9, <1>10, <1>11, <1>12, <1>13, <1>14, <1>15,
     <1>16, <1>17 DEF RunStep

LEMMA RunStepKeeps ==
  ASSUME TypeOK, FilesInv, NEW v \in Videos, RunStep(v) \/ Retry(v) PROVE FilesInv'
<1>1. RunFrame(v) /\ StillGood(v)
  BY RunFrames, RunKeeps
<1>2. RowFirst'
  BY <1>1 DEF RunFrame, FilesInv, RowFirst, Same, Running, Exists, deletion, TypeOK, RunTypes,
     RowTypes, Statuses, DeletionTypes
<1>3. DeletionInOrder'
  BY <1>1 DEF RunFrame, FilesInv, DeletionInOrder, deletion
<1>4. GoneIsQuiet'
  BY <1>1 DEF RunFrame, FilesInv, GoneIsQuiet, Same, Exists
<1>5. DeletionKnows'
  <2> SUFFICES ASSUME NEW d \in Deletes, Deleting(d), NEW w \in selected[d]
               PROVE  (HasRead(d, w) /\ HasSwept(d, w))'
    BY <1>1 DEF RunFrame, DeletionKnows, Deleting, deletion
  <2>1. HasRead(d, w) /\ HasSwept(d, w) /\ w \in Videos
    BY DEF FilesInv, DeletionKnows, TypeOK, DeletionTypes
  <2>2. CASE w # v
    BY <1>1, <2>1, <2>2 DEF RunFrame, Same, HasRead, HasSwept, deletion
  <2>3. CASE w = v
    BY <1>1, <2>1, <2>3 DEF RunFrame, HasRead, HasSwept, deletion
  <2> QED
    BY <2>2, <2>3
<1>6. Explained(v)'
  <2>1. Explained(v) /\ (Running(v) /\ ~Exists(v) => <<v, "dir">> \in excused)
    BY DEF FilesInv, GoneIsQuiet, RowFirst, Running, Exists
  <2> QED
    BY <1>1, <2>1 DEF RunFrame, Explained, Exists
<1> QED
  BY <1>1, <1>2, <1>3, <1>4, <1>5, <1>6, SameVideo DEF RunFrame, StillGood, FilesInv, RunInOrder,
     RunKnows

-----------------------------------------------------------------------------
(* Uploads, deletions and the kill keep the invariant. *)

LEMMA UploadStepKeeps ==
  ASSUME TypeOK, FilesInv, NEW v \in Videos, Upload(v) PROVE FilesInv'
<1> USE DEF videoRows, disk, run, deletion, history
<1>1. /\ uPc[v] \in {"new", "written"} /\ status[v] = "absent" /\ rPc[v] = "none"
      /\ \A d \in Deletes : v \notin selected[d]
  BY DEF Upload, UploadWrite, UploadReject, UploadInsert, UploadRefused, FilesInv, RowFirst
<1>2. /\ UNCHANGED <<run, deletion, purged, rerun>> /\ excused \subseteq excused'
      /\ \A w \in Videos \ {v} : Same(w)
      /\ status'[v] \in {"absent", "uploading"} /\ uPc'[v] \in {"written", "done"}
      /\ uPc'[v] = "written" => status'[v] = "absent"
  BY <1>1 DEF Upload, UploadWrite, UploadReject, UploadInsert, UploadRefused, Same, TypeOK,
     RowTypes,
     DiskTypes, RunTypes
<1>3. RowFirst' /\ DeletionInOrder' /\ GoneIsQuiet'
  BY <1>1, <1>2 DEF FilesInv, RowFirst, DeletionInOrder, GoneIsQuiet, Same, Running, TypeOK,
     DeletionTypes
<1>4. DeletionKnows'
  <2> SUFFICES ASSUME NEW d \in Deletes, Deleting(d), NEW w \in selected[d]
               PROVE  (HasRead(d, w) /\ HasSwept(d, w))'
    BY <1>2 DEF DeletionKnows, Deleting
  <2> QED
    BY <1>1, <1>2 DEF FilesInv, DeletionKnows, HasRead, HasSwept, Same, Running, TypeOK,
       DeletionTypes
<1>5. StillGood(v) /\ Explained(v)'
  <2> USE <1>1 DEF StillGood, Exists, InOrder, Kept, Knows, Backed, PosterServed, Explained, RenditionPcs, ReadingPcs,
              TypeOK, RowTypes, DiskTypes, RunTypes
  <2>0. InOrder(v) /\ Kept(v) /\ Explained(v) /\ (v \notin purged => Knows(v) /\ Backed(v))
    BY DEF FilesInv, RunInOrder, RunKnows
  <2>1. CASE UploadWrite(v)
    BY <2>0, <2>1 DEF UploadWrite
  <2>2. CASE UploadReject(v)
    BY <2>0, <2>2 DEF UploadReject
  <2>3. CASE UploadInsert(v)
    BY <2>0, <2>3 DEF UploadInsert
  <2>4. CASE UploadRefused(v)
    BY <2>0, <2>4 DEF UploadRefused
  <2> QED
    BY <2>1, <2>2, <2>3, <2>4 DEF Upload
<1> QED
  BY <1>2, <1>3, <1>4, <1>5, SameVideo DEF StillGood, FilesInv, RunInOrder, RunKnows

LEMMA SelectKeeps ==
  ASSUME TypeOK, FilesInv, NEW d \in Deletes, NEW S \in SUBSET Videos, Select(d, S),
         \A v \in S : Exists(v)
  PROVE  FilesInv'
<1> USE DEF videoRows, disk, run, history
<1>1. /\ UNCHANGED <<uPc, run, purged, rerun, excused, files, status>> /\ \A w \in Videos : Same(w)
      /\ \A e \in Deletes \ {d} : /\ dPc'[e] = dPc[e] /\ selected'[e] = selected[e] /\ paths'[e] = paths[e]
                                  /\ todo'[e] = todo[e] /\ current'[e] = current[e]
      /\ dPc'[d] = "next" /\ selected'[d] = S /\ todo'[d] = S /\ paths'[d] = PathsOf(S)
  BY DEF Select, Same, TypeOK, DeletionTypes
<1>2. RowFirst' /\ DeletionInOrder' /\ GoneIsQuiet'
  <2>1. \A v \in S : uPc[v] = "done"
    BY DEF FilesInv, RowFirst, Exists, TypeOK, RunTypes
  <2>2. RowFirst' /\ GoneIsQuiet'
    BY <1>1, <2>1 DEF FilesInv, RowFirst, GoneIsQuiet, Running
  <2>3. DeletionInOrder'
    BY <1>1 DEF FilesInv, DeletionInOrder
  <2> QED
    BY <2>2, <2>3
<1>3. DeletionKnows'
  <2> SUFFICES ASSUME NEW e \in Deletes, Deleting(e)', NEW w \in selected'[e]
               PROVE  (HasRead(e, w) /\ HasSwept(e, w))'
    BY DEF DeletionKnows
  <2>1. CASE e # d
    BY <1>1, <2>1 DEF FilesInv, DeletionKnows, Deleting, HasRead, HasSwept, Running
  <2>2. CASE e = d
    <3>1. w \in S /\ ("raw" \in files[w] => rawPath[w])
      BY <1>1, <2>2 DEF FilesInv, RunInOrder, InOrder
    <3> QED
      BY <1>1, <2>2, <3>1 DEF HasRead, HasSwept, PathsOf
  <2> QED
    BY <2>1, <2>2
<1> QED
  BY <1>1, <1>2, <1>3, SameVideo DEF FilesInv, RunInOrder, RunKnows

\* A step of deletion d that takes files of v away.
PurgeFrame(d, v) ==
    /\ UNCHANGED <<videoRows, uPc, run, selected, paths, rerun>> /\ excused \subseteq excused'
    /\ \A w \in Videos \ {v} : Same(w)
    /\ files'[v] \subseteq files[v]
    /\ v \in purged' /\ purged \subseteq purged' /\ v \in selected[d] /\ dPc[d] \in {"next", "scan", "rmdir"}
    /\ todo'[d] \subseteq todo[d] /\ v \notin todo'[d]
    /\ \A e \in Deletes \ {d} : dPc'[e] = dPc[e] /\ todo'[e] = todo[e] /\ current'[e] = current[e]

\* What such a step has to show: the deletion's own account of its videos.
LEMMA PurgeKeeps ==
  ASSUME TypeOK, FilesInv, NEW d \in Deletes, NEW v \in Videos, PurgeFrame(d, v),
         dPc'[d] \in {"scan", "rmdir"} => current'[d] = v,
         \A w \in selected[d] : (HasRead(d, w) /\ HasSwept(d, w))'
  PROVE  FilesInv'
<1> USE DEF PurgeFrame
<1>1. RowFirst' /\ GoneIsQuiet'
  BY DEF FilesInv, RowFirst, GoneIsQuiet, Running, run, videoRows
<1>2. DeletionInOrder'
  BY DEF FilesInv, DeletionInOrder, TypeOK, DeletionTypes
<1>3. DeletionKnows'
  <2> SUFFICES ASSUME NEW e \in Deletes, Deleting(e)', NEW w \in selected[e], e # d
               PROVE  (HasRead(e, w) /\ HasSwept(e, w))'
    BY DEF DeletionKnows
  <2>1. HasRead(e, w) /\ HasSwept(e, w) /\ files'[w] \subseteq files[w] /\ w \in Videos
    BY DEF FilesInv, DeletionKnows, Deleting, Same, TypeOK, DeletionTypes
  <2> QED
    BY <2>1 DEF HasRead, HasSwept, Running, run
<1>4. InOrder(v)' /\ Explained(v)' /\ Kept(v)'
  BY DEF FilesInv, RunInOrder, InOrder, Explained, Kept, Exists, run, videoRows
<1> QED
  BY <1>1, <1>2, <1>3, <1>4, SameVideo DEF FilesInv, RunInOrder, RunKnows

LEMMA UnlinkKeeps ==
  ASSUME TypeOK, FilesInv, NEW d \in Deletes, NEW v \in Videos, Unlink(d, v) PROVE FilesInv'
<1>1. dPc[d] = "next" /\ v \in todo[d] /\ v \in selected[d] /\ HasRead(d, v)
  BY DEF Unlink, FilesInv, DeletionInOrder, DeletionKnows, Deleting
<1>2. PICK F, W, X :
        /\ files' = [files EXCEPT ![v] = @ \ F] /\ whole' = [whole EXCEPT ![v] = @ \ W]
        /\ excused' = excused \cup X
        /\ <<v, "raw">> \in paths[d] => "raw" \in F \/ <<v, "raw">> \in X
        /\ Running(v) => <<v, "dir">> \in X
  <2> DEFINE doomed == {f \in Inside \cup {"raw"} : <<v, f>> \in paths[d]} \cup (IF named[v] THEN Labels ELSE {})
             overrun == IF Running(v) THEN {<<v, "dir">>} ELSE {}
  <2>1. Running(v) => <<v, "dir">> \in overrun
    OBVIOUS
  <2>2. <<v, "raw">> \in paths[d] => "raw" \in doomed
    OBVIOUS
  <2> HIDE DEF overrun, doomed
  <2>3. \/ /\ files' = [files EXCEPT ![v] = @ \ doomed] /\ whole' = [whole EXCEPT ![v] = @ \ doomed]
           /\ excused' = excused \cup overrun
        \/ /\ files' = [files EXCEPT ![v] = @ \ (doomed \ {"raw"})] /\ whole' = [whole EXCEPT ![v] = @ \ doomed]
           /\ excused' = excused \cup (overrun \cup {<<v, "raw">>})
    BY DEF Unlink, overrun, doomed
  <2> QED
    BY <2>1, <2>2, <2>3
<1>3. /\ PurgeFrame(d, v) /\ dPc'[d] = "scan" /\ current'[d] = v /\ todo' = [todo EXCEPT ![d] = @ \ {v}]
  BY <1>1, <1>2 DEF Unlink, PurgeFrame, Same, videoRows, run, TypeOK, DiskTypes, DeletionTypes
<1>4. ASSUME NEW w \in selected[d] PROVE (HasRead(d, w) /\ HasSwept(d, w))'
  <2>1. HasRead(d, w) /\ HasSwept(d, w) /\ w \in Videos
    BY <1>1 DEF FilesInv, DeletionKnows, Deleting, TypeOK, DeletionTypes
  <2>2. CASE w # v
    BY <1>1, <1>2, <1>3, <2>1, <2>2 DEF PurgeFrame, Same, HasRead, HasSwept, Running, run, TypeOK,
       DeletionTypes
  <2>3. CASE w = v
    BY <1>1, <1>2, <1>3, <2>1, <2>3 DEF PurgeFrame, HasRead, HasSwept, Running, run, TypeOK,
       DiskTypes
  <2> QED
    BY <2>2, <2>3
<1> QED
  BY <1>3, <1>4, PurgeKeeps

LEMMA ScanKeeps ==
  ASSUME TypeOK, FilesInv, NEW d \in Deletes, Scan(d) PROVE FilesInv'
<1> DEFINE v == current[d]
<1>1. dPc[d] = "scan" /\ v \in purged /\ v \in selected[d] /\ v \notin todo[d] /\ v \in Videos
  BY DEF Scan, FilesInv, DeletionInOrder, TypeOK, DeletionTypes
<1>2. PICK kept \in SUBSET (files[v] \cap Inside) :
        /\ files' = [files EXCEPT ![v] = @ \ (Inside \ kept)] /\ whole' = [whole EXCEPT ![v] = @ \cap kept]
        /\ excused \subseteq excused' /\ (kept # {} => <<v, "dir">> \in excused')
  BY DEF Scan
<1>3. PurgeFrame(d, v) /\ dPc'[d] = "rmdir" /\ current'[d] = v /\ todo' = todo
  BY <1>1, <1>2 DEF Scan, PurgeFrame, Same, videoRows, run, TypeOK, DiskTypes, DeletionTypes
<1>4. ASSUME NEW w \in selected[d] PROVE (HasRead(d, w) /\ HasSwept(d, w))'
  <2>1. HasRead(d, w) /\ HasSwept(d, w) /\ w \in Videos
    BY <1>1 DEF FilesInv, DeletionKnows, Deleting, TypeOK, DeletionTypes
  <2>2. CASE w # v
    BY <1>1, <1>3, <2>1, <2>2 DEF PurgeFrame, Same, HasRead, HasSwept, Running, run
  <2>3. CASE w = v
    BY <1>1, <1>2, <1>3, <2>1, <2>3 DEF PurgeFrame, HasRead, HasSwept, Running, run, TypeOK,
       DiskTypes
  <2> QED
    BY <2>2, <2>3
<1> QED
  BY <1>1, <1>3, <1>4, PurgeKeeps

LEMMA RemoveDirKeeps ==
  ASSUME TypeOK, FilesInv, NEW d \in Deletes, RemoveDir(d) PROVE FilesInv'
<1> DEFINE v == current[d]
<1>1. dPc[d] = "rmdir" /\ v \in purged /\ v \in selected[d] /\ v \notin todo[d] /\ v \in Videos
  BY DEF RemoveDir, FilesInv, DeletionInOrder, TypeOK, DeletionTypes
<1>2. files' = [files EXCEPT ![v] = IF @ \cap Inside = {} THEN @ \ {"dir"} ELSE @]
  BY DEF RemoveDir
<1>3. PurgeFrame(d, v) /\ dPc'[d] = "next" /\ todo' = todo /\ excused' = excused
  BY <1>1, <1>2 DEF RemoveDir, PurgeFrame, Same, videoRows, run, history, TypeOK, DiskTypes,
     DeletionTypes
<1>4. ASSUME NEW w \in selected[d] PROVE (HasRead(d, w) /\ HasSwept(d, w))'
  <2>1. HasRead(d, w) /\ HasSwept(d, w) /\ w \in Videos
    BY <1>1 DEF FilesInv, DeletionKnows, Deleting, TypeOK, DeletionTypes
  <2>2. CASE w # v
    BY <1>1, <1>3, <2>1, <2>2 DEF PurgeFrame, Same, HasRead, HasSwept, Running, run
  <2>3. CASE w = v
    BY <1>1, <1>2, <1>3, <2>1, <2>3 DEF PurgeFrame, HasRead, HasSwept, Running, run, TypeOK,
       DiskTypes, Files
  <2> QED
    BY <2>2, <2>3
<1> QED
  BY <1>1, <1>3, <1>4, PurgeKeeps

LEMMA DeleteRowKeeps ==
  ASSUME TypeOK, FilesInv, NEW d \in Deletes, DeleteRow(d) PROVE FilesInv'
<1> DEFINE fallen == IF d \in AccountDeletes
                       THEN {v \in Videos : Exists(v) /\ OwnerOf[v] = account[d]}
                       ELSE {v \in selected[d] : Exists(v)}
<1>1. /\ dPc[d] = "next" /\ todo[d] = {}
      /\ UNCHANGED <<files, whole, uPc, rPc, at, rc, selected, paths, todo, current, purged, rerun>>
      /\ excused \subseteq excused'
      /\ dPc'[d] = "done" /\ \A e \in Deletes \ {d} : dPc'[e] = dPc[e]
  BY DEF DeleteRow, disk, run, TypeOK, DeletionTypes
<1>2. \A v \in Videos \ fallen : Same(v)
  BY <1>1 DEF DeleteRow, Same
<1>3. ASSUME NEW v \in fallen
      PROVE  /\ v \in Videos /\ Exists(v) /\ status'[v] = "gone" /\ ready'[v] = {} /\ ~posterPath'[v]
             /\ v \notin selected[d] => {<<v, "raw">>, <<v, "dir">>} \subseteq excused'
  BY DEF DeleteRow, Places, TypeOK, DeletionTypes
<1>4. ASSUME NEW v \in fallen
      PROVE  /\ "raw" \in files[v] => <<v, "raw">> \in excused'
             /\ <<v, "dir">> \in excused' \/ (~Running(v) /\ files[v] \subseteq {"raw"})
  <2>1. v \in selected[d] => HasRead(d, v) /\ HasSwept(d, v)
    BY <1>1 DEF FilesInv, DeletionKnows, Deleting
  <2> QED
    BY <1>1, <1>3, <2>1 DEF HasRead, HasSwept
<1> HIDE DEF fallen
<1>5. RowFirst'
  BY <1>1, <1>2, <1>3 DEF FilesInv, RowFirst, Same, Exists, TypeOK, RowTypes
<1>6. DeletionInOrder'
  BY <1>1 DEF FilesInv, DeletionInOrder
<1>7. DeletionKnows'
  BY <1>1 DEF FilesInv, DeletionKnows, Deleting, HasRead, HasSwept, Running
<1>8. GoneIsQuiet'
  BY <1>1, <1>2, <1>3, <1>4 DEF FilesInv, GoneIsQuiet, Running, Same
<1>9. ASSUME NEW v \in fallen
      PROVE  /\ InOrder(v)' /\ Explained(v)' /\ Kept(v)'
             /\ v \notin purged' => Knows(v)' /\ Backed(v)'
  <2>1. InOrder(v) /\ Kept(v) /\ (v \notin purged => Knows(v)) /\ v \in Videos
    BY <1>3 DEF FilesInv, RunInOrder, RunKnows
  <2> QED
    BY <1>1, <1>3, <1>4, <2>1 DEF InOrder, Explained, Kept, Knows, Backed, Exists, Out, Before
<1> QED
  BY <1>1, <1>2, <1>3, <1>5, <1>6, <1>7, <1>8, <1>9, SameVideo DEF FilesInv, RunInOrder, RunKnows

LEMMA KillKeeps ==
  ASSUME TypeOK, FilesInv, Kill PROVE FilesInv'
<1>1. /\ UNCHANGED <<videoRows, disk, at, rc, selected, todo, current, purged, rerun>> /\ excused \subseteq excused'
      /\ \A v \in Videos : rPc'[v] = "none" /\ uPc'[v] # "written" /\ (uPc'[v] = "new" => uPc[v] = "new")
      /\ \A v \in Videos : uPc[v] = "written" => <<v, "raw">> \in excused'
      /\ \A v \in Videos : uPc[v] = "done" => uPc'[v] = "done"
      /\ \A d \in Deletes : dPc'[d] \in {"new", "done"}
  BY DEF Kill, TypeOK, RunTypes
<1>2. RowFirst' /\ DeletionInOrder' /\ GoneIsQuiet' /\ DeletionKnows'
  BY <1>1 DEF FilesInv, RowFirst, DeletionInOrder, GoneIsQuiet, DeletionKnows, Deleting, Running,
     videoRows, TypeOK, DeletionTypes
<1>3. ASSUME NEW v \in Videos
      PROVE  /\ InOrder(v)' /\ Explained(v)' /\ Kept(v)'
             /\ v \notin purged' => Knows(v)' /\ Backed(v)'
  BY <1>1 DEF FilesInv, RunInOrder, RunKnows, InOrder, Explained, Kept, Knows, Backed, PosterServed,
     Exists,
     ReadingPcs, RenditionPcs, videoRows, disk
<1> QED
  BY <1>1, <1>2, <1>3 DEF FilesInv, RunInOrder, RunKnows

-----------------------------------------------------------------------------
(* The theorems. *)

\* The inductive invariant.
IInv == TypeOK /\ FilesInv

LEMMA IInvInit == Init => IInv
<1> SUFFICES ASSUME Init PROVE FilesInv
  BY TypeInit DEF IInv
<1> QED
  BY MediaAssumption DEF Init, FilesInv, RowFirst, RunInOrder, RunKnows, DeletionInOrder,
     DeletionKnows, Deleting,
     GoneIsQuiet, InOrder, Knows, Explained, Backed, Kept, Running, Exists, ReadingPcs, RenditionPcs

LEMMA IInvStep == IInv /\ [Next]_vars => IInv'
<1> SUFFICES ASSUME TypeOK, FilesInv, [Next]_vars PROVE FilesInv'
  BY TypeStep DEF IInv, FilesInv
<1>1. ASSUME NEW v \in Videos, Upload(v) \/ RunStep(v) \/ Retry(v) PROVE FilesInv'
  BY <1>1, UploadStepKeeps, RunStepKeeps
<1>2. ASSUME NEW d \in Deletes, DeleteStep(d) PROVE FilesInv'
  <2>1. ASSUME NEW v \in Videos, SelectVideo(d, v) PROVE FilesInv'
    <3> DEFINE S == {v}
    <3>1. Select(d, S) /\ S \in SUBSET Videos /\ \A w \in S : Exists(w)
      BY <2>1 DEF SelectVideo
    <3> QED
      BY <3>1, SelectKeeps
  <2>2. ASSUME NEW o \in Owners, SelectAccount(d, o) PROVE FilesInv'
    <3> DEFINE S == {v \in Videos : Exists(v) /\ OwnerOf[v] = o}
    <3>1. Select(d, S) /\ S \in SUBSET Videos /\ \A w \in S : Exists(w)
      BY <2>2 DEF SelectAccount
    <3> HIDE DEF S
    <3> QED
      BY <3>1, SelectKeeps
  <2> QED
    BY <1>2, <2>1, <2>2, UnlinkKeeps, ScanKeeps, RemoveDirKeeps, DeleteRowKeeps DEF DeleteStep
<1>3. CASE UNCHANGED vars
  BY <1>3 DEF FilesInv, RowFirst, RunInOrder, RunKnows, DeletionInOrder, DeletionKnows, Deleting,
     HasRead, HasSwept,
     GoneIsQuiet, InOrder, Knows, Explained, Backed, PosterServed, Kept, Running, Exists, Out, Before,
     vars, videoRows, disk, run, deletion, history
<1> QED
  BY <1>1, <1>2, <1>3, KillKeeps DEF Next

\* The inductive invariant: the types, where runs and deletions stand, what they
\* know of the disk, and the three properties, which need each other.
THEOREM Invariance == Spec => []IInv
  BY IInvInit, IInvStep, PTL DEF Spec

\* Every variable of the files model stays within its domain.
THEOREM TypeCorrect == Spec => []TypeOK
<1>1. IInv => TypeOK
  BY DEF IInv
<1> QED
  BY <1>1, Invariance, PTL

\* Whatever stays on disk of a video without a row has a cause: a run that was
\* overtaken by the purge, an upload into an account being deleted, a fault.
THEOREM LeftoversExplained == Spec => []LeftoversHaveACause
<1>1. IInv => LeftoversHaveACause
  BY DEF IInv, FilesInv, Explained, LeftoversHaveACause
<1> QED
  BY <1>1, Invariance, PTL

\* A ready row is a file that ffmpeg completed, and thumbnail_path is a poster on
\* disk, until a deletion or a run over ready rows of an earlier one.
THEOREM RowsAreBacked == Spec => []RowsStandForFiles
<1>1. IInv => RowsStandForFiles
  BY DEF IInv, FilesInv, Backed, RowsStandForFiles
<1> QED
  BY <1>1, Invariance, PTL

\* A video has its original or a whole rendition until a deletion, or a run over
\* ready rows of an earlier one.
THEOREM NoVideoIsLost == Spec => []NothingIsLost
<1>1. IInv => NothingIsLost
  BY DEF IInv, FilesInv, Kept, NothingIsLost
<1> QED
  BY <1>1, Invariance, PTL
=============================================================================
