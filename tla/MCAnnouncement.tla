--------------------------- MODULE MCAnnouncement ---------------------------
(***************************************************************************)
(* Announcement for TLC.                                                   *)
(***************************************************************************)
EXTENDS Announcement, TLC

\* Runs of the transcode are alike.
SwapRuns == Permutations(Runs)
=============================================================================
