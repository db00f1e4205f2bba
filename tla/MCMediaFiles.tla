---------------------------- MODULE MCMediaFiles ----------------------------
(***************************************************************************)
(* MediaFiles for TLC.                                                     *)
(***************************************************************************)
EXTENDS MediaFiles

CONSTANTS v1, v2, o1

\* RENDITIONS, cut down to one and to two.
OneRendition == <<"720p">>
TwoRenditions == <<"720p", "480p">>

OneOwner == [v \in Videos |-> o1]
=============================================================================
