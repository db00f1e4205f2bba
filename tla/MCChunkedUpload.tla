--------------------------- MODULE MCChunkedUpload ---------------------------
(***************************************************************************)
(* ChunkedUpload for TLC.                                                  *)
(***************************************************************************)
EXTENDS ChunkedUpload

\* The chunk between the first and the last: it has an acknowledged one before it
\* and one after it (README, observed limits, for late requests of the first).
Middle == {1}
=============================================================================
