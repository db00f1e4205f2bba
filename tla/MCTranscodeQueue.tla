-------------------------- MODULE MCTranscodeQueue --------------------------
(***************************************************************************)
(* TranscodeQueue for TLC: the process each worker task belongs to.        *)
(***************************************************************************)
EXTENDS TranscodeQueue, TLC

CONSTANTS p1, p2, w1, w2

\* One worker task per process.
OneEach == (w1 :> p1) @@ (w2 :> p2)

\* TRANSCODE_CONCURRENCY = 2 in a single process.
BothInP1 == (w1 :> p1) @@ (w2 :> p1)

Alone == w1 :> p1

\* The two processes are alike, each with its own worker: they may be swapped
\* together.
SwapProcesses == {(p1 :> p2) @@ (p2 :> p1) @@ (w1 :> w2) @@ (w2 :> w1)}
=============================================================================
