------------------------------ MODULE MCInvites ------------------------------
(***************************************************************************)
(* Invites for TLC.                                                        *)
(***************************************************************************)
EXTENDS Invites, TLC

Symmetry == Permutations(Tokens) \cup Permutations(Registrations)
=============================================================================
