------------------------------ MODULE MCSignIn ------------------------------
(***************************************************************************)
(* SignIn for TLC.                                                         *)
(***************************************************************************)
EXTENDS SignIn

CONSTANTS b1, b2, r1
=============================================================================
