----------------------------- MODULE MCSession ------------------------------
(***************************************************************************)
(* Session, for TLC: two chunks of two or three packets.                   *)
(***************************************************************************)
EXTENDS Session
=============================================================================
