----------------------------- MODULE MCTransfer -----------------------------
(***************************************************************************)
(* Transfer, for TLC: one byte per packet, so that a packet and its byte   *)
(* have the same number.                                                   *)
(***************************************************************************)
EXTENDS Transfer
=============================================================================
