------------------------------ MODULE MCUpload ------------------------------
(***************************************************************************)
(* Upload, for TLC: a chunk of a few packets, any ACK at any time.         *)
(***************************************************************************)
EXTENDS Upload
=============================================================================
