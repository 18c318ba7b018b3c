---------------------------- MODULE MCPeerServer ----------------------------
(***************************************************************************)
(* PeerServer, for TLC: a file of two chunks and two or three peers.       *)
(***************************************************************************)
EXTENDS PeerServer

OneFile == [ab |-> <<"a", "b">>]
=============================================================================
