------------------------------ MODULE TcpUtil -------------------------------
(***************************************************************************)
(* What both halves of the transport share: the macros of include/util.h   *)
(* and the limit of include/peer_server.h on consecutive timeouts.         *)
(***************************************************************************)
EXTENDS Integers

MAX(x, y) == IF x > y THEN x ELSE y

CONSTANT MAX_TIMEOUT_CNT   \* timeouts in a row that a connection survives (5)

ASSUME TimeoutAssumption == MAX_TIMEOUT_CNT \in Nat

MIN(x, y) == IF x < y THEN x ELSE y
=============================================================================
