----------------------------- MODULE Reassembly -----------------------------
(***************************************************************************)
(* What a receiver promises, without bitmaps or buffers: it holds a set of *)
(* packet numbers, takes a packet only if it is one of the next SIZE, and  *)
(* acknowledges the longest gap-free prefix of what it holds.              *)
(***************************************************************************)
EXTENDS Integers

CONSTANT SIZE

VARIABLES
    got,      \* packet numbers held
    expected  \* the first one missing; expected - 1 is acknowledged

RInit == got = {} /\ expected = 1

Accept(n) ==
    /\ n >= expected /\ n < expected + SIZE
    /\ got' = got \cup {n}
    /\ expected' \in expected..(expected + SIZE)
    /\ 1..(expected' - 1) \subseteq got' /\ expected' \notin got'

\* a new transfer begins
Restart == got' = {} /\ expected' = 1

RNext == Restart \/ \E n \in expected..(expected + SIZE - 1) : Accept(n)

RSpec == RInit /\ [][RNext]_<<got, expected>>
=============================================================================
