-------------------------------- MODULE Kept --------------------------------
(***************************************************************************)
(* The loops that go through a list and pass on only some of its members   *)
(* (send_packet: unfetched chunks; send_ihave: chunks held), as one        *)
(* operator.                                                               *)
(***************************************************************************)
EXTENDS Integers, Sequences

\* the members of a sequence that are in S, in order
kept(seq, S) ==
    LET f[n \in 0..Len(seq)] ==
            IF n = 0 THEN <<>>
            ELSE IF seq[n] \in S THEN Append(f[n - 1], seq[n]) ELSE f[n - 1]
    IN  f[Len(seq)]
=============================================================================
