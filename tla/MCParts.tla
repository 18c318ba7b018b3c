------------------------------ MODULE MCParts -------------------------------
(***************************************************************************)
(* The parts that are checked by themselves, for TLC, one at a time:       *)
(* Download, with DATA packets in any order, repeated and out of range,    *)
(* and a window smaller than the chunk so that the bitmap wraps; Rtt, on   *)
(* links around the edges of its arithmetic; InputBuffer, with a buffer    *)
(* that a read can fill.                                                   *)
(***************************************************************************)
EXTENDS Download, Rtt, InputBuffer

VARIABLE part

partvars == <<dlvars, rttvars, inputvars, part>>

SomeDelays == {8, 15, 1251, 2500}
SomeWaits == {60}

PInit ==
    /\ DlInit /\ RttInit /\ InputInit
    /\ part \in {"download", "rtt", "input"}
    /\ part # "rtt" => delay = 8

PNext ==
    /\ UNCHANGED part
    /\ \/ part = "download" /\ DlNext /\ UNCHANGED <<rttvars, inputvars>>
       \/ part = "rtt" /\ RttNext /\ UNCHANGED <<dlvars, inputvars>>
       \/ part = "input" /\ InputNext /\ UNCHANGED <<dlvars, rttvars>>

PSpec == PInit /\ [][PNext]_partvars
=============================================================================
