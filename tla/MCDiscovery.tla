---------------------------- MODULE MCDiscovery -----------------------------
(***************************************************************************)
(* Discovery, for TLC: hashes of two bytes and a count of one, three       *)
(* hashes to a packet.  Six chunks fill two packets; seven is the first    *)
(* number of chunks for which pkt_num is too small, as 371 is with the     *)
(* sizes of the program.                                                   *)
(***************************************************************************)
EXTENDS Discovery

\* a chunk listed twice, two packets, two full packets
SomeFiles == {<<"b", "a", "b">>, <<"a", "b", "c", "d", "e">>,
              <<"f", "e", "d", "c", "b", "a">>}
SomeHoldings == {{"a", "b", "c", "d", "e", "f"}, {"b", "e"}}

SevenChunks == {<<"a", "b", "c", "d", "e", "f", "g">>}
AllSeven == {{"a", "b", "c", "d", "e", "f", "g"}}
=============================================================================
