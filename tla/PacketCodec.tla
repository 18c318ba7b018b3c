---------------------------- MODULE PacketCodec -----------------------------
(***************************************************************************)
(* How packets are built, put on the wire, taken off it and checked        *)
(* (packet.c, packet.h, the hex conversions of chunk.c).                   *)
(*                                                                         *)
(* A packet_t is a record; its payload is an array of bytes.  A byte of a  *)
(* payload is the i-th byte <<h, i>> of hash h, a count <<"count", n>>, or *)
(* Junk that nobody wrote.  The text of a hash is the hash and whether its *)
(* hex digits are upper case: strcmp tells the two spellings apart.        *)
(***************************************************************************)
EXTENDS Integers, SequencesExt, Kept

CONSTANTS
    SHA1_HASH_SIZE,   \* bytes of a hash (20)
    CNT_SIZE,         \* bytes of the hash count (4), of which one is used
    HEADER_SIZE,      \* bytes of a header (16)
    PACKET_SIZE       \* bytes of a packet (1500)

ASSUME CodecAssumption ==
    /\ SHA1_HASH_SIZE \in Nat \ {0}
    /\ CNT_SIZE \in Nat \ {0}
    /\ HEADER_SIZE \in Nat
    /\ PACKET_SIZE \in Nat
    /\ PACKET_SIZE >= HEADER_SIZE + CNT_SIZE + SHA1_HASH_SIZE

MAGIC == 15441
VERSION == 1
Junk == <<"junk", 0>>

MAX_PAYLOAD_SIZE == PACKET_SIZE - HEADER_SIZE
PayloadBytes == 0..(MAX_PAYLOAD_SIZE - 1)
HASH_NUM_PKT == (MAX_PAYLOAD_SIZE - CNT_SIZE) \div SHA1_HASH_SIZE

least(m, n) == CHOOSE k \in {m, n} : k <= m /\ k <= n

(***************************************************************************)
(* The text of a hash.  hex2binary takes either case, binary2hex writes    *)
(* lower case; bytes that are not those of one hash give another text.     *)
(***************************************************************************)
Text(h, upper) == [hash |-> h, upper |-> upper]

hex2binary(text) == [i \in 0..(SHA1_HASH_SIZE - 1) |-> <<text.hash, i>>]

binary2hex(bytes) ==
    Text(IF \A i \in DOMAIN bytes : bytes[i] = <<bytes[0][1], i>> THEN bytes[0][1] ELSE "?", FALSE)

(***************************************************************************)
(* The macros of packet.h                                                  *)
(***************************************************************************)
GET_DATA_LEN(pkt) == pkt.pkt_len - pkt.hdr_len
EXT_HEADER_SIZE(pkt) == pkt.hdr_len - HEADER_SIZE
MAX_OFFSET(pkt) ==
    IF GET_DATA_LEN(pkt) > SHA1_HASH_SIZE THEN GET_DATA_LEN(pkt) - SHA1_HASH_SIZE ELSE 0

\* the hash count, and for GET nothing, comes before the first hash
count_size(type) == IF type = "GET" THEN 0 ELSE CNT_SIZE

GET_CHUNK_CNT(pkt) == pkt.payload[least(MAX_OFFSET(pkt), EXT_HEADER_SIZE(pkt))][2]

HASH_OFFSET(pkt, n) ==
    least(MAX_OFFSET(pkt), EXT_HEADER_SIZE(pkt) + count_size(pkt.type) + n * SHA1_HASH_SIZE)

GET_HASH(pkt, n) ==
    binary2hex([i \in 0..(SHA1_HASH_SIZE - 1) |-> pkt.payload[HASH_OFFSET(pkt, n) + i]])

\* all hashes of a WHOHAS or IHAVE packet
hashes_of(pkt) == [n \in 1..GET_CHUNK_CNT(pkt) |-> GET_HASH(pkt, n - 1)]

(***************************************************************************)
(* send_packet for a list of hashes: SET_HASH for each, SET_CHUNK_CNT      *)
(***************************************************************************)
\* the payload with the texts of a sequence behind the count
hash_payload(type, texts) ==
    LET first == count_size(type) IN
    [b \in PayloadBytes |->
        LET n == (b - first) \div SHA1_HASH_SIZE IN
        IF b >= first /\ n < Len(texts)
        THEN hex2binary(texts[n + 1])[(b - first) % SHA1_HASH_SIZE]
        ELSE IF b = 0 /\ type # "GET" THEN <<"count", Len(texts)>> ELSE Junk]

hash_packet(type, texts) ==
    [ magic |-> MAGIC, version |-> VERSION, type |-> type,
      hdr_len |-> HEADER_SIZE,
      pkt_len |-> HEADER_SIZE + count_size(type) + SHA1_HASH_SIZE * Len(texts),
      payload |-> hash_payload(type, texts) ]

\* mutant: the division rounds down
pkt_num_down(c_count) == (c_count * SHA1_HASH_SIZE) \div MAX_PAYLOAD_SIZE

\* "compute number of packets needed"
pkt_num(c_count) == (c_count * SHA1_HASH_SIZE + MAX_PAYLOAD_SIZE - 1) \div MAX_PAYLOAD_SIZE

\* the slots that go into the i-th packet, from slot c_index on
packet_slots(c_index, c_count, i) ==
    LET first == HASH_NUM_PKT * (i - 1)
        last  == least(c_count, HASH_NUM_PKT * i)
    IN  [n \in 1..(last - first) |-> c_index + first + n - 1]

\* all packets of one call; skip says which slots are left out, as WHOHAS
\* leaves out those that are not unfetched
send_packet(type, list, c_index, c_count, skip) ==
    [i \in 1..pkt_num(c_count) |->
        LET slots == kept(packet_slots(c_index, c_count, i), DOMAIN list \ skip)
        IN  hash_packet(type, [n \in 1..Len(slots) |-> list[slots[n]]])]

(***************************************************************************)
(* The wire: 16-bit fields in network order, and pkt_len bytes of the      *)
(* packet.  The receiver's packet_t is on the stack: what did not arrive   *)
(* is not set.                                                             *)
(***************************************************************************)
htons(v) == <<v \div 256, v % 256>>
ntohs(w) == 256 * w[1] + w[2]

ENCODE_PKT(pkt) ==
    [ magic |-> htons(pkt.magic), version |-> pkt.version, type |-> pkt.type,
      hdr_len |-> htons(pkt.hdr_len), pkt_len |-> htons(pkt.pkt_len),
      payload |-> [b \in 0..(pkt.pkt_len - HEADER_SIZE - 1) |-> pkt.payload[b]] ]

DECODE_PKT(wire) ==
    [ magic |-> ntohs(wire.magic), version |-> wire.version, type |-> wire.type,
      hdr_len |-> ntohs(wire.hdr_len), pkt_len |-> ntohs(wire.pkt_len),
      payload |-> [b \in PayloadBytes |->
                      IF b \in DOMAIN wire.payload THEN wire.payload[b] ELSE Junk] ]

\* mutant: a packet without hashes is valid
valid_packet_empty_too(pkt) ==
    /\ pkt.magic = MAGIC /\ pkt.version = VERSION
    /\ pkt.pkt_len >= pkt.hdr_len /\ pkt.hdr_len >= HEADER_SIZE
    /\ pkt.pkt_len <= PACKET_SIZE

valid_packet(pkt) ==
    /\ pkt.magic = MAGIC /\ pkt.version = VERSION
    /\ pkt.pkt_len >= pkt.hdr_len /\ pkt.hdr_len >= HEADER_SIZE
    /\ pkt.pkt_len <= PACKET_SIZE
    /\ pkt.type \in {"WHOHAS", "IHAVE"} =>
          /\ GET_DATA_LEN(pkt) >= CNT_SIZE
          /\ GET_CHUNK_CNT(pkt) > 0
          /\ GET_CHUNK_CNT(pkt) <= (GET_DATA_LEN(pkt) - CNT_SIZE) \div SHA1_HASH_SIZE
    /\ pkt.type = "GET" => GET_DATA_LEN(pkt) >= SHA1_HASH_SIZE
=============================================================================
