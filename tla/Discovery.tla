----------------------------- MODULE Discovery ------------------------------
(***************************************************************************)
(* How a peer finds out who has the chunks it wants, packet by packet: an  *)
(* asker with a list of wanted chunks and a holder of some of them.  The   *)
(* asker cuts its list into WHOHAS packets, the holder answers each with   *)
(* an IHAVE, of which the asker fills the linked list hasqueue and sends a *)
(* GET for one chunk after the other; when the list is used up it asks     *)
(* again for what is still missing.                                        *)
(*                                                                         *)
(* The packets are those of PacketCodec, byte by byte, the queue that of   *)
(* LinkedList.  The transfer itself is left to Transfer: the holder serves *)
(* what the GET says, and the download completes or fails.                 *)
(***************************************************************************)
EXTENDS PacketCodec, LinkedList

CONSTANTS
    Files,      \* lists of hashes the user may ask for
    Holdings,   \* sets of hashes the holder may have
    UPPER,      \* is the asker's chunk file written in upper case?
    MAX_LOSS,   \* model bound: packets lost
    MAX_FAIL    \* model bound: downloads and allocations that fail

ASSUME DiscoveryAssumption ==
    /\ \A f \in Files : Len(f) \in Nat \ {0}
    /\ UPPER \in BOOLEAN
    /\ MAX_LOSS \in Nat /\ MAX_FAIL \in Nat
    /\ NODES >= HASH_NUM_PKT   \* a node for each hash of a packet

VARIABLES
    getchunks,        \* asker: psvr.getchunks, texts and states
    hasqueue,         \* asker: Peer.hasqueue of the holder
    is_alive,         \* asker: Peer.is_alive of the holder
    is_downloading,   \* asker: Peer.is_downloading
    get_index,        \* asker: Peer.dl.get_index
    whohas_recent,    \* asker: less than DEFAULT_TIMEOUT since psvr.last_whohas
    haschunks,        \* holder: psvr.haschunks
    asker_alive,      \* holder: Peer.is_alive of the asker
    serving,          \* holder: the hash being uploaded to the asker, or Nothing
    to_holder, to_asker, losses, fails

askervars == <<getchunks, hasqueue, is_alive, is_downloading, get_index, whohas_recent>>
holdervars == <<haschunks, asker_alive, serving>>
dsvars == <<askervars, holdervars, to_holder, to_asker, losses, fails>>

Nothing == "nothing"
Unacknowledged == "unacknowledged"   \* an upload whose last ACK was lost
Slots == 1..Len(getchunks)
Texts == [i \in Slots |-> getchunks[i].sha1]
Unfetched == {i \in Slots : getchunks[i].state = "unfetched"}
remains == \E i \in Slots : getchunks[i].state # "fetched"

wire(packets) == [i \in 1..Len(packets) |-> ENCODE_PKT(packets[i])]

(***************************************************************************)
(* The asker                                                               *)
(***************************************************************************)
\* send_whohas
whohas_packets == send_packet("WHOHAS", Texts, 1, Len(getchunks), Slots \ Unfetched)

\* the first node of the queue whose hash is that of an unfetched chunk, and
\* the first such chunk (find_unfetched_chunk)
Wanted(ll, n, i) == i \in Unfetched /\ getchunks[i].sha1 = ll.item[n]
FirstWanted(ll, nodes, k, i) ==
    /\ Wanted(ll, nodes[k], i)
    /\ \A k2 \in 1..(k - 1), i2 \in Slots : ~Wanted(ll, nodes[k2], i2)
    /\ \A i2 \in 1..(i - 1) : ~Wanted(ll, nodes[k], i2)
NothingWanted(ll) == {ll.item[n] : n \in Range(iteration(ll))} \cap {Texts[i] : i \in Unfetched} = {}

\* send_get and start_download of chunk i, whose node leaves the queue ll
StartDownload(ll, node, i) ==
    /\ hasqueue' = ll_remove(ll, node)
    /\ getchunks' = [getchunks EXCEPT ![i].state = "fetching"]
    /\ get_index' = i /\ is_downloading' = TRUE
    /\ to_holder' = to_holder \o wire(send_packet("GET", Texts, i, 1, {}))

\* try_send_get on the queue ll
try_send_get(ll) ==
    \/ \E nodes \in {iteration(ll)} : \E k \in DOMAIN nodes, i \in Slots :
          FirstWanted(ll, nodes, k, i) /\ StartDownload(ll, nodes[k], i)
    \/ /\ NothingWanted(ll) /\ hasqueue' = ll
       /\ UNCHANGED <<getchunks, get_index, is_downloading, to_holder>>

\* the list that parse_download fills, once all nodes are allocated:
\* it was emptied before, and the n-th call of new_ll_Node returns node n
filled(ll, texts) ==
    LET f[n \in 0..Len(texts)] ==
            IF n = 0 THEN empty_list(ll)
            ELSE ll_insert_last(f[n - 1], n, texts[n])
    IN  f[Len(texts)]

\* IHAVE: what is offered replaces the queue, and a chunk is asked for; it
\* is ignored while downloading, and when memory runs out nothing is kept
RecvIhave(pkt) ==
    /\ is_alive' = TRUE
    /\ \/ is_downloading /\ UNCHANGED <<hasqueue, getchunks, get_index, is_downloading, to_holder, fails>>
       \/ /\ ~is_downloading /\ UNCHANGED fails
          /\ \E ll \in {filled(hasqueue, hashes_of(pkt))} : try_send_get(ll)
       \/ /\ ~is_downloading /\ fails < MAX_FAIL /\ fails' = fails + 1
          /\ hasqueue' = empty_list(hasqueue)
          /\ UNCHANGED <<getchunks, get_index, is_downloading, to_holder>>
    /\ UNCHANGED whohas_recent

\* process_inbound_udp of the asker
RecvAsker ==
    /\ to_asker # <<>> /\ to_asker' = Tail(to_asker)
    /\ \E pkt \in {DECODE_PKT(Head(to_asker))} :
       IF valid_packet(pkt) THEN RecvIhave(pkt) ELSE UNCHANGED <<askervars, to_holder, fails>>
    /\ UNCHANGED <<holdervars, losses>>

\* refresh_chunk_download: another chunk of the queue is asked for
NextFromQueue ==
    /\ remains /\ is_alive /\ ~is_downloading /\ ~NothingWanted(hasqueue)
    /\ try_send_get(hasqueue)
    /\ UNCHANGED <<is_alive, whohas_recent, holdervars, to_asker, losses, fails>>

\* mutant: after a download that failed nobody is asked again
AskAgain_not_idle ==
    /\ remains /\ is_alive /\ ~is_downloading /\ NothingWanted(hasqueue)
    /\ ~whohas_recent /\ whohas_recent' = TRUE
    /\ \E packets \in {whohas_packets} : to_holder' = to_holder \o wire(packets)
    /\ UNCHANGED <<getchunks, hasqueue, is_alive, is_downloading, get_index, holdervars,
                   to_asker, losses, fails>>

\* refresh_chunk_download: the queue is used up, and the last WHOHAS is old
AskAgain ==
    /\ remains /\ ~is_downloading /\ (is_alive => NothingWanted(hasqueue))
    /\ ~whohas_recent /\ whohas_recent' = TRUE
    /\ \E packets \in {whohas_packets} : to_holder' = to_holder \o wire(packets)
    /\ UNCHANGED <<getchunks, hasqueue, is_alive, is_downloading, get_index, holdervars,
                   to_asker, losses, fails>>

\* DEFAULT_TIMEOUT has passed since the last WHOHAS, and its answers are in
WhohasAges ==
    /\ whohas_recent /\ to_holder = <<>> /\ to_asker = <<>>
    /\ whohas_recent' = FALSE
    /\ UNCHANGED <<getchunks, hasqueue, is_alive, is_downloading, get_index, holdervars,
                   to_holder, to_asker, losses, fails>>

\* the holder sends what it was asked for, and the upload ends with it or,
\* when the last ACK is lost, goes on without end
DownloadCompletes ==
    /\ is_downloading /\ serving = getchunks[get_index].sha1.hash
    /\ is_downloading' = FALSE
    /\ \/ serving' = Nothing /\ UNCHANGED losses
       \/ losses < MAX_LOSS /\ losses' = losses + 1 /\ serving' = Unacknowledged
    /\ getchunks' = [getchunks EXCEPT ![get_index].state = "fetched"]
    /\ UNCHANGED <<hasqueue, is_alive, get_index, whohas_recent, haschunks, asker_alive,
                   to_holder, to_asker, fails>>

\* too many timeouts, when no GET is on its way; or a wrong hash
DownloadFails(peer_dies) ==
    /\ is_downloading
    /\ IF serving = getchunks[get_index].sha1.hash
       THEN fails < MAX_FAIL /\ fails' = fails + 1
       ELSE to_holder = <<>> /\ peer_dies /\ UNCHANGED fails
    /\ is_downloading' = FALSE
    /\ is_alive' = ~peer_dies
    /\ getchunks' = [getchunks EXCEPT ![get_index].state = "unfetched"]
    /\ UNCHANGED <<hasqueue, get_index, whohas_recent, holdervars, to_holder, to_asker, losses>>

(***************************************************************************)
(* The holder, whose connection limit is not reached                       *)
(***************************************************************************)
\* mutant: a hash stays in the list although it was not found
found_in_all(pkt) == hashes_of(pkt)

\* the hashes asked for that are among haschunks, in order (send_ihave)
found_in(pkt) == kept(hashes_of(pkt), haschunks)

\* send_ihave
ihave_packets(found) ==
    IF found = <<>> THEN <<>> ELSE send_packet("IHAVE", found, 1, Len(found), {})

\* WHOHAS: answered unless this peer is being served
RecvWhohas(pkt) ==
    /\ \/ serving # Nothing /\ UNCHANGED to_asker
       \/ /\ serving = Nothing
          /\ \E found \in {found_in(pkt)} : to_asker' = to_asker \o wire(ihave_packets(found))
    /\ asker_alive' = TRUE
    /\ UNCHANGED <<haschunks, serving>>

\* GET: served if the peer is alive and the hash one of haschunks (hash2Index)
RecvGet(pkt) ==
    LET text == GET_HASH(pkt, 0) IN
    /\ serving' = IF asker_alive /\ text \in haschunks THEN text.hash ELSE serving
    /\ UNCHANGED <<haschunks, asker_alive, to_asker>>

\* process_inbound_udp of the holder
RecvHolder ==
    /\ to_holder # <<>> /\ to_holder' = Tail(to_holder)
    /\ \E pkt \in {DECODE_PKT(Head(to_holder))} :
       \/ ~valid_packet(pkt) /\ UNCHANGED <<holdervars, to_asker>>
       \/ valid_packet(pkt) /\ pkt.type = "WHOHAS" /\ RecvWhohas(pkt)
       \/ valid_packet(pkt) /\ pkt.type = "GET" /\ RecvGet(pkt)
    /\ UNCHANGED <<askervars, losses, fails>>

\* check_all_timeout: an upload nobody acknowledges is given up, and the
\* peer with it
UploadFails ==
    /\ serving # Nothing
    /\ is_downloading => serving # getchunks[get_index].sha1.hash
    /\ serving' = Nothing /\ asker_alive' = FALSE
    /\ UNCHANGED <<askervars, haschunks, to_holder, to_asker, losses, fails>>

Lose ==
    /\ losses < MAX_LOSS /\ losses' = losses + 1
    /\ \/ to_holder # <<>> /\ to_holder' = Tail(to_holder) /\ UNCHANGED to_asker
       \/ to_asker # <<>> /\ to_asker' = Tail(to_asker) /\ UNCHANGED to_holder
    /\ UNCHANGED <<askervars, holdervars, fails>>

\* process_get has just parsed the chunk file; the first WHOHAS follows
DsInit ==
    /\ \E f \in Files :
          getchunks = [i \in 1..Len(f) |-> [sha1 |-> Text(f[i], UPPER), state |-> "unfetched"]]
    /\ \E h \in Holdings : haschunks = {Text(x, FALSE) : x \in h}
    /\ hasqueue = init_linkedlist
    /\ is_alive = FALSE /\ is_downloading = FALSE /\ get_index = 1 /\ whohas_recent = FALSE
    /\ asker_alive = FALSE /\ serving = Nothing /\ to_holder = <<>> /\ to_asker = <<>>
    /\ losses = 0 /\ fails = 0

DsNext ==
    \/ RecvAsker \/ NextFromQueue \/ AskAgain \/ WhohasAges
    \/ DownloadCompletes \/ \E peer_dies \in BOOLEAN : DownloadFails(peer_dies)
    \/ RecvHolder \/ UploadFails \/ Lose

DsSpec == DsInit /\ [][DsNext]_dsvars

(***************************************************************************)
(* Fairness: packets arrive, the loop of peer_run goes round, the clock    *)
(* runs; a download that is served completes (Transfer), one that is not   *)
(* is given up.                                                            *)
(***************************************************************************)
DsFairSpec ==
    /\ DsSpec
    /\ WF_dsvars(RecvAsker) /\ WF_dsvars(RecvHolder)
    /\ WF_dsvars(NextFromQueue) /\ WF_dsvars(AskAgain) /\ WF_dsvars(WhohasAges)
    /\ WF_dsvars(DownloadCompletes) /\ WF_dsvars(DownloadFails(TRUE)) /\ WF_dsvars(UploadFails)

(***************************************************************************)
(* Properties                                                              *)
(***************************************************************************)

\* The pointers of the queue form one ring through every IHAVE, every
\* allocation that fails half-way and every removal from the middle, and
\* count says how many nodes it has: parse_download trusts count to decide
\* whether there is anything to free.
QueueWellFormed == well_formed(hasqueue)

\* "compute number of packets needed" (packet.c:83): what the holder reads
\* from the WHOHAS packets of one round, one after the other, are the hashes
\* of the unfetched chunks, all of them and in order; and each packet fits.
read_from(packets) == FlattenSeq([i \in 1..Len(packets) |-> hashes_of(DECODE_PKT(packets[i]))])
WhohasNamesAll ==
    LET missing == kept([i \in Slots |-> i], Unfetched) IN
    /\ read_from(wire(whohas_packets)) =
          [n \in 1..Len(missing) |-> Text(Texts[missing[n]].hash, FALSE)]
    /\ \A i \in DOMAIN whohas_packets : whohas_packets[i].pkt_len <= PACKET_SIZE

\* What the asker believes the holder to have, the holder has: hashes pass
\* two codecs, the list of the holder and the linked list unharmed.
OffersAreReal == \A k \in DOMAIN items(hasqueue) : items(hasqueue)[k] \in haschunks

\* Every packet on its way, WHOHAS, GET or IHAVE, is one that valid_packet
\* accepts at the other end, except a WHOHAS that has nothing to ask for
\* because all its chunks were fetched; that one is refused.
ValidOnTheWire ==
    \A w \in Range(to_holder \o to_asker) :
       LET pkt == DECODE_PKT(w) IN
       valid_packet(pkt) <=> (pkt.type = "WHOHAS" => GET_CHUNK_CNT(pkt) > 0)

\* Every chunk the holder has is fetched in the end, although each IHAVE
\* replaces the queue, those that come during a download are ignored, and
\* packets and downloads fail.
HeldIsFetched ==
    <>[](\A i \in Slots : getchunks[i].sha1.hash \in {text.hash : text \in haschunks}
                              => getchunks[i].state = "fetched")
=============================================================================
