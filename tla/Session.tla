------------------------------ MODULE Session -------------------------------
(***************************************************************************)
(* The whole conversation between a peer that wants a file of NCHUNKS      *)
(* chunks and the one peer that has them: WHOHAS, IHAVE and GET, the       *)
(* transfer of each chunk, what either end does when it hears nothing, and *)
(* what happens when one of the two is killed and started again.           *)
(*                                                                         *)
(* Each peer is a record of what its Peer entry for the other holds.  The  *)
(* handlers are operators on that record; out collects the packets that a  *)
(* handler gives to the socket, and is emptied when the step ends.  Every  *)
(* step of the downloading peer ends in refresh_chunk_download, because    *)
(* peer_run calls check_all_timeout after each packet.                     *)
(*                                                                         *)
(* The transport is that of Upload and Download, with one byte per packet; *)
(* all bytes of chunk c have the value c, so that a buffer has the right   *)
(* hash exactly when it holds nothing else.  DATA and ACK packets carry no *)
(* chunk number, as in the program.                                        *)
(*                                                                         *)
(* Packets stay in order and up to MAX_LOSS of them are lost.  A timer     *)
(* elapses only when nothing is on its way: the timeouts of the program    *)
(* are seconds, and the delay of the network is far below that.            *)
(***************************************************************************)
EXTENDS Integers, SequencesExt, Kept

CONSTANTS
    NCHUNKS,                            \* chunks of the file
    MAX_CONN,                           \* psvr.max_conn of the uploading peer
    NPKT, RECV_WINDOW_SIZE, SS_THRESH, MAX_DUP_ACK, LOSS_ACK_NUM,
    MAX_TIMEOUT_CNT, WINDOW_CAP,        \* of the transport
    MAX_LOSS,                           \* model bound: packets lost
    LOSE_ANY_GET,                       \* may a GET be lost while an upload runs?
    MAX_RESTARTS                        \* model bound: peers killed and respawned

ASSUME SessionAssumption ==
    /\ NCHUNKS \in Nat \ {0} /\ MAX_CONN \in Nat \ {0}
    /\ NPKT \in Nat \ {0} /\ RECV_WINDOW_SIZE \in Nat \ {0} /\ SS_THRESH \in Nat
    /\ MAX_DUP_ACK \in Nat \ {0} /\ MAX_TIMEOUT_CNT \in Nat /\ WINDOW_CAP \in Nat \ {0}
    /\ LOSS_ACK_NUM \in Nat /\ MAX_LOSS \in Nat /\ MAX_RESTARTS \in Nat
    /\ LOSE_ANY_GET \in BOOLEAN

VARIABLES
    down,      \* the downloading peer
    up,        \* the uploading peer
    to_up,     \* packets on their way to the uploading peer
    to_down,   \* packets on their way to the downloading peer
    losses, restarts

ssvars == <<down, up, to_up, to_down, losses, restarts>>

U == INSTANCE Upload WITH ul <- up.ul, is_uploading <- up.is_uploading
D == INSTANCE Download WITH BT_CHUNK_SIZE <- NPKT, PAYLOAD <- 1,
                            dl <- down.dl, is_downloading <- down.is_downloading

Chunks == 1..NCHUNKS

(***************************************************************************)
(* Packets                                                                 *)
(***************************************************************************)
Whohas(hashes) == [type |-> "WHOHAS", hashes |-> hashes]
Ihave(hashes)  == [type |-> "IHAVE", hashes |-> hashes]
Get(c)         == [type |-> "GET", hash |-> c]
Data(seq, c)   == [type |-> "DATA", seq |-> seq, byte |-> c]
Ack(n)         == [type |-> "ACK", ack |-> n]

\* the DATA packets of one call of ul_send on v, for chunk c
DataOf(v, c) ==
    [i \in 1..(U!send_limit(v) - v.last_pkt_sent) |-> Data(v.last_pkt_sent + i, c)]

Quiet == to_up = <<>> /\ to_down = <<>>

(***************************************************************************)
(* The downloading peer                                                    *)
(***************************************************************************)
remains(d) == \E c \in Chunks : d.state[c] # "fetched"

unfetched_chunks(d) ==
    kept([c \in Chunks |-> c], {c \in Chunks : d.state[c] = "unfetched"})

\* process_get and, later, refresh_chunk_download
send_whohas(d) ==
    [d EXCEPT !.out = Append(@, Whohas(unfetched_chunks(d))), !.whohas_recent = TRUE]

\* a peer just started, whose user has typed GET
FreshDown ==
    send_whohas(
      [ is_alive |-> FALSE, is_downloading |-> FALSE, hasqueue |-> <<>>, get_index |-> 1,
        dl |-> D!dl_init, state |-> [c \in Chunks |-> "unfetched"],
        whohas_recent |-> FALSE, out |-> <<>> ])

\* mutant: the GET overtakes what was sent before it
try_send_get_first(d) ==
    LET k == SelectInSeq(d.hasqueue, LAMBDA c : d.state[c] = "unfetched") IN
    IF k = 0 THEN d
    ELSE LET c == d.hasqueue[k] IN
         [d EXCEPT !.hasqueue = RemoveAt(@, k), !.get_index = c, !.state[c] = "fetching",
                   !.is_downloading = TRUE, !.dl = D!dl_init, !.out = <<Get(c)>> \o @]

\* try_send_get, find_unfetched_chunk, send_get and start_download
try_send_get(d) ==
    LET k == SelectInSeq(d.hasqueue, LAMBDA c : d.state[c] = "unfetched") IN
    IF k = 0 THEN d
    ELSE LET c == d.hasqueue[k] IN
         [d EXCEPT !.hasqueue = RemoveAt(@, k), !.get_index = c, !.state[c] = "fetching",
                   !.is_downloading = TRUE, !.dl = D!dl_init, !.out = Append(@, Get(c))]

\* mutant: WHOHAS is sent only when the user types GET
refresh_no_search(d) ==
    IF remains(d) /\ d.is_alive /\ ~d.is_downloading THEN try_send_get(d) ELSE d

\* refresh_chunk_download, as check_all_timeout and parse_packet call it
refresh_chunk_download(d) ==
    LET e == IF remains(d) /\ d.is_alive /\ ~d.is_downloading THEN try_send_get(d) ELSE d
    IN  IF remains(e) /\ ~e.is_downloading /\ ~e.whohas_recent THEN send_whohas(e) ELSE e

\* parse_packet on IHAVE
on_ihave(d, hashes) ==
    IF d.is_downloading THEN d
    ELSE try_send_get([d EXCEPT !.is_alive = TRUE, !.hasqueue = hashes])

\* the end of a download: the hash is checked and the chunk saved or put back
finish_download(d) ==
    [d EXCEPT !.is_downloading = FALSE,
              !.state[d.get_index] = IF \A b \in DOMAIN d.dl.buffer : d.dl.buffer[b] = d.get_index
                                     THEN "fetched" ELSE "unfetched"]

DataPacket(seq, byte) == [seq |-> seq, data |-> [i \in {0} |-> byte], len |-> 1]

\* parse_packet on DATA; v is the download_t after dl_recv
on_data(d, pkt, v) ==
    LET e == [d EXCEPT !.dl = v,
                       !.out = IF D!takes(d.dl, pkt) THEN Append(@, Ack(D!ack_of(v))) ELSE @]
    IN  IF v.finished THEN finish_download(e) ELSE e

\* check_all_timeout when dl_check_timeout finds that its time is up:
\* dl_loss, and after too many of them kill_download and die
on_download_timeout(d) ==
    LET v == D!dl_check_timeout(d.dl, TRUE)
        e == [d EXCEPT !.dl = v,
                       !.out = @ \o [i \in 1..LOSS_ACK_NUM |-> Ack(D!ack_of(v))]]
    IN  IF v.timeout_cnt <= MAX_TIMEOUT_CNT THEN e
        ELSE [e EXCEPT !.state[d.get_index] = "unfetched",
                       !.is_alive = FALSE, !.is_downloading = FALSE]

\* one turn of peer_run
DownStep(handled) ==
    \E d \in {handled} : \E e \in {refresh_chunk_download(d)} :
       /\ down' = [e EXCEPT !.out = <<>>]
       /\ to_up' = to_up \o e.out

(***************************************************************************)
(* The uploading peer                                                      *)
(***************************************************************************)
\* a peer just started; its upload_t is not read before a GET sets it
FreshUp ==
    [ is_alive |-> FALSE, is_uploading |-> FALSE, has_index |-> 1, ul |-> U!ul_init,
      out |-> <<>> ]

\* nobody else is being served
ul_num(u) == IF u.is_uploading THEN 1 ELSE 0

\* parse_packet on WHOHAS; this peer has every chunk (send_ihave)
on_whohas(u, hashes) ==
    IF ul_num(u) >= MAX_CONN THEN u
    ELSE [u EXCEPT !.is_alive = TRUE,
                   !.out = IF u.is_uploading THEN @ ELSE Append(@, Ihave(hashes))]

\* parse_packet on GET: the guards, kill_upload and start_upload
on_get(u, c) ==
    IF ~u.is_alive \/ ul_num(u) >= MAX_CONN THEN u
    ELSE [u EXCEPT !.ul = U!ul_send(U!ul_init), !.is_uploading = TRUE, !.has_index = c,
                   !.out = @ \o DataOf(U!ul_init, c)]

\* parse_packet on ACK
on_ack(u, ack) ==
    LET v == U!ul_handle_ack(u.ul, ack) IN
    IF ~u.is_alive \/ ~u.is_uploading THEN u
    ELSE [u EXCEPT !.ul = U!ul_send(v), !.is_uploading = ~v.finished,
                   !.out = @ \o DataOf(v, u.has_index)]

\* mutant: an upload is never given up
on_upload_check_for_ever(u, ca_passed, rto_passed) ==
    LET v == U!ca_tick(u.ul, ca_passed)
        w == IF rto_passed /\ U!timer_armed(v) THEN U!on_timeout(v) ELSE v
    IN  [u EXCEPT !.ul = [U!ul_send(w) EXCEPT !.timeout_cnt = 0],
                  !.out = @ \o DataOf(w, u.has_index)]

\* check_all_timeout on an upload: ul_check_timeout, and after too many
\* timeouts kill_upload and die
on_upload_check(u, ca_passed, rto_passed) ==
    LET v == U!ca_tick(u.ul, ca_passed)
        w == IF rto_passed /\ U!timer_armed(v) THEN U!on_timeout(v) ELSE v
        e == [u EXCEPT !.ul = U!ul_check_timeout(u.ul, ca_passed, rto_passed),
                       !.out = IF rto_passed /\ U!timer_armed(v)
                               THEN @ \o DataOf(w, u.has_index) ELSE @]
    IN  IF e.ul.timeout_cnt <= MAX_TIMEOUT_CNT THEN e
        ELSE [e EXCEPT !.is_alive = FALSE, !.is_uploading = FALSE]

UpStep(handled) ==
    \E u \in {handled} :
       /\ up' = [u EXCEPT !.out = <<>>]
       /\ to_down' = to_down \o u.out

(***************************************************************************)
(* Steps                                                                   *)
(***************************************************************************)
RecvDown ==
    /\ to_down # <<>> /\ to_down' = Tail(to_down)
    /\ LET m == Head(to_down) IN
       \/ m.type = "IHAVE" /\ DownStep(on_ihave(down, m.hashes))
       \/ /\ m.type = "DATA" /\ down.is_alive /\ down.is_downloading
          /\ LET pkt == DataPacket(m.seq, m.byte) IN
             \E v \in {D!dl_recv(down.dl, pkt)} : DownStep(on_data(down, pkt, v))
       \/ m.type = "DATA" /\ ~(down.is_alive /\ down.is_downloading) /\ DownStep(down)
    /\ UNCHANGED <<up, losses, restarts>>

RecvUp ==
    /\ to_up # <<>> /\ to_up' = Tail(to_up)
    /\ LET m == Head(to_up) IN
       UpStep(CASE m.type = "WHOHAS" -> on_whohas(up, m.hashes)
                [] m.type = "GET"    -> on_get(up, m.hash)
                [] m.type = "ACK"    -> on_ack(up, m.ack))
    /\ UNCHANGED <<down, losses, restarts>>

DownloadTimeout ==
    /\ Quiet /\ down.is_downloading
    /\ DownStep(on_download_timeout(down))
    /\ UNCHANGED <<up, to_down, losses, restarts>>

UploadTimeout(ca_passed) ==
    /\ Quiet /\ up.is_uploading
    /\ UpStep(on_upload_check(up, ca_passed, TRUE))
    /\ UNCHANGED <<down, to_up, losses, restarts>>

\* check_all_timeout before any timer of a packet has elapsed
UploadTick(ca_passed) ==
    /\ up.is_uploading
    /\ UpStep(on_upload_check(up, ca_passed, FALSE))
    /\ UNCHANGED <<down, to_up, losses, restarts>>

\* DEFAULT_TIMEOUT has passed since the last WHOHAS
WhohasAges ==
    /\ Quiet /\ down.whohas_recent
    /\ DownStep([down EXCEPT !.whohas_recent = FALSE])
    /\ UNCHANGED <<up, to_down, losses, restarts>>

Lose ==
    /\ losses < MAX_LOSS /\ losses' = losses + 1
    /\ \/ /\ to_up # <<>> /\ to_up' = Tail(to_up) /\ UNCHANGED to_down
          /\ LOSE_ANY_GET \/ Head(to_up).type # "GET" \/ ~up.is_uploading
       \/ to_down # <<>> /\ to_down' = Tail(to_down) /\ UNCHANGED to_up
    /\ UNCHANGED <<down, up, restarts>>

\* the uploading peer is killed and started again; what was on its way to
\* it is lost, or arrives late
RestartUp ==
    /\ restarts < MAX_RESTARTS /\ restarts' = restarts + 1
    /\ up' = FreshUp
    /\ to_up' \in {to_up, <<>>}
    /\ UNCHANGED <<down, to_down, losses>>

\* the same for the downloading peer, whose user types GET again
RestartDown ==
    /\ restarts < MAX_RESTARTS /\ restarts' = restarts + 1
    /\ DownStep(FreshDown)
    /\ to_down' \in {to_down, <<>>}
    /\ UNCHANGED <<up, losses>>

SsInit ==
    /\ down = [FreshDown EXCEPT !.out = <<>>] /\ to_up = FreshDown.out
    /\ up = FreshUp /\ to_down = <<>>
    /\ losses = 0 /\ restarts = 0

SsNext ==
    \/ RecvDown \/ RecvUp
    \/ DownloadTimeout \/ WhohasAges
    \/ \E ca_passed \in BOOLEAN : UploadTimeout(ca_passed) \/ UploadTick(ca_passed)
    \/ Lose \/ RestartUp \/ RestartDown

SsSpec == SsInit /\ [][SsNext]_ssvars

(***************************************************************************)
(* Fairness: packets that are not lost arrive, and the clock passes every  *)
(* timer.  That of an upload and that of WHOHAS are strongly fair: nothing *)
(* the other peer sends sets them again.  That of a download is set again  *)
(* by every DATA packet, so it passes only if none comes for long enough.  *)
(***************************************************************************)
SsFairSpec ==
    /\ SsSpec
    /\ WF_ssvars(RecvDown) /\ WF_ssvars(RecvUp)
    /\ WF_ssvars(DownloadTimeout) /\ SF_ssvars(WhohasAges)
    /\ SF_ssvars(\E ca_passed \in BOOLEAN : UploadTimeout(ca_passed))

(***************************************************************************)
(* Properties                                                              *)
(***************************************************************************)

\* ACK packets name no chunk (packet.h:141-151): what keeps those of an earlier
\* chunk, or of a killed download, apart is that the GET follows them.  While
\* a download runs, an ACK that no GET follows is one of this download, and
\* claims no more than it has.
AcksAreOwn ==
    down.is_downloading =>
       \A i \in DOMAIN to_up :
          \/ to_up[i].type # "ACK"
          \/ \E j \in i..Len(to_up) : to_up[j].type = "GET"
          \/ to_up[i].ack <= D!ack_of(down.dl)

\* An upload is finished (parse_packet on ACK) only if the peer it served is
\* not waiting for data any more, or has a new GET on its way: no late ACK
\* makes the sender stop in the middle of a chunk.
FinishedWasReceived ==
    [][up.is_uploading /\ ~up'.is_uploading /\ up'.ul.finished
       => \/ ~down.is_downloading
          \/ \E i \in DOMAIN to_up : to_up[i].type = "GET"]_ssvars

\* Between restarts the uploading peer takes the steps of Upload and no
\* others, whatever the other one sends: its ACK numbers never leave the
\* arrays, and what is checked and proved about Upload holds here.
SenderIsUpload == [][U!UlNext \/ RestartUp]_<<up.ul, up.is_uploading>>

\* "After several timeouts, it will resend WHOHAS ... and start transmission
\* again" (tests.txt:120-121), "all the downloading peers should be able to
\* download all the files" (tests.txt:186): whatever packet is lost and
\* whichever peer is killed and respawned, in the end every chunk is there.
AllFetched == <>[](\A c \in Chunks : down.state[c] = "fetched")

\* The uploading peer gets its connection slot back in the end, although the
\* last ACK is never repeated and a killed downloader never says goodbye.
SlotReleased == <>[](~up.is_uploading)
=============================================================================
