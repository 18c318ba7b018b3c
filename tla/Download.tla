------------------------------ MODULE Download ------------------------------
(***************************************************************************)
(* The receiving half of the transport (download.c, recv_win.c and the     *)
(* download functions of send_helper.c): one chunk being fetched from one  *)
(* peer.                                                                   *)
(*                                                                         *)
(* A byte of the chunk is represented by its offset, so the buffer is      *)
(* right at b exactly when buffer[b] = b.  The packets are those of a      *)
(* sender that cuts the chunk into pieces of PAYLOAD bytes, the last one   *)
(* being shorter when PAYLOAD does not divide the chunk: this program's    *)
(* sender uses 1024, other implementations choose their own.  Packets      *)
(* before and after the chunk's own numbers carry PAYLOAD bytes of junk.   *)
(* Time is abstracted as in Upload.                                        *)
(***************************************************************************)
EXTENDS RecvWin

CONSTANTS
    BT_CHUNK_SIZE,    \* bytes of a chunk (512K)
    PAYLOAD           \* bytes of data per packet of the sending peer

ASSUME DownloadAssumption ==
    /\ BT_CHUNK_SIZE \in Nat \ {0}
    /\ PAYLOAD \in 1..BT_CHUNK_SIZE

VARIABLES
    dl,             \* peers[i].dl, the download_t of this peer
    is_downloading  \* peers[i].is_downloading

dlvars == <<dl, is_downloading>>

Offsets == 0..(BT_CHUNK_SIZE - 1)
Junk == -1
Chunk == [b \in Offsets |-> b]

(***************************************************************************)
(* A DATA packet: its sequence number, its length, and its i-th byte.      *)
(***************************************************************************)
TailSeq == (BT_CHUNK_SIZE + PAYLOAD - 1) \div PAYLOAD

DataPacket(seq) ==
    LET base == (seq - 1) * PAYLOAD
        own  == seq \in 1..TailSeq
        len  == IF own THEN MIN(PAYLOAD, BT_CHUNK_SIZE - base) ELSE PAYLOAD
    IN  [seq  |-> seq,
         data |-> [i \in 0..(len - 1) |-> IF own THEN base + i ELSE Junk],
         len  |-> len]

(***************************************************************************)
(* dl_init, get_ack                                                        *)
(***************************************************************************)
dl_init ==
    [ next_pkt_expected |-> 1,
      rwin              |-> init_recvwin,
      timeout_cnt       |-> 0,
      started           |-> FALSE,
      block_update      |-> FALSE,
      finished          |-> FALSE,
      data_length       |-> 0,
      buffer            |-> [b \in Offsets |-> Junk] ]

\* slide the window over what has arrived; the ACK is next_pkt_expected - 1
get_ack(d) ==
    LET r == recvwin_slideack(d.rwin)
    IN  [d EXCEPT !.rwin = r, !.next_pkt_expected = r.next_seq]

\* mutant: the ACK names the packet expected, not the last one received
ack_of_expected(d) == d.next_pkt_expected

ack_of(d) == d.next_pkt_expected - 1

(***************************************************************************)
(* dl_recv                                                                 *)
(***************************************************************************)
\* the packet length is recorded at the start and after every timeout
note_length(d, pkt) ==
    IF d.started /\ ~d.block_update THEN d
    ELSE [d EXCEPT !.data_length = pkt.len, !.started = TRUE, !.block_update = FALSE]

\* mutant: sequence numbers taken to start from 0
offset_of_from_zero(d, pkt) == pkt.seq * d.data_length

offset_of(d, pkt) == (pkt.seq - 1) * d.data_length

\* d is the download_t after note_length
acceptable(d, pkt) ==
    /\ seq_fit_in(d.rwin, pkt.seq)
    /\ offset_of(d, pkt) + pkt.len <= BT_CHUNK_SIZE

\* memcpy the payload and mark the packet, unless it is there already
store(d, pkt) ==
    LET off == offset_of(d, pkt) IN
    IF seq_exist_in(d.rwin, pkt.seq) THEN d
    ELSE [d EXCEPT !.buffer = [b \in Offsets |-> IF b \in off..(off + pkt.len - 1)
                                                 THEN pkt.data[b - off] ELSE @[b]],
                   !.rwin   = recvwin_mark(@, pkt.seq)]

\* mutant: complete one packet early
complete_early(d) == d.next_pkt_expected * d.data_length >= BT_CHUNK_SIZE

complete(d) == ack_of(d) * d.data_length >= BT_CHUNK_SIZE

\* an ACK of ack_of is sent exactly when the packet is taken
takes(d, pkt) == ~d.finished /\ acceptable(note_length(d, pkt), pkt)

dl_recv(d, pkt) ==
    IF d.finished THEN d
    ELSE IF ~takes(d, pkt) THEN note_length(d, pkt)
    ELSE LET g == get_ack(store(note_length(d, pkt), pkt))
         IN  [g EXCEPT !.timeout_cnt = 0, !.finished = complete(g)]

(***************************************************************************)
(* dl_check_timeout; dl_loss sends LOSS_ACK_NUM ACKs of ack_of.            *)
(***************************************************************************)
dl_loss(d) == [get_ack(d) EXCEPT !.block_update = TRUE]

\* mutant: the timeout is not counted
dl_check_timeout_uncounted(d, elapsed) ==
    IF d.finished \/ ~elapsed THEN d ELSE dl_loss(d)

dl_check_timeout(d, elapsed) ==
    IF d.finished \/ ~elapsed THEN d
    ELSE dl_loss([d EXCEPT !.timeout_cnt = @ + 1])
(***************************************************************************)
(* The events that reach a download_t.                                     *)
(***************************************************************************)
\* a GET has just been sent (try_send_get)
DlInit ==
    /\ dl = dl_init
    /\ is_downloading = TRUE

\* the peer is asked for a chunk again, once it is idle
StartDownload ==
    /\ ~is_downloading
    /\ dl' = dl_init
    /\ is_downloading' = TRUE

\* a DATA packet arrives; the download ends when it completes the chunk
RecvData(pkt) ==
    /\ is_downloading
    /\ dl' = dl_recv(dl, pkt)
    /\ is_downloading' = ~dl'.finished

\* check_all_timeout's download part; too many timeouts kill the download
CheckDownload(elapsed) ==
    /\ is_downloading
    /\ dl' = dl_check_timeout(dl, elapsed)
    /\ is_downloading' = (dl'.timeout_cnt <= MAX_TIMEOUT_CNT)

DlNext ==
    \/ StartDownload
    \/ \E seq \in 0..(TailSeq + 1) : RecvData(DataPacket(seq))
    \/ \E elapsed \in BOOLEAN : CheckDownload(elapsed)

DlSpec == DlInit /\ [][DlNext]_dlvars

(***************************************************************************)
(* Properties                                                              *)
(***************************************************************************)

\* Types of download_t and of the receive window in it.
DlTypeOK ==
    /\ is_downloading \in BOOLEAN
    /\ dl \in [ next_pkt_expected : Nat \ {0},
                rwin              : RecvWins,
                timeout_cnt       : 0..(MAX_TIMEOUT_CNT + 1),
                started           : BOOLEAN,
                block_update      : BOOLEAN,
                finished          : BOOLEAN,
                data_length       : 0..PAYLOAD,
                buffer            : [Offsets -> Offsets \cup {Junk}] ]

\* Through wrap-around of the circular bitmap, packets out of order and
\* repeated ones, the window records exactly the packets taken, and the ACK
\* is the longest gap-free prefix of them (recvwin_slideack, get_ack).
Reasm == INSTANCE Reassembly WITH SIZE <- RECV_WINDOW_SIZE,
                                  got <- received(dl.rwin),
                                  expected <- dl.next_pkt_expected
ImplementsReassembly == Reasm!RSpec

\* Every packet the window records has its bytes in their place, whatever
\* arrived around it, and no other byte of the buffer was written.
BufferMatchesWindow ==
    \A b \in Offsets :
       dl.buffer[b] = IF (b \div PAYLOAD) + 1 \in received(dl.rwin) THEN b ELSE Junk

\* A finished download holds the whole chunk, so that the hash check can
\* only fail on data that was wrong when it was sent; and a download that
\* has every packet of the chunk is finished.
FinishedIsWhole ==
    /\ dl.finished => dl.buffer = Chunk
    /\ 1..TailSeq \subseteq received(dl.rwin) => dl.finished
=============================================================================
