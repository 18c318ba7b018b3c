------------------------------ MODULE Transfer ------------------------------
(***************************************************************************)
(* One chunk on its way from an uploading peer to a downloading one: the   *)
(* upload_t of the first and the download_t of the second, joined by the   *)
(* network, from the moment the GET is sent.                               *)
(*                                                                         *)
(* The network is the one the program is run on.  NET = "fifo" is a route  *)
(* of hupsim.pl: a queue of NET_CAP packets, in order, that drops what     *)
(* does not fit.  NET = "udp" also reorders and duplicates, as the UDP     *)
(* sockets of the program allow.  Either loses up to MAX_LOSS packets, and *)
(* may bring the GET GET_COPIES times, at any moment of the transfer or    *)
(* after it.  A timer may elapse at any time.                              *)
(***************************************************************************)
EXTENDS Upload, Download, SequencesExt

CONSTANTS
    LOSS_ACK_NUM,  \* ACKs sent by a receiver that times out (3)
    NET,           \* "fifo" or "udp"
    NET_CAP,       \* packets that each direction of the network holds
    GET_COPIES,    \* how often the GET may arrive: 1 unless UDP repeats it
    MAX_LOSS       \* model bound: packets lost on the way

ASSUME TransferAssumption ==
    /\ BT_CHUNK_SIZE = NPKT * PAYLOAD
    /\ LOSS_ACK_NUM \in Nat
    /\ NET \in {"fifo", "udp"}
    /\ NET_CAP \in Nat \ {0}
    /\ GET_COPIES \in Nat \ {0}
    /\ MAX_LOSS \in Nat

VARIABLES
    get_net,    \* copies of the GET on their way
    data_net,   \* DATA packets on their way, by sequence number
    ack_net,    \* ACK packets on their way, by ACK number
    losses,     \* packets lost so far
    resent      \* history: sequence numbers that one upload sent more than once

netvars == <<get_net, data_net, ack_net, losses>>
tfvars == <<ul, is_uploading, dl, is_downloading, netvars, resent>>

(***************************************************************************)
(* The network                                                             *)
(***************************************************************************)
\* enQ of hupsim.pl: what does not fit in the queue is dropped
Send(net, msgs) == net \o SubSeq(msgs, 1, MIN(Len(msgs), NET_CAP - Len(net)))

\* positions a packet may be delivered from
Deliverable(net) == IF NET = "udp" THEN DOMAIN net ELSE DOMAIN net \cap {1}

\* the network after the delivery of its i-th packet; udp may keep a copy
Delivered(net, i) ==
    {RemoveAt(net, i)} \cup (IF NET = "udp" THEN {net} ELSE {})

\* the DATA packets of one call of ul_send, in order
DataOf(u) == [i \in 1..(send_limit(u) - u.last_pkt_sent) |-> u.last_pkt_sent + i]

(***************************************************************************)
(* Steps of the uploading peer                                             *)
(***************************************************************************)
\* ul_send on u: the sends, and the history of what was sent before
Transmit(u) ==
    /\ data_net' = Send(data_net, DataOf(u))
    /\ resent' = resent \cup (sent_by(u) \cap u.seq_ts)

\* a GET arrives: start_upload, which ends the upload in progress if there is
\* one; or nothing, when the peer is taken for dead or no connection is free
\* (what other peers hold is not seen here)
RecvGet ==
    /\ get_net > 0 /\ get_net' = get_net - 1
    /\ \/ StartUpload /\ Transmit(ul_init)
       \/ UNCHANGED <<ul, is_uploading, data_net, resent>>
    /\ UNCHANGED <<dl, is_downloading, ack_net, losses>>

\* an ACK arrives: update_upload, or nothing once the upload has ended
DeliverAck(i) ==
    /\ ack_net' \in Delivered(ack_net, i)
    /\ \/ /\ RecvAck(ack_net[i])
          /\ Transmit(ul_handle_ack(ul, ack_net[i]))
       \/ /\ ~is_uploading
          /\ UNCHANGED <<ul, is_uploading, data_net, resent>>
    /\ UNCHANGED <<dl, is_downloading, get_net, losses>>

UploadTick(ca_passed, rto_passed) ==
    LET v == ca_tick(ul, ca_passed) IN
    /\ CheckUpload(ca_passed, rto_passed)
    /\ IF rto_passed /\ timer_armed(v)
       THEN Transmit(on_timeout(v))
       ELSE UNCHANGED <<data_net, resent>>
    /\ UNCHANGED <<dl, is_downloading, get_net, ack_net, losses>>

(***************************************************************************)
(* Steps of the downloading peer                                           *)
(***************************************************************************)
\* DATA arrives: dl_recv, with its ACK, or nothing once the download ended
DeliverData(i) ==
    LET pkt == DataPacket(data_net[i]) IN
    /\ data_net' \in Delivered(data_net, i)
    /\ \/ /\ RecvData(pkt)
          /\ ack_net' = IF takes(dl, pkt) THEN Send(ack_net, <<ack_of(dl')>>) ELSE ack_net
       \/ /\ ~is_downloading
          /\ UNCHANGED <<dl, is_downloading, ack_net>>
    /\ UNCHANGED <<ul, is_uploading, get_net, losses, resent>>

\* the receiver times out: dl_loss repeats its ACK
DownloadTick ==
    /\ CheckDownload(TRUE)
    /\ ack_net' = Send(ack_net, [n \in 1..LOSS_ACK_NUM |-> ack_of(dl')])
    /\ UNCHANGED <<ul, is_uploading, get_net, data_net, losses, resent>>

(***************************************************************************)
(* Loss                                                                    *)
(***************************************************************************)
Lose ==
    /\ losses < MAX_LOSS /\ losses' = losses + 1
    /\ \/ get_net > 0 /\ get_net' = get_net - 1 /\ UNCHANGED <<data_net, ack_net>>
       \/ \E i \in DOMAIN data_net :
             data_net' = RemoveAt(data_net, i) /\ UNCHANGED <<get_net, ack_net>>
       \/ \E i \in DOMAIN ack_net :
             ack_net' = RemoveAt(ack_net, i) /\ UNCHANGED <<get_net, data_net>>
    /\ UNCHANGED <<ul, is_uploading, dl, is_downloading, resent>>

TfInit ==
    /\ UlInit /\ DlInit
    /\ get_net = GET_COPIES /\ data_net = <<>> /\ ack_net = <<>>
    /\ losses = 0 /\ resent = {}

TfNext ==
    \/ RecvGet
    \/ \E i \in Deliverable(ack_net) : DeliverAck(i)
    \/ \E i \in Deliverable(data_net) : DeliverData(i)
    \/ \E ca_passed, rto_passed \in BOOLEAN : UploadTick(ca_passed, rto_passed)
    \/ DownloadTick
    \/ Lose

TfSpec == TfInit /\ [][TfNext]_tfvars

(***************************************************************************)
(* Fairness: peer_run calls check_all_timeout at least every 100 ms, and   *)
(* the clock passes a timer that keeps waiting.  Nothing is asked of the   *)
(* network: it may deliver, or not.                                        *)
(***************************************************************************)
TfFairSpec ==
    /\ TfSpec
    /\ WF_tfvars(\E ca_passed \in BOOLEAN : UploadTick(ca_passed, TRUE))
    /\ WF_tfvars(DownloadTick)

(***************************************************************************)
(* Properties                                                              *)
(***************************************************************************)

\* Types of the composition.
TfTypeOK ==
    /\ UlTypeOK /\ DlTypeOK
    /\ get_net \in 0..GET_COPIES
    /\ data_net \in Seq(Seqs) /\ Len(data_net) <= NET_CAP
    /\ ack_net \in Seq(0..NPKT) /\ Len(ack_net) <= NET_CAP
    /\ losses \in 0..MAX_LOSS
    /\ resent \subseteq Seqs

\* The sender never believes more than the receiver has: what it takes as
\* acknowledged, and every ACK still on its way, is in the receiver's prefix.
AckedWasReceived ==
    /\ 1..ul.last_pkt_acked \subseteq received(dl.rwin)
    /\ \A i \in DOMAIN ack_net : 1..ack_net[i] \subseteq received(dl.rwin)

\* An upload that ends by its last ACK leaves the whole chunk at the
\* receiver (parse_packet.c ends the upload there).
FinishedUploadDelivered ==
    ul.finished => dl.finished /\ dl.buffer = Chunk

\* The pair does what ChunkCopy says of two ends that work, finish or give
\* up, and of a sender that starts over whenever the GET comes again.
phase(started, active, finished) ==
    CASE finished -> "done" [] ~finished /\ active -> "active"
      [] ~finished /\ ~active -> IF started THEN "dead" ELSE "idle"
Copy == INSTANCE ChunkCopy WITH
            SIZE      <- NPKT,
            REQUESTS  <- GET_COPIES,
            requests  <- get_net,
            delivered <- ack_of(dl),
            confirmed <- ul.last_pkt_acked,
            sender    <- phase(ul.window_size > 0, is_uploading, ul.finished),
            receiver  <- phase(TRUE, is_downloading, dl.finished)
ImplementsChunkCopy == Copy!CCSpec

\* Both ends stop, whatever is lost and whenever the timers elapse, by
\* completion or by MAX_TIMEOUT_CNT timeouts in a row: also when a second
\* GET restarts the sender in mid-transfer, which then takes the receiver's
\* ACKs for invalid while the receiver drops what is sent again.
BothEnd == <>[](~is_uploading /\ ~is_downloading)

\* "We do not use ACK of the retransmitted packets to compute RTT, so we can
\* avoid ambiguous ACK" (README.md:86).
NoAmbiguousSample ==
    [][\A i \in Deliverable(ack_net) :
          DeliverAck(i) /\ is_uploading /\ samples_rtt(ul, ack_net[i])
          => ack_net[i] \notin resent]_tfvars
=============================================================================
