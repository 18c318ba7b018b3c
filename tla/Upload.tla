------------------------------- MODULE Upload -------------------------------
(***************************************************************************)
(* The sending half of the transport (upload.c, and the upload functions   *)
(* of send_helper.c): a go-back-N sender with slow start, congestion       *)
(* avoidance and fast retransmit, sending one chunk of NPKT packets to one *)
(* peer.                                                                   *)
(*                                                                         *)
(* The C functions are operators on the upload_t record, under their own   *)
(* names, so that Transfer can compose them with a receiver; the actions   *)
(* below drive them with every ACK number and every expiry of a timer that *)
(* the event loop can see.                                                 *)
(*                                                                         *)
(* Time is abstracted: a timestamp is the fact that it was taken.  seq_ts  *)
(* is the set of sequence numbers whose seq_ts[] and seq_timeout[] entries *)
(* are set (they are always set together), and "the clock has passed it"   *)
(* is an argument of ul_check_timeout.  The clock is taken never to read   *)
(* 0, so ul_send has no failing path.                                      *)
(***************************************************************************)
EXTENDS TcpUtil

CONSTANTS
    NPKT,             \* BT_CHUNK_SIZE / PAYLOAD_SIZE (512 in the program)
    SS_THRESH,        \* initial slow-start threshold (64)
    MAX_DUP_ACK,      \* an ACK number counted more often than this is a loss (3)
    WINDOW_CAP        \* model bound: congestion avoidance stops growing here

ASSUME UploadAssumption ==
    /\ NPKT \in Nat \ {0}
    /\ SS_THRESH \in Nat
    /\ MAX_DUP_ACK \in Nat \ {0}
    /\ WINDOW_CAP \in Nat \ {0}

VARIABLES
    ul,            \* peers[i].ul, the upload_t of this peer
    is_uploading   \* peers[i].is_uploading

ulvars == <<ul, is_uploading>>

SS    == "SLOW_START"
CA    == "CONGESTION_AVOIDANCE"
FR    == "FAST_RETRANSMIT"
FR_SS == "FAST_RETRANSMIT_SS"
FR_CA == "FAST_RETRANSMIT_CA"
Statuses == {SS, CA, FR, FR_SS, FR_CA}

Seqs == 1..NPKT

(***************************************************************************)
(* ul_init, ul_send, ul_loss                                               *)
(***************************************************************************)
ul_init ==
    [ status             |-> SS,
      window_size        |-> 1,
      ss_threshold       |-> SS_THRESH,
      last_pkt_acked     |-> 0,
      last_pkt_sent      |-> 0,
      max_pkt_sent       |-> 0,
      max_retransmit_seq |-> 0,
      timeout_cnt        |-> 0,
      finished           |-> FALSE,
      ca_ts              |-> FALSE,
      seq_ts             |-> {},
      ack_cnt            |-> [s \in 0..NPKT |-> 0] ]

\* mutant: the tail of the chunk is not checked
send_limit_no_tail(u) == MAX(u.last_pkt_sent, u.last_pkt_acked + u.window_size)

\* where the loop of ul_send stops: at the window's end or the chunk's tail
send_limit(u) == MAX(u.last_pkt_sent, MIN(u.last_pkt_acked + u.window_size, NPKT))

\* mutant: the first packet of a burst gets no timestamp
sent_by_skips_first(u) == (u.last_pkt_sent + 2)..send_limit(u)

\* the sequence numbers whose DATA packets ul_send puts on the wire
sent_by(u) == (u.last_pkt_sent + 1)..send_limit(u)

ul_send(u) ==
    [u EXCEPT !.last_pkt_sent = send_limit(u),
              !.max_pkt_sent  = MAX(@, send_limit(u)),
              !.seq_ts        = @ \cup sent_by(u)]

\* mutant: last_pkt_sent is not taken back to the first unacknowledged packet
ul_loss_no_go_back(u) ==
    [u EXCEPT !.ss_threshold       = MAX(u.window_size \div 2, 2),
              !.window_size        = 1,
              !.status             = FR,
              !.max_retransmit_seq = u.max_pkt_sent]

\* mutant: max_pkt_sent goes back with last_pkt_sent
ul_loss_forgets_max(u) ==
    [u EXCEPT !.ss_threshold       = MAX(u.window_size \div 2, 2),
              !.window_size        = 1,
              !.last_pkt_sent      = u.last_pkt_acked,
              !.max_pkt_sent       = u.last_pkt_acked,
              !.status             = FR,
              !.max_retransmit_seq = u.max_pkt_sent]

ul_loss(u) ==
    [u EXCEPT !.ss_threshold       = MAX(u.window_size \div 2, 2),
              !.window_size        = 1,
              !.last_pkt_sent      = u.last_pkt_acked,
              !.status             = FR,
              !.max_retransmit_seq = u.max_pkt_sent]

(***************************************************************************)
(* ul_handle_ack                                                           *)
(***************************************************************************)
valid_ack(u, ack) == ack \in u.last_pkt_acked..u.max_pkt_sent

\* update_rtt is called on the ACK: the sample is now - seq_ts[ack]
samples_rtt(u, ack) ==
    /\ ~u.finished /\ ack > 0 /\ valid_ack(u, ack)
    /\ u.status \in {SS, CA}

\* MAX_DUP_SEQ: what the counter restarts from while recovering
MAX_DUP_SEQ(u, ack) == MIN(0, u.last_pkt_acked + 1 - ack)

\* mutant: no restart of the counter while recovering
counted_always(u, ack) ==
    IF u.status = FR THEN u.ack_cnt[ack] ELSE u.ack_cnt[ack] + 1

\* ack_cnt[ack] after this ACK is counted
counted(u, ack) ==
    CASE u.status \in {SS, CA}       -> u.ack_cnt[ack] + 1
      [] u.status \in {FR_SS, FR_CA} -> MAX_DUP_SEQ(u, ack) + 1
      [] u.status = FR               -> u.ack_cnt[ack]

is_dup_loss(u, ack) == u.status # FR /\ counted(u, ack) > MAX_DUP_ACK

\* window_size after an ACK of new data
grown_window(u, ack) ==
    CASE u.status = SS            -> u.window_size + (ack - u.last_pkt_acked)
      [] u.status \in {CA, FR_CA} -> u.window_size
      [] u.status = FR            -> IF ack >= u.last_pkt_sent
                                     THEN u.window_size + 1 ELSE u.window_size
      [] u.status = FR_SS         -> u.window_size + 1

\* mutant: recovery ends as soon as what was sent again is acknowledged
next_status_leaves_early(u, ack) ==
    LET over == grown_window(u, ack) > u.ss_threshold IN
    CASE u.status = SS    -> IF over THEN CA ELSE SS
      [] u.status = CA    -> CA
      [] u.status = FR    -> IF ack >= u.last_pkt_sent THEN FR_SS ELSE FR
      [] u.status = FR_SS -> IF ack >= u.last_pkt_sent THEN SS
                             ELSE IF over THEN FR_CA ELSE FR_SS
      [] u.status = FR_CA -> IF ack >= u.last_pkt_sent THEN CA ELSE FR_CA

\* status after an ACK of new data
next_status(u, ack) ==
    LET over == grown_window(u, ack) > u.ss_threshold IN
    CASE u.status = SS    -> IF over THEN CA ELSE SS
      [] u.status = CA    -> CA
      [] u.status = FR    -> IF ack >= u.last_pkt_sent THEN FR_SS ELSE FR
      [] u.status = FR_SS -> IF ack >= u.max_retransmit_seq THEN SS
                             ELSE IF over THEN FR_CA ELSE FR_SS
      [] u.status = FR_CA -> IF ack >= u.max_retransmit_seq THEN CA ELSE FR_CA

\* mutant: the upload ends one packet early
ack_new_data_short(u, ack) ==
    [u EXCEPT !.window_size    = grown_window(u, ack),
              !.status         = next_status(u, ack),
              !.last_pkt_sent  = MAX(@, ack),
              !.timeout_cnt    = 0,
              !.last_pkt_acked = ack,
              !.finished       = ack + 1 >= NPKT]

\* the part of ul_handle_ack under "if (ack > ul->last_pkt_acked)"
ack_new_data(u, ack) ==
    [u EXCEPT !.window_size    = grown_window(u, ack),
              !.status         = next_status(u, ack),
              !.last_pkt_sent  = MAX(@, ack),
              !.timeout_cnt    = 0,
              !.last_pkt_acked = ack,
              !.finished       = ack >= NPKT]

ul_handle_ack(u, ack) ==
    CASE u.finished -> u
      [] ~u.finished /\ ack = 0 -> [u EXCEPT !.timeout_cnt = 0]
      [] ~u.finished /\ ack > 0 /\ ~valid_ack(u, ack) -> u
      [] ~u.finished /\ ack > 0 /\ valid_ack(u, ack) ->
           LET c == [u EXCEPT !.ack_cnt[ack] = counted(u, ack)] IN
           IF is_dup_loss(u, ack) THEN ul_loss([c EXCEPT !.ack_cnt[ack] = 0])
           ELSE IF ack > u.last_pkt_acked THEN ack_new_data(c, ack)
           ELSE c

\* mutant: the window moves but nothing is sent
update_upload_no_send(u, ack) == ul_handle_ack(u, ack)

\* update_upload: handle the ACK, then send what the window now allows
update_upload(u, ack) == ul_send(ul_handle_ack(u, ack))

(***************************************************************************)
(* ul_check_timeout, in two parts.  The first call in a congestion         *)
(* avoidance state only sets ca_ts; later ones grow the window when ca_ts  *)
(* has passed.  Then the timer of the first unacknowledged packet decides. *)
(***************************************************************************)
ca_growth_due(u) ==
    u.status \in {CA, FR_CA} /\ u.ca_ts /\ u.window_size < WINDOW_CAP

ca_tick(u, ca_passed) ==
    [u EXCEPT !.ca_ts = @ \/ u.status \in {CA, FR_CA},
              !.window_size = IF ca_passed /\ ca_growth_due(u) THEN @ + 1 ELSE @]

timer_armed(u) == (u.last_pkt_acked + 1) \in u.seq_ts

\* mutant: the timeout is not counted
on_timeout_uncounted(u) == ul_loss(u)

\* the packet the timer is about goes out again, from a window of one
on_timeout(u) == ul_loss([u EXCEPT !.timeout_cnt = @ + 1])

ul_check_timeout(u, ca_passed, rto_passed) ==
    LET v == ca_tick(u, ca_passed) IN
    IF u.finished THEN u
    ELSE IF rto_passed /\ timer_armed(v) THEN ul_send(on_timeout(v)) ELSE v
(***************************************************************************)
(* The events that reach an upload_t.                                      *)
(***************************************************************************)
\* psvr is a global: before its first GET a peer's upload_t is all zeros
UlInit ==
    /\ ul = [ul_init EXCEPT !.window_size = 0, !.ss_threshold = 0]
    /\ is_uploading = FALSE

\* a GET is accepted: whatever upload was in progress is killed, and the
\* first packet of the new one goes out
StartUpload ==
    /\ ul' = ul_send(ul_init)
    /\ is_uploading' = TRUE

\* an ACK arrives; the upload ends when it completes the chunk
RecvAck(ack) ==
    /\ is_uploading
    /\ ul' = update_upload(ul, ack)
    /\ is_uploading' = ~ul'.finished

\* check_all_timeout's upload part; too many timeouts kill the upload
CheckUpload(ca_passed, rto_passed) ==
    /\ is_uploading
    /\ ul' = ul_check_timeout(ul, ca_passed, rto_passed)
    /\ is_uploading' = (ul'.timeout_cnt <= MAX_TIMEOUT_CNT)

\* ACK numbers on the wire: all that mean something, and one beyond the tail
AckNumbers == 0..(NPKT + 1)

UlNext ==
    \/ StartUpload
    \/ \E ack \in AckNumbers : RecvAck(ack)
    \/ \E ca_passed, rto_passed \in BOOLEAN : CheckUpload(ca_passed, rto_passed)

UlSpec == UlInit /\ [][UlNext]_ulvars

(***************************************************************************)
(* Fairness: peer_run calls check_all_timeout at least every 100 ms, and   *)
(* the clock passes every timer that is not set again.                     *)
(***************************************************************************)
UlFairSpec == UlSpec /\ WF_ulvars(\E ca_passed \in BOOLEAN : CheckUpload(ca_passed, TRUE))

(***************************************************************************)
(* Properties                                                              *)
(***************************************************************************)

UploadRecords ==
    [ status             : Statuses,
      window_size        : Nat,
      ss_threshold       : Nat,
      last_pkt_acked     : 0..NPKT,
      last_pkt_sent      : 0..NPKT,
      max_pkt_sent       : 0..NPKT,
      max_retransmit_seq : 0..NPKT,
      timeout_cnt        : 0..(MAX_TIMEOUT_CNT + 1),
      finished           : BOOLEAN,
      ca_ts              : BOOLEAN,
      seq_ts             : SUBSET Seqs,
      ack_cnt            : [0..NPKT -> Int] ]

\* Types of upload_t; the counters stay inside the arrays ack_cnt[] and
\* seq_ts[], which have NPKT + 1 entries.
UlTypeOK == ul \in UploadRecords /\ is_uploading \in BOOLEAN

\* The counters of the sliding window keep their order through ACKs, losses
\* and timeouts, and exactly the packets up to max_pkt_sent have a timestamp:
\* an ACK that ul_handle_ack accepts never indexes an unset one.
Ordered(u) ==
    /\ u.last_pkt_acked <= u.last_pkt_sent
    /\ u.last_pkt_sent <= u.max_pkt_sent
    /\ u.max_retransmit_seq <= u.max_pkt_sent
    /\ u.seq_ts = 1..u.max_pkt_sent
SeqsOrdered == Ordered(ul)

\* A running upload has a timer on its first unacknowledged packet.  With a
\* zero entry in seq_timeout[] ul_check_timeout returns without counting a
\* timeout, and the upload would hold its connection slot for ever.
TimerArmed == is_uploading => timer_armed(ul)

\* ul_send never runs ahead of the window, whatever loss and ACKs did to
\* last_pkt_sent, last_pkt_acked and window_size in between.
InWindow(u) == u.window_size >= 1 /\ u.last_pkt_sent <= u.last_pkt_acked + u.window_size
WindowRespected == is_uploading => InWindow(ul)

\* Recovery is left only when everything sent before the loss is
\* acknowledged: an RTT is sampled for new data (SS and CA) only when the
\* data was never sent twice.
Recovered(u) == u.status \in {SS, CA} => u.last_pkt_acked >= u.max_retransmit_seq
RecoveryComplete == Recovered(ul)

\* One loss cuts the threshold once: while a loss is being repaired the
\* duplicate ACKs it causes do not start another repair.
DupAcksCutOnce ==
    [][\A ack \in AckNumbers :
          RecvAck(ack) /\ ul.status \in {FR, FR_SS, FR_CA}
          => ul'.ss_threshold = ul.ss_threshold]_ulvars

\* Acknowledged data is never forgotten: within one upload last_pkt_acked
\* and max_pkt_sent only grow, through losses and timeouts too.
ProgressKept ==
    [][\/ StartUpload
       \/ /\ ul'.last_pkt_acked >= ul.last_pkt_acked
          /\ ul'.max_pkt_sent >= ul.max_pkt_sent]_ulvars

\* An upload ends, by its last ACK or by too many timeouts, unless the peer
\* answers ACK 0 for ever (each one clears timeout_cnt) or asks again and
\* again.
UploadEnds ==
    \/ []<><<StartUpload>>_ulvars
    \/ []<><<RecvAck(0)>>_ulvars
    \/ is_uploading ~> ~is_uploading
=============================================================================
