--------------------------- MODULE TransferProofs ---------------------------
(***************************************************************************)
(* Proofs about Transfer, for either kind of network and every chunk,      *)
(* packet and window size, queue length, number of losses and number of    *)
(* repeated ACKs.                                                          *)
(*                                                                         *)
(* The invariants of the two ends, UlInv and DlInv with Whole, come from   *)
(* UploadProofs and DownloadProofs.  What joins them is that the network   *)
(* holds only ACKs of the prefix that the receiver has by now: with that   *)
(* an ACK, however old, can be taken at its word, also by a sender that a  *)
(* repeated GET made start over.                                           *)
(***************************************************************************)
EXTENDS Transfer, UploadProofs, DownloadProofs, SequenceTheorems

-----------------------------------------------------------------------------
(***************************************************************************)
(* The network                                                             *)
(***************************************************************************)
\* Loss and delivery take a packet out and leave the others.
LEMMA RemoveKeeps ==
    ASSUME NEW S, NEW s \in Seq(S), NEW i \in DOMAIN s
    PROVE  RemoveAt(s, i) \in Seq(S) /\ Len(RemoveAt(s, i)) <= Len(s)
  BY DEF RemoveAt

\* What is delivered, a copy kept or not, leaves packets that were there.
LEMMA DeliveryKeeps ==
    ASSUME NEW S, NEW s \in Seq(S), NEW i \in DOMAIN s, NEW n \in Delivered(s, i)
    PROVE  n \in Seq(S) /\ Len(n) <= Len(s)
<1>1. n = RemoveAt(s, i) \/ n = s
  BY DEF Delivered
<1> QED
  BY <1>1, RemoveKeeps

\* enQ never overfills a queue, and makes up no packet.
LEMMA SendKeeps ==
    ASSUME NEW S, NEW net \in Seq(S), Len(net) <= NET_CAP, NEW msgs \in Seq(S)
    PROVE  Send(net, msgs) \in Seq(S) /\ Len(Send(net, msgs)) <= NET_CAP
<1> DEFINE k == MIN(Len(msgs), NET_CAP - Len(net))
           m == SubSeq(msgs, 1, k)
<1>1. /\ Len(net) \in Nat /\ Len(msgs) \in Nat /\ NET_CAP \in Nat
  BY TransferAssumption, LenProperties
<1>2. k \in 0..Len(msgs) /\ k <= NET_CAP - Len(net)
  BY <1>1 DEF MIN
<1> HIDE DEF k
<1>3. m \in Seq(S) /\ Len(m) = k
  BY <1>1, <1>2
<1> HIDE DEF m
<1>4. net \o m \in Seq(S) /\ Len(net \o m) = Len(net) + Len(m)
  BY <1>3
<1> QED
  BY <1>1, <1>2, <1>3, <1>4 DEF Send, m, k

\* The packets of one ul_send are packets of the chunk.
LEMMA BurstKeeps ==
    ASSUME NEW u, Sound(u), InWindow(u)
    PROVE  DataOf(u) \in Seq(Seqs) /\ sent_by(u) \subseteq Seqs
<1>1. u \in UploadRecords /\ u.last_pkt_sent \in Nat
  BY WindowFields, UploadAssumption DEF Sound
<1>2. send_limit(u) \in Nat /\ send_limit(u) >= u.last_pkt_sent
  <2>1. /\ u.last_pkt_acked \in Nat /\ u.window_size \in Nat /\ NPKT \in Nat
    BY <1>1, WindowFields, UploadAssumption
  <2> QED
    BY <1>1, <2>1 DEF send_limit, MAX, MIN
<1>3. sent_by(u) \subseteq Seqs
  <2>1. ul_send(u).seq_ts = u.seq_ts \cup sent_by(u)
    BY <1>1 DEF ul_send, UploadRecords
  <2>2. ul_send(u).seq_ts \subseteq Seqs
    BY SendSound DEF Sound, UploadRecords
  <2> QED
    BY <2>1, <2>2
<1>4. PICK n \in Nat : n = send_limit(u) - u.last_pkt_sent
  BY <1>1, <1>2
<1>5. ASSUME NEW i \in 1..n PROVE u.last_pkt_sent + i \in Seqs
  <2>1. u.last_pkt_sent + i \in sent_by(u)
    BY <1>1, <1>2, <1>4 DEF sent_by
  <2> QED
    BY <2>1, <1>3
<1>6. DataOf(u) = [i \in 1..n |-> u.last_pkt_sent + i]
  BY <1>4 DEF DataOf
<1>7. DataOf(u) \in Seq(Seqs)
  BY <1>5, <1>6
<1> QED
  BY <1>3, <1>7

\* One ul_send in the network.
LEMMA TransmitKeeps ==
    ASSUME NEW u, Sound(u), InWindow(u), data_net \in Seq(Seqs),
           Len(data_net) <= NET_CAP, resent \subseteq Seqs, Transmit(u)
    PROVE  /\ data_net' \in Seq(Seqs) /\ Len(data_net') <= NET_CAP
           /\ resent' \subseteq Seqs
<1>1. DataOf(u) \in Seq(Seqs) /\ sent_by(u) \subseteq Seqs
  BY BurstKeeps
<1>2. /\ Send(data_net, DataOf(u)) \in Seq(Seqs)
      /\ Len(Send(data_net, DataOf(u))) <= NET_CAP
  BY <1>1, SendKeeps
<1> QED
  BY <1>1, <1>2 DEF Transmit

-----------------------------------------------------------------------------
(***************************************************************************)
(* What the operations of upload_t do to the ends of the transfer          *)
(***************************************************************************)
\* An ACK that moves last_pkt_acked moves it to the ACK's number; the upload
\* is finished by the ACK of the last packet only.
LEMMA AckConfirms ==
    ASSUME NEW u, Sound(u), Running(u), NEW ack \in Nat
    PROVE  LET h == ul_handle_ack(u, ack) IN
           \/ h.last_pkt_acked = u.last_pkt_acked /\ ~h.finished
           \/ /\ h.last_pkt_acked = ack /\ ack > u.last_pkt_acked
              /\ h.finished <=> ack >= NPKT
<1> DEFINE h == ul_handle_ack(u, ack)
           c == [u EXCEPT !.ack_cnt[ack] = counted(u, ack)]
           d == [c EXCEPT !.ack_cnt[ack] = 0]
<1>1. u \in UploadRecords /\ ~u.finished
  BY DEF Sound, Running, Outstanding
<1>2. /\ c.last_pkt_acked = u.last_pkt_acked /\ c.finished = u.finished
      /\ d.last_pkt_acked = u.last_pkt_acked /\ d.finished = u.finished
  BY <1>1 DEF UploadRecords
<1>3. CASE ack = 0
  <2>1. h = [u EXCEPT !.timeout_cnt = 0]
    BY <1>1, <1>3 DEF ul_handle_ack
  <2> QED
    BY <2>1, <1>1 DEF UploadRecords
<1>4. CASE ack > 0 /\ ~valid_ack(u, ack)
  <2>1. h = u
    BY <1>1, <1>4 DEF ul_handle_ack
  <2> QED
    BY <2>1, <1>1
<1>5. CASE ack > 0 /\ valid_ack(u, ack)
  <2>1. h = IF is_dup_loss(u, ack) THEN ul_loss(d)
            ELSE IF ack > u.last_pkt_acked THEN ack_new_data(c, ack) ELSE c
    BY <1>1, <1>5 DEF ul_handle_ack
  <2>2. /\ ul_loss(d).last_pkt_acked = d.last_pkt_acked
        /\ ul_loss(d).finished = d.finished
    BY <1>1 DEF ul_loss, UploadRecords
  <2>3. /\ ack_new_data(c, ack).last_pkt_acked = ack
        /\ ack_new_data(c, ack).finished = (ack >= NPKT)
    BY <1>1 DEF ack_new_data, UploadRecords
  <2> HIDE DEF h, c, d
  <2>4. CASE is_dup_loss(u, ack)
    BY <2>1, <2>2, <2>4, <1>1, <1>2 DEF h
  <2>5. CASE ~is_dup_loss(u, ack) /\ ack > u.last_pkt_acked
    <3>1. h = ack_new_data(c, ack)
      BY <2>1, <2>5
    <3>2. h.last_pkt_acked = ack
      BY <3>1, <2>3
    <3>3. h.finished <=> ack >= NPKT
      BY <3>1, <2>3, Zenon
    <3> QED
      BY <3>2, <3>3, <2>5 DEF h
  <2>6. CASE ~is_dup_loss(u, ack) /\ ~(ack > u.last_pkt_acked)
    BY <2>1, <2>6, <1>1, <1>2 DEF h
  <2> QED
    BY <2>4, <2>5, <2>6
<1> QED
  BY <1>3, <1>4, <1>5

\* ca_tick does not touch what is acknowledged.
LEMMA TickConfirms ==
    ASSUME NEW u \in UploadRecords, NEW passed
    PROVE  /\ ca_tick(u, passed).last_pkt_acked = u.last_pkt_acked
           /\ ca_tick(u, passed).finished = u.finished
  BY DEF ca_tick, UploadRecords

\* on_timeout goes back to a window of one, and forgets nothing.
LEMMA TimeoutConfirms ==
    ASSUME NEW u, Sound(u), Running(u)
    PROVE  /\ Sound(on_timeout(u)) /\ InWindow(on_timeout(u))
           /\ on_timeout(u).last_pkt_acked = u.last_pkt_acked
           /\ on_timeout(u).finished = u.finished
<1> DEFINE v == [u EXCEPT !.timeout_cnt = @ + 1]
<1>1. u \in UploadRecords /\ u.timeout_cnt <= MAX_TIMEOUT_CNT
  BY DEF Sound, Running
<1>2. u.timeout_cnt + 1 \in 0..(MAX_TIMEOUT_CNT + 1)
  BY <1>1, WindowFields, TimeoutAssumption
<1>3. v \in UploadRecords
  BY <1>1, <1>2 DEF UploadRecords
<1>4. /\ v.last_pkt_acked = u.last_pkt_acked /\ v.last_pkt_sent = u.last_pkt_sent
      /\ v.max_pkt_sent = u.max_pkt_sent /\ v.seq_ts = u.seq_ts
      /\ v.max_retransmit_seq = u.max_retransmit_seq
      /\ v.status = u.status /\ v.finished = u.finished
  BY <1>1 DEF UploadRecords
<1>5. Sound(v)
  BY <1>3, <1>4 DEF Sound, Ordered, Recovered
<1> HIDE DEF v
<1>6. on_timeout(u) = ul_loss(v)
  BY DEF on_timeout, v
<1> QED
  BY <1>4, <1>5, <1>6, LossSound

-----------------------------------------------------------------------------
(***************************************************************************)
(* The inductive invariant: the two ends by themselves, what is in flight, *)
(* and what one end knows of the other.  In flight are only packets of the *)
(* chunk and only ACKs of the prefix the receiver has.  That a packet was  *)
(* sent is not part of it: ul_init forgets seq_ts[] when a GET comes again *)
(* while DATA of the upload before is still on its way.                    *)
(***************************************************************************)
UpPart ==
    /\ UlInv
    /\ ul.finished <=> ul.last_pkt_acked = NPKT

DownPart ==
    /\ DlInv /\ Whole(dl)
    /\ is_downloading => ~dl.finished

InFlight ==
    /\ data_net \in Seq(Seqs) /\ Len(data_net) <= NET_CAP
    /\ ack_net \in Seq(0..ack_of(dl)) /\ Len(ack_net) <= NET_CAP
    /\ resent \subseteq Seqs

Agree == ul.last_pkt_acked <= ack_of(dl)

TfInv ==
    /\ UpPart /\ DownPart /\ InFlight /\ Agree
    /\ get_net \in 0..GET_COPIES /\ losses \in 0..MAX_LOSS

\* The chunk is NPKT packets of PAYLOAD bytes on both sides.
LEMMA SamePackets == EvenPackets /\ TailSeq = NPKT
<1>1. /\ BT_CHUNK_SIZE \in Nat \ {0} /\ PAYLOAD \in Nat \ {0} /\ NPKT \in Nat \ {0}
      /\ BT_CHUNK_SIZE = NPKT * PAYLOAD
  BY DownloadAssumption, UploadAssumption, TransferAssumption
<1>2. EvenPackets
  BY <1>1 DEF EvenPackets
<1>3. PICK b \in Nat : b = BT_CHUNK_SIZE + PAYLOAD - 1
  BY <1>1
<1>4. b \in (NPKT * PAYLOAD)..(NPKT * PAYLOAD + PAYLOAD - 1)
  <2>1. PICK p \in Nat : p = NPKT * PAYLOAD
    BY <1>1
  <2> QED
    BY <2>1, <1>1, <1>3
<1>5. b \div PAYLOAD = NPKT
  BY <1>1, <1>4, PieceOf
<1> QED
  BY <1>2, <1>3, <1>5 DEF TailSeq

\* The ACK of a receiver is the length of a prefix of the chunk, and the
\* whole of it exactly when the download is finished.
LEMMA AckRange ==
    ASSUME NEW d, Settled(d), Whole(d)
    PROVE  /\ ack_of(d) \in 0..NPKT
           /\ d.finished <=> ack_of(d) = NPKT
           /\ 1..ack_of(d) \subseteq received(d.rwin)
           /\ d.next_pkt_expected = ack_of(d) + 1
<1>1. /\ d.next_pkt_expected \in Nat \ {0} /\ d.next_pkt_expected = d.rwin.next_seq
      /\ NPKT \in Nat \ {0} /\ TailSeq = NPKT
  BY UploadAssumption, SamePackets DEF Settled, Downloads
<1>2. PICK a \in Nat : a = ack_of(d) /\ d.next_pkt_expected = a + 1
  BY <1>1 DEF ack_of
<1>3. 1..a \subseteq received(d.rwin)
  BY <1>1, <1>2 DEF received
<1>4. received(d.rwin) \subseteq 1..NPKT
  BY <1>1 DEF Whole
<1>5. a <= NPKT
  <2>1. a # 0 => a \in 1..NPKT
    BY <1>2, <1>3, <1>4
  <2> QED
    BY <2>1, <1>1, <1>2
<1>6. d.finished <=> d.next_pkt_expected > NPKT
  BY <1>1 DEF Whole
<1>7. d.next_pkt_expected > NPKT <=> a = NPKT
  BY <1>1, <1>2, <1>5
<1> QED
  BY <1>1, <1>2, <1>3, <1>5, <1>6, <1>7

\* The invariant holds at the start.
LEMMA TfInitInv ==
    ASSUME TfInit PROVE TfInv
<1>1. UlInit /\ DlInit /\ get_net = GET_COPIES /\ data_net = <<>> /\ ack_net = <<>>
      /\ losses = 0 /\ resent = {}
  BY DEF TfInit
<1>2. /\ ul = [ul_init EXCEPT !.window_size = 0, !.ss_threshold = 0]
      /\ is_uploading = FALSE
  BY <1>1 DEF UlInit
<1>3. ul.finished = FALSE /\ ul.last_pkt_acked = 0
  BY <1>2 DEF ul_init
<1>4. UpPart
  <2>1. UlInv
    BY <1>1, UlInitInv
  <2> QED
    BY <2>1, <1>3, UploadAssumption DEF UpPart
<1>5. dl = dl_init /\ is_downloading = TRUE
  BY <1>1 DEF DlInit
<1>6. DownPart
  <2>1. DlInv
    BY <1>5, DlInitSound, TimeoutAssumption DEF DlInv, dl_init
  <2> QED
    BY <2>1, <1>5, InitWhole, DlInitSound DEF DownPart
<1>7. ack_of(dl) = 0
  BY <1>5 DEF ack_of, dl_init
<1>8. InFlight
  BY <1>1, TransferAssumption DEF InFlight
<1>9. Agree
  BY <1>3, <1>7 DEF Agree
<1>10. get_net \in 0..GET_COPIES /\ losses \in 0..MAX_LOSS
  BY <1>1, TransferAssumption
<1> QED
  BY <1>4, <1>6, <1>8, <1>9, <1>10 DEF TfInv

-----------------------------------------------------------------------------
(***************************************************************************)
(* The steps of the uploading peer                                         *)
(***************************************************************************)
\* what a step of the uploading peer leaves to show
UpStep ==
    /\ UpPart'
    /\ data_net' \in Seq(Seqs) /\ Len(data_net') <= NET_CAP /\ resent' \subseteq Seqs
    /\ ul'.last_pkt_acked <= ack_of(dl)

\* The GET, the first or a repeated one: an upload begins that has nothing
\* acknowledged, whatever the one before had.
LEMMA GetStep ==
    ASSUME TfInv, StartUpload, Transmit(ul_init)
    PROVE  /\ UpStep /\ is_uploading' = TRUE
           /\ ul'.last_pkt_acked = 0 /\ ul'.finished = FALSE
<1>1. ul' = ul_send(ul_init) /\ is_uploading' = TRUE
  BY DEF StartUpload
<1>2. ul_init.finished = FALSE
  BY DEF ul_init
<1>3. UlInv'
  BY StartKeeps DEF TfInv, UpPart
<1>4. ul'.last_pkt_acked = 0 /\ ul'.finished = FALSE
  BY <1>1, <1>2, InitSound, SendSound
<1>5. UpPart'
  BY <1>3, <1>4, UploadAssumption DEF UpPart
<1>6. data_net \in Seq(Seqs) /\ Len(data_net) <= NET_CAP /\ resent \subseteq Seqs
  BY DEF TfInv, InFlight
<1>7. /\ data_net' \in Seq(Seqs) /\ Len(data_net') <= NET_CAP /\ resent' \subseteq Seqs
  BY <1>6, InitSound, TransmitKeeps
<1>8. ul'.last_pkt_acked <= ack_of(dl)
  <2>1. ack_of(dl) \in 0..NPKT
    BY AckRange DEF TfInv, DownPart, DlInv
  <2> QED
    BY <2>1, <1>4, UploadAssumption
<1> QED
  BY <1>1, <1>4, <1>5, <1>7, <1>8 DEF UpStep

\* An ACK that is in flight: the sender confirms what it says, or nothing.
LEMMA AckStep ==
    ASSUME TfInv, NEW ack \in 0..ack_of(dl), RecvAck(ack),
           Transmit(ul_handle_ack(ul, ack))
    PROVE  /\ UpStep /\ is_uploading' = ~ul'.finished
           /\ ul'.last_pkt_acked >= ul.last_pkt_acked
<1> DEFINE h == ul_handle_ack(ul, ack)
<1>1. ack_of(dl) \in 0..NPKT /\ NPKT \in Nat
  BY AckRange, UploadAssumption DEF TfInv, DownPart, DlInv
<1>2. ack \in Nat /\ ack <= NPKT /\ ack <= ack_of(dl) /\ ack \in AckNumbers
  BY <1>1 DEF AckNumbers
<1>3. /\ UlInv /\ Sound(ul) /\ Running(ul) /\ is_uploading
  BY DEF TfInv, UpPart, UlInv, RecvAck
<1>4. UlInv' /\ Grows(ul, ul')
  BY <1>2, <1>3, AckKeeps
<1>5. Sound(h) /\ InWindow(h)
  BY <1>2, <1>3, AckSound
<1>6. \/ h.last_pkt_acked = ul.last_pkt_acked /\ ~h.finished
      \/ /\ h.last_pkt_acked = ack /\ ack > ul.last_pkt_acked
         /\ h.finished <=> ack >= NPKT
  BY <1>2, <1>3, AckConfirms
<1>7. ul' = ul_send(h) /\ is_uploading' = ~ul'.finished
  BY DEF RecvAck, update_upload
<1>8. Transmit(h)
  OBVIOUS
<1> HIDE DEF h
<1>9. ul'.finished = h.finished /\ ul'.last_pkt_acked = h.last_pkt_acked
  BY <1>5, <1>7, SendSound
<1>10. /\ data_net' \in Seq(Seqs) /\ Len(data_net') <= NET_CAP /\ resent' \subseteq Seqs
  BY <1>5, <1>8, TransmitKeeps DEF TfInv, InFlight
<1>12. ul.last_pkt_acked <= ack_of(dl) /\ ul.last_pkt_acked \in 0..NPKT /\ ul.last_pkt_acked < NPKT
  <2>1. ul \in UploadRecords /\ ul.last_pkt_acked < ul.last_pkt_sent
    BY <1>3 DEF Sound, Running, Outstanding
  <2>2. ul.last_pkt_acked \in 0..NPKT /\ ul.last_pkt_sent \in 0..NPKT
    BY <2>1, WindowFields
  <2> QED
    BY <2>1, <2>2, <1>1 DEF TfInv, Agree
<1>13. ul'.finished <=> ul'.last_pkt_acked = NPKT
  <2>1. CASE h.last_pkt_acked = ul.last_pkt_acked /\ ~h.finished
    BY <2>1, <1>9, <1>12, <1>1
  <2>2. CASE h.last_pkt_acked = ack /\ (h.finished <=> ack >= NPKT)
    <3>1. ack >= NPKT <=> ack = NPKT
      BY <1>1, <1>2
    <3> QED
      BY <2>2, <3>1, <1>9
  <2> QED
    BY <2>1, <2>2, <1>6
<1>14. ul'.last_pkt_acked <= ack_of(dl)
  BY <1>2, <1>6, <1>9, <1>12
<1> QED
  BY <1>4, <1>7, <1>10, <1>13, <1>14 DEF UpStep, UpPart, Grows

\* check_all_timeout on the upload: it confirms nothing, and may give up.
LEMMA UploadTickStep ==
    ASSUME TfInv, NEW ca \in BOOLEAN, NEW rto \in BOOLEAN, UploadTick(ca, rto)
    PROVE  /\ UpStep /\ is_uploading /\ ul'.window_size > 0
           /\ ul'.last_pkt_acked = ul.last_pkt_acked
           /\ ul.finished = FALSE /\ ul'.finished = FALSE
<1> DEFINE v == ca_tick(ul, ca)
<1>1. UlInv /\ is_uploading /\ CheckUpload(ca, rto) /\ Sound(ul) /\ Running(ul)
  BY DEF TfInv, UpPart, UlInv, UploadTick, CheckUpload
<1>2. UlInv'
  BY <1>1, CheckKeeps
<1>3. ul \in UploadRecords /\ ul.finished = FALSE
  <2>1. ul \in UploadRecords /\ ~ul.finished
    BY <1>1 DEF Sound, Running, Outstanding
  <2>2. ul.finished \in BOOLEAN
    BY <2>1, WindowFields
  <2> QED
    BY <2>1, <2>2
<1>4. Sound(v) /\ Running(v)
  BY <1>1, TickSound
<1>5. v.last_pkt_acked = ul.last_pkt_acked /\ v.finished = FALSE
  BY <1>3, TickConfirms
<1>6. /\ ul' = IF rto /\ timer_armed(v) THEN ul_send(on_timeout(v)) ELSE v
      /\ IF rto /\ timer_armed(v) THEN Transmit(on_timeout(v)) ELSE UNCHANGED <<data_net, resent>>
  BY <1>1, <1>3 DEF CheckUpload, ul_check_timeout, UploadTick
<1> HIDE DEF v
<1>7. /\ data_net \in Seq(Seqs) /\ Len(data_net) <= NET_CAP /\ resent \subseteq Seqs
  BY DEF TfInv, InFlight
<1>8. /\ data_net' \in Seq(Seqs) /\ Len(data_net') <= NET_CAP /\ resent' \subseteq Seqs
      /\ InWindow(ul') /\ Sound(ul')
      /\ ul'.last_pkt_acked = ul.last_pkt_acked /\ ul'.finished = FALSE
  <2>1. CASE rto /\ timer_armed(v)
    <3> DEFINE t == on_timeout(v)
    <3>1. ul' = ul_send(t) /\ Transmit(t)
      BY <2>1, <1>6
    <3>2. /\ Sound(t) /\ InWindow(t) /\ t.last_pkt_acked = v.last_pkt_acked
          /\ t.finished = v.finished
      BY <1>4, TimeoutConfirms
    <3> HIDE DEF t
    <3>3. /\ data_net' \in Seq(Seqs) /\ Len(data_net') <= NET_CAP /\ resent' \subseteq Seqs
      BY <3>1, <3>2, <1>7, TransmitKeeps
    <3>4. /\ InWindow(ul') /\ Sound(ul') /\ ul'.last_pkt_acked = t.last_pkt_acked
          /\ ul'.finished = t.finished
      BY <3>1, <3>2, SendSound
    <3> QED
      BY <3>2, <3>3, <3>4, <1>5
  <2>2. CASE ~(rto /\ timer_armed(v))
    <3>1. ul' = v /\ data_net' = data_net /\ resent' = resent
      BY <2>2, <1>6
    <3> QED
      BY <3>1, <1>4, <1>5, <1>7 DEF Running
  <2> QED
    BY <2>1, <2>2
<1>9. ul'.window_size > 0
  <2>1. ul'.window_size \in Nat /\ ul'.window_size >= 1
    BY <1>8, WindowFields DEF Sound, InWindow
  <2> QED
    BY <2>1
<1>10. UpPart'
  BY <1>2, <1>3, <1>8 DEF TfInv, UpPart
<1>11. ul'.last_pkt_acked <= ack_of(dl)
  BY <1>8 DEF TfInv, Agree
<1> QED
  BY <1>1, <1>3, <1>8, <1>9, <1>10, <1>11 DEF UpStep

-----------------------------------------------------------------------------
(***************************************************************************)
(* The steps of the downloading peer                                       *)
(***************************************************************************)
\* what a step of the downloading peer leaves to show
DownStep ==
    /\ DownPart'
    /\ ack_of(dl) <= ack_of(dl')
    /\ ack_net' \in Seq(0..ack_of(dl')) /\ Len(ack_net') <= NET_CAP

\* ACKs of what the receiver has may always be added to those in flight.
LEMMA AcksKeep ==
    ASSUME NEW a \in Nat, NEW b \in Nat, a <= b, NEW net \in Seq(0..a),
           Len(net) <= NET_CAP, NEW msgs \in Seq(0..b)
    PROVE  /\ net \in Seq(0..b)
           /\ Send(net, msgs) \in Seq(0..b) /\ Len(Send(net, msgs)) <= NET_CAP
<1>1. 0..a \subseteq 0..b
  OBVIOUS
<1>2. net \in Seq(0..b)
  BY <1>1, SeqMonotonic
<1> QED
  BY <1>2, SendKeeps

\* A DATA packet that is in flight, of this upload or of one before: the ACK
\* it causes is of no shorter prefix than all before.
LEMMA DataStep ==
    ASSUME TfInv, NEW s \in Seqs, NEW net \in Seq(0..ack_of(dl)),
           Len(net) <= NET_CAP, RecvData(DataPacket(s)),
           ack_net' = IF takes(dl, DataPacket(s)) THEN Send(net, <<ack_of(dl')>>) ELSE net
    PROVE  DownStep /\ is_downloading' = ~dl'.finished /\ dl'.finished \in BOOLEAN
<1> DEFINE pkt == DataPacket(s)
<1>1. s \in 1..NPKT /\ NPKT \in Nat
  BY UploadAssumption DEF Seqs
<1>2. s \in 0..(TailSeq + 1)
  BY <1>1, SamePackets
<1>3. /\ DlInv /\ Settled(dl) /\ Whole(dl) /\ EvenPackets
      /\ IsPacket(pkt) /\ Carries(pkt, Offsets \cup {Junk})
  BY <1>2, SamePackets, PacketTypes DEF TfInv, DownPart, DlInv
<1>4. dl' = dl_recv(dl, pkt) /\ is_downloading' = ~dl'.finished
  BY DEF RecvData
<1>5. Whole(dl')
  BY <1>2, <1>3, <1>4, RecvWhole
<1>6. RecvData(pkt)
  OBVIOUS
<1> HIDE DEF pkt
<1>7. DlInv'
  BY <1>3, <1>6, RecvKeeps
<1>8. \/ dl'.rwin = dl.rwin
      \/ dl'.next_pkt_expected \in
            dl.next_pkt_expected..(dl.next_pkt_expected + RECV_WINDOW_SIZE)
  BY <1>3, <1>4, RecvSound
<1>9. Settled(dl') /\ dl'.finished \in BOOLEAN
  BY <1>7 DEF DlInv, Settled, Downloads
<1>10. /\ ack_of(dl) \in 0..NPKT /\ ack_of(dl') \in 0..NPKT
       /\ dl.next_pkt_expected = ack_of(dl) + 1 /\ dl'.next_pkt_expected = ack_of(dl') + 1
  BY <1>3, <1>5, <1>9, AckRange
<1>11. ack_of(dl) <= ack_of(dl')
  <2>1. CASE dl'.rwin = dl.rwin
    <3>1. dl'.next_pkt_expected = dl.next_pkt_expected
      BY <2>1, <1>3, <1>9 DEF Settled
    <3> QED
      BY <3>1, <1>1, <1>10
  <2>2. CASE dl'.next_pkt_expected \in
               dl.next_pkt_expected..(dl.next_pkt_expected + RECV_WINDOW_SIZE)
    BY <2>2, <1>1, <1>10, RecvWinAssumption
  <2> QED
    BY <2>1, <2>2, <1>8
<1>13. DownPart'
  BY <1>4, <1>5, <1>7, <1>9 DEF DownPart
<1>14. ack_net' \in Seq(0..ack_of(dl')) /\ Len(ack_net') <= NET_CAP
  <2>1. ack_of(dl) \in Nat /\ ack_of(dl') \in Nat
    BY <1>10, <1>1
  <2>2. ack_of(dl') \in 0..ack_of(dl')
    BY <2>1
  <2>3. <<ack_of(dl')>> \in Seq(0..ack_of(dl'))
    BY <2>2
  <2>4. /\ net \in Seq(0..ack_of(dl'))
        /\ Send(net, <<ack_of(dl')>>) \in Seq(0..ack_of(dl'))
        /\ Len(Send(net, <<ack_of(dl')>>)) <= NET_CAP
    BY <2>1, <2>3, <1>11, AcksKeep
  <2> QED
    BY <2>4
<1> QED
  BY <1>4, <1>9, <1>11, <1>13, <1>14 DEF DownStep

\* A receiver's timeout repeats its ACK, or ends the download.
LEMMA DownloadTickStep ==
    ASSUME TfInv, DownloadTick
    PROVE  /\ DownStep /\ ack_of(dl') = ack_of(dl) /\ is_downloading
           /\ dl.finished = FALSE /\ dl'.finished = FALSE /\ is_downloading' \in BOOLEAN
<1>1. DlInv /\ Whole(dl) /\ Settled(dl) /\ is_downloading /\ CheckDownload(TRUE) /\ ~dl.finished
  BY DEF TfInv, DownPart, DlInv, DownloadTick, CheckDownload
<1>2. dl.finished = FALSE
  BY <1>1 DEF Settled, Downloads
<1>3. dl.timeout_cnt <= MAX_TIMEOUT_CNT /\ dl' = dl_check_timeout(dl, TRUE)
  BY <1>1 DEF DlInv, CheckDownload
<1>4. DlInv'
  BY <1>1, CheckDlKeeps
<1>5. /\ dl'.rwin = dl.rwin /\ dl'.next_pkt_expected = dl.next_pkt_expected
      /\ dl'.buffer = dl.buffer /\ dl'.finished = dl.finished
      /\ dl'.started = dl.started /\ dl'.data_length = dl.data_length
  BY <1>1, <1>3, CheckSound
<1>6. Whole(dl')
  BY <1>1, <1>5 DEF Whole, Matches
<1>7. ack_of(dl') = ack_of(dl) /\ ack_of(dl) \in 0..NPKT
  BY <1>1, <1>5, AckRange DEF ack_of
<1>8. DownPart'
  BY <1>2, <1>4, <1>5, <1>6 DEF DownPart
<1>10. ack_net' \in Seq(0..ack_of(dl')) /\ Len(ack_net') <= NET_CAP
  <2> DEFINE a == ack_of(dl)
             msgs == [n \in 1..LOSS_ACK_NUM |-> a]
  <2>1. a \in Nat /\ LOSS_ACK_NUM \in Nat
    BY <1>7, UploadAssumption, TransferAssumption
  <2>2. ack_net' = Send(ack_net, msgs)
    BY <1>7 DEF DownloadTick
  <2>3. ack_net \in Seq(0..a) /\ Len(ack_net) <= NET_CAP
    BY DEF TfInv, InFlight
  <2> HIDE DEF a
  <2>4. a \in 0..a /\ a <= a
    BY <2>1
  <2>5. msgs \in Seq(0..a)
    BY <2>1, <2>4
  <2>6. ack_net' \in Seq(0..a) /\ Len(ack_net') <= NET_CAP
    BY <2>1, <2>2, <2>3, <2>4, <2>5, SendKeeps
  <2> QED
    BY <2>6, <1>7 DEF a
<1>11. ack_of(dl) <= ack_of(dl')
  BY <1>7, UploadAssumption
<1>12. is_downloading' \in BOOLEAN
  BY <1>4 DEF DlInv
<1> QED
  BY <1>1, <1>2, <1>5, <1>7, <1>8, <1>10, <1>11, <1>12 DEF DownStep

-----------------------------------------------------------------------------
(***************************************************************************)
(* Every step keeps the invariant, and is a step of ChunkCopy.             *)
(***************************************************************************)
\* the two ends as ChunkCopy sees them
SenderPhase == phase(ul.window_size > 0, is_uploading, ul.finished)
ReceiverPhase == phase(TRUE, is_downloading, dl.finished)

CopyStep ==
    \/ Copy!CCNext
    \/ UNCHANGED <<get_net, ack_of(dl), ul.last_pkt_acked, SenderPhase, ReceiverPhase>>

\* A GET that arrives or is lost: the sender starts over, or stays.
LEMMA GetCopies ==
    ASSUME TfInv, UNCHANGED <<dl, is_downloading>>,
           get_net > 0, get_net' = get_net - 1,
           \/ SenderPhase' = "active" /\ ul'.last_pkt_acked = 0
           \/ UNCHANGED <<ul.last_pkt_acked, SenderPhase>>
    PROVE  CopyStep
<1>1. UNCHANGED <<ack_of(dl), ReceiverPhase>>
  BY DEF ack_of, ReceiverPhase, phase
<1>2. Copy!Request
  BY <1>1 DEF Copy!Request, SenderPhase, ReceiverPhase
<1> QED
  BY <1>2 DEF CopyStep, Copy!CCNext

\* A step of the sending end: the sender confirms, gives up, or stays.
LEMMA UpCopies ==
    ASSUME TfInv, UNCHANGED <<dl, is_downloading, get_net>>,
           \/ UNCHANGED <<ul.last_pkt_acked, SenderPhase>>
           \/ /\ SenderPhase = "active"
              /\ ul'.last_pkt_acked \in (ul.last_pkt_acked + 1)..ack_of(dl)
              /\ SenderPhase' = IF ul'.last_pkt_acked = NPKT THEN "done" ELSE "active"
           \/ /\ SenderPhase = "active" /\ SenderPhase' = "dead"
              /\ ul'.last_pkt_acked = ul.last_pkt_acked
    PROVE  CopyStep
<1>1. UNCHANGED <<ack_of(dl), ReceiverPhase>>
  BY DEF ack_of, ReceiverPhase, phase
<1>2. CASE UNCHANGED <<ul.last_pkt_acked, SenderPhase>>
  BY <1>1, <1>2 DEF CopyStep
<1>3. CASE /\ SenderPhase = "active"
           /\ ul'.last_pkt_acked \in (ul.last_pkt_acked + 1)..ack_of(dl)
           /\ SenderPhase' = IF ul'.last_pkt_acked = NPKT THEN "done" ELSE "active"
  <2>1. Copy!Confirm
    BY <1>1, <1>3 DEF Copy!Confirm, SenderPhase, ReceiverPhase
  <2> QED
    BY <2>1 DEF CopyStep, Copy!CCNext
<1>4. CASE /\ SenderPhase = "active" /\ SenderPhase' = "dead"
           /\ ul'.last_pkt_acked = ul.last_pkt_acked
  <2>1. Copy!SenderGivesUp
    BY <1>1, <1>4 DEF Copy!SenderGivesUp, SenderPhase, ReceiverPhase
  <2> QED
    BY <2>1 DEF CopyStep, Copy!CCNext
<1> QED
  BY <1>2, <1>3, <1>4

\* A step of the receiving end: more is delivered, it gives up, or stays.
LEMMA DownCopies ==
    ASSUME TfInv, UNCHANGED <<ul, is_uploading, get_net>>,
           \/ UNCHANGED <<ack_of(dl), ReceiverPhase>>
           \/ /\ ReceiverPhase = "active"
              /\ ack_of(dl') \in (ack_of(dl) + 1)..NPKT
              /\ ReceiverPhase' = IF ack_of(dl') = NPKT THEN "done" ELSE "active"
           \/ /\ ReceiverPhase = "active" /\ ReceiverPhase' = "dead"
              /\ ack_of(dl') = ack_of(dl)
    PROVE  CopyStep
<1>1. UNCHANGED <<ul.last_pkt_acked, SenderPhase>>
  BY DEF SenderPhase, phase
<1>2. CASE UNCHANGED <<ack_of(dl), ReceiverPhase>>
  BY <1>1, <1>2 DEF CopyStep
<1>3. CASE /\ ReceiverPhase = "active"
           /\ ack_of(dl') \in (ack_of(dl) + 1)..NPKT
           /\ ReceiverPhase' = IF ack_of(dl') = NPKT THEN "done" ELSE "active"
  <2>1. Copy!Deliver
    BY <1>1, <1>3 DEF Copy!Deliver, SenderPhase, ReceiverPhase
  <2> QED
    BY <2>1 DEF CopyStep, Copy!CCNext
<1>4. CASE /\ ReceiverPhase = "active" /\ ReceiverPhase' = "dead"
           /\ ack_of(dl') = ack_of(dl)
  <2>1. Copy!ReceiverGivesUp
    BY <1>1, <1>4 DEF Copy!ReceiverGivesUp, SenderPhase, ReceiverPhase
  <2> QED
    BY <2>1 DEF CopyStep, Copy!CCNext
<1> QED
  BY <1>2, <1>3, <1>4

\* a step of the uploading peer that leaves packets in the network
LEMMA UpKeeps ==
    ASSUME TfInv, UpStep, UNCHANGED <<dl, is_downloading, losses>>,
           ack_net' \in Seq(0..ack_of(dl)), Len(ack_net') <= NET_CAP,
           get_net' \in 0..GET_COPIES
    PROVE  TfInv'
<1>1. DownPart'
  BY DEF TfInv, DownPart, DlInv, Settled, Whole, Matches
<1>2. ack_of(dl)' = ack_of(dl)
  BY DEF ack_of
<1>3. InFlight'
  BY <1>2 DEF UpStep, InFlight
<1>4. Agree'
  BY <1>2 DEF TfInv, UpStep, Agree
<1> QED
  BY <1>1, <1>3, <1>4 DEF TfInv, UpStep

\* a step of the downloading peer
LEMMA DownKeeps ==
    ASSUME TfInv, DownStep, UNCHANGED <<ul, is_uploading, get_net, losses, resent>>,
           data_net' \in Seq(Seqs), Len(data_net') <= NET_CAP
    PROVE  TfInv'
<1>1. UpPart'
  BY DEF TfInv, UpPart, UlInv, Sound, Running, Ordered, Recovered, InWindow, Outstanding
<1>2. InFlight'
  BY DEF TfInv, DownStep, InFlight
<1>3. Agree'
  <2>1. /\ ack_of(dl) \in 0..NPKT /\ ack_of(dl') \in 0..NPKT /\ NPKT \in Nat
    BY AckRange, UploadAssumption DEF TfInv, DownPart, DlInv, DownStep
  <2>2. ul.last_pkt_acked \in 0..NPKT
    BY WindowFields DEF TfInv, UpPart, UlInv, Sound
  <2> QED
    BY <2>1, <2>2 DEF TfInv, DownStep, Agree
<1> QED
  BY <1>1, <1>2, <1>3 DEF TfInv, DownStep

\* A step that leaves both ends alone and takes packets from the network.
LEMMA NetKeeps ==
    ASSUME TfInv, UNCHANGED <<ul, is_uploading, dl, is_downloading, resent>>,
           data_net' \in Seq(Seqs), Len(data_net') <= NET_CAP,
           ack_net' \in Seq(0..ack_of(dl)), Len(ack_net') <= NET_CAP,
           get_net' \in 0..GET_COPIES, losses' \in 0..MAX_LOSS
    PROVE  /\ TfInv'
           /\ UNCHANGED <<ack_of(dl), ul.last_pkt_acked, SenderPhase, ReceiverPhase>>
<1>1. UpPart'
  BY DEF TfInv, UpPart, UlInv, Sound, Running, Ordered, Recovered, InWindow, Outstanding
<1>2. DownPart'
  BY DEF TfInv, DownPart, DlInv, Settled, Whole, Matches
<1>3. ack_of(dl)' = ack_of(dl)
  BY DEF ack_of
<1>4. InFlight' /\ Agree'
  BY <1>3 DEF TfInv, InFlight, Agree
<1>5. UNCHANGED <<ul.last_pkt_acked, SenderPhase, ReceiverPhase>>
  BY DEF SenderPhase, ReceiverPhase, phase
<1> QED
  BY <1>1, <1>2, <1>3, <1>4, <1>5 DEF TfInv

\* The GET: the upload starts, or starts over; or the GET is ignored.
LEMMA GetKeeps ==
    ASSUME TfInv, RecvGet
    PROVE  TfInv' /\ CopyStep
<1>1. /\ get_net > 0 /\ get_net' = get_net - 1
      /\ UNCHANGED <<dl, is_downloading, ack_net, losses>>
  BY DEF RecvGet
<1>2. get_net' \in 0..GET_COPIES
  BY <1>1, TransferAssumption DEF TfInv
<1>3. CASE StartUpload /\ Transmit(ul_init)
  <2>1. /\ UpStep /\ is_uploading' = TRUE
        /\ ul'.last_pkt_acked = 0 /\ ul'.finished = FALSE
    BY <1>3, GetStep
  <2>2. TfInv'
    BY <2>1, <1>1, <1>2, UpKeeps DEF TfInv, InFlight
  <2>3. SenderPhase' = "active"
    BY <2>1 DEF SenderPhase, phase
  <2> QED
    BY <2>1, <2>2, <2>3, <1>1, GetCopies
<1>4. CASE UNCHANGED <<ul, is_uploading, data_net, resent>>
  <2>1. TfInv' /\ UNCHANGED <<ul.last_pkt_acked, SenderPhase>>
    BY <1>1, <1>2, <1>4, NetKeeps DEF TfInv, InFlight
  <2> QED
    BY <2>1, <1>1, GetCopies
<1> QED
  BY <1>3, <1>4 DEF RecvGet

\* An ACK that reaches the sender (update_upload, from parse_ack) keeps the
\* invariant, and confirms at most what the receiver has.
LEMMA DeliverAckKeeps ==
    ASSUME TfInv, NEW i \in Deliverable(ack_net), DeliverAck(i)
    PROVE  TfInv' /\ CopyStep
<1>1. i \in DOMAIN ack_net
  BY DEF Deliverable
<1>2. /\ ack_net' \in Delivered(ack_net, i)
      /\ UNCHANGED <<dl, is_downloading, get_net, losses>>
  BY DEF DeliverAck
<1>3. ack_net \in Seq(0..ack_of(dl)) /\ Len(ack_net) <= NET_CAP /\ NET_CAP \in Nat
  BY TransferAssumption DEF TfInv, InFlight
<1>4. ack_net' \in Seq(0..ack_of(dl)) /\ Len(ack_net') <= NET_CAP
  <2>1. ack_net' \in Seq(0..ack_of(dl)) /\ Len(ack_net') <= Len(ack_net)
    BY <1>1, <1>2, <1>3, DeliveryKeeps
  <2>2. Len(ack_net) \in Nat /\ Len(ack_net') \in Nat
    BY <2>1, <1>3, LenProperties
  <2> QED
    BY <2>1, <2>2, <1>3
<1>5. ack_net[i] \in 0..ack_of(dl)
  BY <1>1, <1>3, ElementOfSeq, LenProperties
<1>6. CASE RecvAck(ack_net[i]) /\ Transmit(ul_handle_ack(ul, ack_net[i]))
  <2>1. /\ UpStep /\ is_uploading' = ~ul'.finished
        /\ ul'.last_pkt_acked >= ul.last_pkt_acked
    BY <1>5, <1>6, AckStep
  <2>2. is_uploading
    BY <1>6 DEF RecvAck
  <2>4. TfInv'
    BY <2>1, <1>2, <1>4, UpKeeps DEF TfInv
  <2>5. /\ ul.last_pkt_acked \in 0..NPKT /\ ul'.last_pkt_acked \in 0..NPKT
        /\ ul \in UploadRecords /\ ul' \in UploadRecords
    BY <2>4, WindowFields DEF TfInv, UpPart, UlInv, Sound
  <2>6. ~ul.finished
    BY <2>2 DEF TfInv, UpPart, UlInv, Running, Outstanding
  <2>7. SenderPhase = "active"
    BY <2>2, <2>6 DEF SenderPhase, phase
  <2>8. ul'.finished <=> ul'.last_pkt_acked = NPKT
    BY <2>1 DEF UpStep, UpPart
  <2>9. SenderPhase' = IF ul'.last_pkt_acked = NPKT THEN "done" ELSE "active"
    <3>1. CASE ul'.finished
      BY <3>1, <2>8 DEF SenderPhase, phase
    <3>2. CASE ~ul'.finished
      BY <3>2, <2>1, <2>8 DEF SenderPhase, phase
    <3> QED
      BY <3>1, <3>2
  <2>10. CASE ul'.last_pkt_acked = ul.last_pkt_acked
    <3>1. ul'.last_pkt_acked # NPKT
      BY <2>10, <2>6 DEF TfInv, UpPart
    <3> QED
      BY <3>1, <2>4, <2>7, <2>9, <2>10, <1>2, UpCopies
  <2>11. CASE ul'.last_pkt_acked # ul.last_pkt_acked
    <3>1. ul'.last_pkt_acked <= ack_of(dl) /\ ack_of(dl) \in 0..NPKT /\ NPKT \in Nat
      BY <2>1, AckRange, UploadAssumption DEF UpStep, TfInv, DownPart, DlInv
    <3>2. ul'.last_pkt_acked \in (ul.last_pkt_acked + 1)..ack_of(dl)
      BY <3>1, <2>1, <2>5, <2>11
    <3> QED
      BY <3>2, <2>4, <2>7, <2>9, <1>2, UpCopies
  <2> QED
    BY <2>10, <2>11
<1>7. CASE UNCHANGED <<ul, is_uploading, data_net, resent>>
  <2>1. TfInv' /\ UNCHANGED <<ul.last_pkt_acked, SenderPhase>>
    BY <1>2, <1>4, <1>7, NetKeeps DEF TfInv, InFlight
  <2> QED
    BY <2>1, <1>2, UpCopies
<1> QED
  BY <1>6, <1>7 DEF DeliverAck

\* The sender's turn in check_all_timeout, with or without a timeout, keeps the
\* invariant; what it sends again it has sent before or may send now.
LEMMA UploadTickKeeps ==
    ASSUME TfInv, NEW ca \in BOOLEAN, NEW rto \in BOOLEAN, UploadTick(ca, rto)
    PROVE  TfInv' /\ CopyStep
<1>1. /\ UpStep /\ is_uploading /\ ul'.window_size > 0
      /\ ul'.last_pkt_acked = ul.last_pkt_acked
      /\ ul.finished = FALSE /\ ul'.finished = FALSE
  BY UploadTickStep
<1>2. UNCHANGED <<dl, is_downloading, get_net, ack_net, losses>>
  BY DEF UploadTick
<1>4. TfInv'
  BY <1>1, <1>2, UpKeeps DEF TfInv, InFlight
<1>5. SenderPhase = "active"
  BY <1>1 DEF SenderPhase, phase
<1>6. SenderPhase' = "active" \/ SenderPhase' = "dead"
  <2>1. CASE is_uploading'
    BY <1>1, <2>1 DEF SenderPhase, phase
  <2>2. CASE ~is_uploading'
    BY <1>1, <2>2 DEF SenderPhase, phase
  <2> QED
    BY <2>1, <2>2
<1> QED
  BY <1>1, <1>2, <1>4, <1>5, <1>6, UpCopies

\* The downloading peer.
LEMMA DeliverDataKeeps ==
    ASSUME TfInv, NEW i \in Deliverable(data_net), DeliverData(i)
    PROVE  TfInv' /\ CopyStep
<1> DEFINE s == data_net[i]
<1>1. i \in DOMAIN data_net
  BY DEF Deliverable
<1>2. /\ data_net' \in Delivered(data_net, i)
      /\ UNCHANGED <<ul, is_uploading, get_net, losses, resent>>
  BY DEF DeliverData
<1>3. data_net \in Seq(Seqs) /\ Len(data_net) <= NET_CAP /\ NET_CAP \in Nat
      /\ ack_net \in Seq(0..ack_of(dl)) /\ Len(ack_net) <= NET_CAP
  BY TransferAssumption DEF TfInv, InFlight
<1>4. data_net' \in Seq(Seqs) /\ Len(data_net') <= NET_CAP
  <2>1. data_net' \in Seq(Seqs) /\ Len(data_net') <= Len(data_net)
    BY <1>1, <1>2, <1>3, DeliveryKeeps
  <2>2. Len(data_net) \in Nat /\ Len(data_net') \in Nat
    BY <2>1, <1>3, LenProperties
  <2> QED
    BY <2>1, <2>2, <1>3
<1>5. s \in Seqs
  BY <1>1, <1>3, ElementOfSeq, LenProperties
<1>6. /\ Settled(dl) /\ Whole(dl)
  BY DEF TfInv, DownPart, DlInv
<1>7. /\ ack_of(dl) \in 0..NPKT /\ NPKT \in Nat /\ (dl.finished <=> ack_of(dl) = NPKT)
  BY <1>6, AckRange, UploadAssumption
<1>8. CASE /\ RecvData(DataPacket(s))
           /\ ack_net' = IF takes(dl, DataPacket(s)) THEN Send(ack_net, <<ack_of(dl')>>) ELSE ack_net
  <2>1. DownStep /\ is_downloading' = ~dl'.finished /\ dl'.finished \in BOOLEAN
    <3> HIDE DEF s
    <3> QED
      BY <1>3, <1>5, <1>8, DataStep
  <2>2. TfInv'
    BY <2>1, <1>2, <1>4, DownKeeps
  <2>3. is_downloading /\ ~dl.finished
    BY <1>8 DEF RecvData, TfInv, DownPart
  <2>4. ReceiverPhase = "active"
    BY <2>3 DEF ReceiverPhase, phase
  <2>5. Settled(dl') /\ Whole(dl')
    BY <2>1 DEF DownStep, DownPart, DlInv
  <2>6. ack_of(dl') \in 0..NPKT /\ (dl'.finished <=> ack_of(dl') = NPKT)
    BY <2>5, AckRange
  <2>7. ReceiverPhase' = IF ack_of(dl') = NPKT THEN "done" ELSE "active"
    <3>1. CASE dl'.finished
      BY <3>1, <2>6 DEF ReceiverPhase, phase
    <3>2. CASE ~dl'.finished
      BY <3>2, <2>1, <2>6 DEF ReceiverPhase, phase
    <3> QED
      BY <3>1, <3>2
  <2>8. CASE ack_of(dl') = ack_of(dl)
    <3>1. ack_of(dl') # NPKT
      BY <2>8, <2>3, <1>7
    <3>2. UNCHANGED <<ack_of(dl), ReceiverPhase>>
      BY <3>1, <2>4, <2>7, <2>8 DEF ack_of
    <3> QED
      BY <3>2, <2>2, <1>2, DownCopies
  <2>9. CASE ack_of(dl') # ack_of(dl)
    <3>1. ack_of(dl') \in (ack_of(dl) + 1)..NPKT
      BY <2>1, <2>6, <2>9, <1>7 DEF DownStep
    <3> QED
      BY <3>1, <2>2, <2>4, <2>7, <1>2, DownCopies
  <2> QED
    BY <2>8, <2>9
<1>9. CASE UNCHANGED <<dl, is_downloading, ack_net>>
  <2>1. DownPart'
    BY <1>9 DEF TfInv, DownPart, DlInv, Settled, Whole, Matches
  <2>2. ack_of(dl') = ack_of(dl)
    BY <1>9
  <2>3. ack_of(dl) <= ack_of(dl')
    BY <2>2, <1>7
  <2>4. DownStep
    BY <2>1, <2>2, <2>3, <1>3, <1>9 DEF DownStep
  <2>5. UNCHANGED <<ack_of(dl), ReceiverPhase>>
    BY <1>9 DEF ack_of, ReceiverPhase, phase
  <2> QED
    BY <2>4, <2>5, <1>2, <1>4, DownKeeps, DownCopies
<1> QED
  BY <1>8, <1>9 DEF DeliverData

\* The receiver's turn in check_all_timeout repeats the ACK of what it has.
LEMMA DownloadTickKeeps ==
    ASSUME TfInv, DownloadTick
    PROVE  TfInv' /\ CopyStep
<1>1. /\ DownStep /\ ack_of(dl') = ack_of(dl) /\ is_downloading
      /\ dl.finished = FALSE /\ dl'.finished = FALSE /\ is_downloading' \in BOOLEAN
  BY DownloadTickStep
<1>2. UNCHANGED <<ul, is_uploading, get_net, data_net, losses, resent>>
  BY DEF DownloadTick
<1>3. TfInv'
  BY <1>1, <1>2, DownKeeps DEF TfInv, InFlight
<1>4. ReceiverPhase = "active"
  BY <1>1 DEF ReceiverPhase, phase
<1>5. ReceiverPhase' = "active" \/ ReceiverPhase' = "dead"
  <2>1. CASE is_downloading'
    BY <1>1, <2>1 DEF ReceiverPhase, phase
  <2>2. CASE ~is_downloading'
    BY <1>1, <2>2 DEF ReceiverPhase, phase
  <2> QED
    BY <2>1, <2>2
<1>6. ack_of(dl)' = ack_of(dl)
  BY <1>1 DEF ack_of
<1> QED
  BY <1>1, <1>2, <1>3, <1>4, <1>5, <1>6, DownCopies

\* A lost packet is no step of either end.
LEMMA LoseKeeps ==
    ASSUME TfInv, Lose
    PROVE  TfInv' /\ CopyStep
<1>1. UNCHANGED <<ul, is_uploading, dl, is_downloading, resent>>
  BY DEF Lose
<1>2. losses' \in 0..MAX_LOSS
  BY TransferAssumption DEF Lose, TfInv
<1>3. data_net \in Seq(Seqs) /\ ack_net \in Seq(0..ack_of(dl))
      /\ Len(data_net) <= NET_CAP /\ Len(ack_net) <= NET_CAP /\ NET_CAP \in Nat
  BY TransferAssumption DEF TfInv, InFlight
<1>4. ASSUME NEW S, NEW net \in Seq(S), Len(net) <= NET_CAP, NEW i \in DOMAIN net
      PROVE  RemoveAt(net, i) \in Seq(S) /\ Len(RemoveAt(net, i)) <= NET_CAP
  <2>1. RemoveAt(net, i) \in Seq(S) /\ Len(RemoveAt(net, i)) <= Len(net)
    BY <1>4, RemoveKeeps
  <2>2. Len(net) \in Nat /\ Len(RemoveAt(net, i)) \in Nat
    BY <2>1, <1>4, LenProperties
  <2> QED
    BY <2>1, <2>2, <1>3, <1>4
<1>5. data_net' \in Seq(Seqs) /\ Len(data_net') <= NET_CAP
  BY <1>3, <1>4 DEF Lose
<1>6. ack_net' \in Seq(0..ack_of(dl)) /\ Len(ack_net') <= NET_CAP
  BY <1>3, <1>4 DEF Lose
<1>7. \/ get_net > 0 /\ get_net' = get_net - 1
      \/ UNCHANGED get_net
  BY Zenon DEF Lose
<1>8. get_net' \in 0..GET_COPIES
  BY <1>7, TransferAssumption DEF TfInv
<1>9. /\ TfInv'
      /\ UNCHANGED <<ack_of(dl), ul.last_pkt_acked, SenderPhase, ReceiverPhase>>
  BY <1>1, <1>2, <1>5, <1>6, <1>8, NetKeeps
<1>10. CASE get_net > 0 /\ get_net' = get_net - 1
  BY <1>1, <1>9, <1>10, GetCopies
<1>11. CASE UNCHANGED get_net
  BY <1>9, <1>11 DEF CopyStep
<1> QED
  BY <1>7, <1>9, <1>10, <1>11

\* Every step.
LEMMA TfStep ==
    ASSUME TfInv, [TfNext]_tfvars
    PROVE  TfInv' /\ CopyStep
<1>1. CASE RecvGet
  BY <1>1, GetKeeps
<1>2. CASE \E i \in Deliverable(ack_net) : DeliverAck(i)
  BY <1>2, DeliverAckKeeps
<1>3. CASE \E i \in Deliverable(data_net) : DeliverData(i)
  BY <1>3, DeliverDataKeeps
<1>4. CASE \E ca_passed, rto_passed \in BOOLEAN : UploadTick(ca_passed, rto_passed)
  BY <1>4, UploadTickKeeps
<1>5. CASE DownloadTick
  BY <1>5, DownloadTickKeeps
<1>6. CASE Lose
  BY <1>6, LoseKeeps
<1>7. CASE UNCHANGED tfvars
  <2>1. UNCHANGED <<ul, is_uploading, dl, is_downloading, get_net, data_net, ack_net, losses, resent>>
    BY <1>7 DEF tfvars, netvars
  <2>2. /\ TfInv'
        /\ UNCHANGED <<ack_of(dl), ul.last_pkt_acked, SenderPhase, ReceiverPhase>>
    BY <2>1, NetKeeps DEF TfInv, InFlight
  <2> QED
    BY <2>1, <2>2 DEF CopyStep
<1> QED
  BY <1>1, <1>2, <1>3, <1>4, <1>5, <1>6, <1>7 DEF TfNext

-----------------------------------------------------------------------------
(***************************************************************************)
(* The theorems                                                            *)
(***************************************************************************)
\* TfInv is inductive, in either kind of network, for every queue length,
\* number of losses, of repeated ACKs and of times the GET arrives.
THEOREM TransferInvariant == TfSpec => []TfInv
<1>1. TfInit => TfInv
  BY TfInitInv
<1>2. TfInv /\ [TfNext]_tfvars => TfInv'
  BY TfStep
<1> QED
  BY <1>1, <1>2, PTL DEF TfSpec

\* Types of both ends and of the network: no ACK on its way has a number
\* outside ack_cnt[] and seq_ts[], no DATA packet one outside the chunk.
THEOREM TransferTypes == TfSpec => []TfTypeOK
<1>1. TfInv => TfTypeOK
  <2> SUFFICES ASSUME TfInv PROVE TfTypeOK
    OBVIOUS
  <2>1. UlTypeOK
    BY DEF TfInv, UpPart, UlInv, Sound, UlTypeOK
  <2>2. DlTypeOK
    BY DEF TfInv, DownPart, DlInv, Settled, Downloads, DlTypeOK
  <2>4. data_net \in Seq(Seqs)
    BY DEF TfInv, InFlight
  <2>5. 0..ack_of(dl) \subseteq 0..NPKT
    <3>1. ack_of(dl) \in 0..NPKT /\ NPKT \in Nat
      BY AckRange, UploadAssumption DEF TfInv, DownPart, DlInv
    <3> QED
      BY <3>1
  <2>6. ack_net \in Seq(0..NPKT)
    BY <2>5, SeqMonotonic DEF TfInv, InFlight
  <2> QED
    BY <2>1, <2>2, <2>4, <2>6 DEF TfTypeOK, TfInv, InFlight
<1> QED
  BY <1>1, TransferInvariant, PTL

\* The sender never believes more than the receiver has, whatever is lost,
\* repeated or reordered, the GET included: ACKs of ack_of(dl) only ever
\* become older.
THEOREM TransferAcked == TfSpec => []AckedWasReceived
<1>1. TfInv => AckedWasReceived
  <2> SUFFICES ASSUME TfInv PROVE AckedWasReceived
    OBVIOUS
  <2>1. /\ ack_of(dl) \in 0..NPKT /\ NPKT \in Nat /\ 1..ack_of(dl) \subseteq received(dl.rwin)
    BY AckRange, UploadAssumption DEF TfInv, DownPart, DlInv
  <2>2. ul.last_pkt_acked \in 0..NPKT /\ ul.last_pkt_acked <= ack_of(dl)
    BY WindowFields DEF TfInv, UpPart, UlInv, Sound, Agree
  <2>3. 1..ul.last_pkt_acked \subseteq received(dl.rwin)
    BY <2>1, <2>2
  <2>4. ASSUME NEW i \in DOMAIN ack_net PROVE 1..ack_net[i] \subseteq received(dl.rwin)
    <3>1. ack_net \in Seq(0..ack_of(dl))
      BY DEF TfInv, InFlight
    <3>2. ack_net[i] \in 0..ack_of(dl)
      BY <3>1, ElementOfSeq, LenProperties
    <3> QED
      BY <3>2, <2>1
  <2> QED
    BY <2>3, <2>4 DEF AckedWasReceived
<1> QED
  BY <1>1, TransferInvariant, PTL

\* An upload that ends by its last ACK leaves the whole chunk, every byte in
\* its place, at the receiver.
THEOREM TransferDelivered == TfSpec => []FinishedUploadDelivered
<1>1. TfInv => FinishedUploadDelivered
  <2> SUFFICES ASSUME TfInv, ul.finished PROVE dl.finished /\ dl.buffer = Chunk
    BY DEF FinishedUploadDelivered
  <2>1. Settled(dl) /\ Whole(dl)
    BY DEF TfInv, DownPart, DlInv
  <2>2. /\ ack_of(dl) \in 0..NPKT /\ NPKT \in Nat /\ (dl.finished <=> ack_of(dl) = NPKT)
    BY <2>1, AckRange, UploadAssumption
  <2>3. NPKT <= ack_of(dl)
    BY DEF TfInv, UpPart, Agree
  <2>4. dl.finished
    BY <2>2, <2>3
  <2> QED
    BY <2>1, <2>4, SamePackets, WholeIsChunk
<1> QED
  BY <1>1, TransferInvariant, PTL

\* Refinement: upload_t, download_t and the network between them do what
\* ChunkCopy says of a chunk, two ends that may give up and a sender that
\* starts over when the GET comes again.
THEOREM TransferCopies == TfSpec => ImplementsChunkCopy
<1>1. TfInit => Copy!CCInit
  <2> SUFFICES ASSUME TfInit PROVE Copy!CCInit
    OBVIOUS
  <2>1. /\ ul.last_pkt_acked = 0 /\ ul.finished = FALSE /\ ~(ul.window_size > 0)
        /\ is_uploading = FALSE /\ get_net = GET_COPIES
    BY DEF TfInit, UlInit, ul_init
  <2>2. /\ ack_of(dl) = 0 /\ dl.finished = FALSE /\ is_downloading = TRUE
    BY DEF TfInit, DlInit, dl_init, ack_of
  <2>3. SenderPhase = "idle"
    BY <2>1 DEF SenderPhase, phase
  <2>4. ReceiverPhase = "active"
    BY <2>2 DEF ReceiverPhase, phase
  <2> QED
    BY <2>1, <2>2, <2>3, <2>4 DEF Copy!CCInit, SenderPhase, ReceiverPhase
<1>2. TfInv /\ [TfNext]_tfvars => [Copy!CCNext]_(Copy!ccvars)
  <2> SUFFICES ASSUME TfInv, [TfNext]_tfvars
               PROVE  Copy!CCNext \/ UNCHANGED Copy!ccvars
    OBVIOUS
  <2>1. CopyStep
    BY TfStep
  <2> QED
    BY <2>1 DEF CopyStep, Copy!ccvars, SenderPhase, ReceiverPhase
<1> QED
  BY <1>1, <1>2, TransferInvariant, PTL DEF TfSpec, ImplementsChunkCopy, Copy!CCSpec
=============================================================================
