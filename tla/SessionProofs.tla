---------------------------- MODULE SessionProofs ----------------------------
(***************************************************************************)
(* Proofs about Session, for every number of chunks, packets of a chunk,   *)
(* connections, losses and restarts.                                       *)
(*                                                                         *)
(* UP and DP are the proofs about the two halves of the transport, of the  *)
(* upload_t and download_t of the two peers: their lemmas are about any    *)
(* record, so they say here what a handler does to the record of a peer.   *)
(* SsInv puts the two halves together with the packets under way.  Its     *)
(* heart is Own: queues keep the order of packets, so every ACK that was   *)
(* sent for something else has the GET of the present chunk behind it.     *)
(***************************************************************************)
EXTENDS Session, NatFacts, SequenceTheorems

UP == INSTANCE UploadProofs WITH ul <- up.ul, is_uploading <- up.is_uploading
DP == INSTANCE DownloadProofs WITH BT_CHUNK_SIZE <- NPKT, PAYLOAD <- 1,
                                   dl <- down.dl, is_downloading <- down.is_downloading

\* What the two halves of the transport assume of their parameters.
LEMMA Transport ==
    /\ MAX_TIMEOUT_CNT \in Nat
    /\ NPKT \in Nat \ {0} /\ SS_THRESH \in Nat /\ MAX_DUP_ACK \in Nat \ {0}
    /\ WINDOW_CAP \in Nat \ {0}
    /\ RECV_WINDOW_SIZE \in Nat \ {0} /\ 1 \in 1..NPKT
  BY SessionAssumption

\* The operators of Upload that the proofs about it name are the ones that
\* the peers use.
LEMMA SameUpload ==
    /\ UP!ul_init = U!ul_init
    /\ \A u : UP!ul_send(u) = U!ul_send(u) /\ UP!send_limit(u) = U!send_limit(u)
    /\ \A u, a : UP!ul_handle_ack(u, a) = U!ul_handle_ack(u, a)
    /\ \A u, p : UP!ca_tick(u, p) = U!ca_tick(u, p)
    /\ \A u : UP!on_timeout(u) = U!on_timeout(u)
    /\ \A u : UP!timer_armed(u) = U!timer_armed(u)
<1>1. UP!ul_init = U!ul_init
  BY DEF UP!ul_init, U!ul_init, UP!SS, U!SS
<1>2. \A u : UP!ul_send(u) = U!ul_send(u) /\ UP!send_limit(u) = U!send_limit(u)
  BY DEF UP!ul_send, U!ul_send, UP!send_limit, U!send_limit, UP!sent_by, U!sent_by,
         UP!MAX, U!MAX, UP!MIN, U!MIN
<1>3. \A u, a : UP!ul_handle_ack(u, a) = U!ul_handle_ack(u, a)
  BY DEF UP!ul_handle_ack, U!ul_handle_ack, UP!valid_ack, U!valid_ack, UP!counted, U!counted,
         UP!MAX_DUP_SEQ, U!MAX_DUP_SEQ, UP!is_dup_loss, U!is_dup_loss, UP!ul_loss, U!ul_loss,
         UP!ack_new_data, U!ack_new_data, UP!grown_window, U!grown_window,
         UP!next_status, U!next_status, UP!MAX, U!MAX, UP!MIN, U!MIN,
         UP!SS, UP!CA, UP!FR, UP!FR_SS, UP!FR_CA, U!SS, U!CA, U!FR, U!FR_SS, U!FR_CA
<1>4. \A u, p : UP!ca_tick(u, p) = U!ca_tick(u, p)
  BY DEF UP!ca_tick, U!ca_tick, UP!ca_growth_due, U!ca_growth_due,
         UP!CA, UP!FR_CA, U!CA, U!FR_CA
<1>5. \A u : UP!on_timeout(u) = U!on_timeout(u)
  BY DEF UP!on_timeout, U!on_timeout, UP!ul_loss, U!ul_loss, UP!MAX, U!MAX, UP!FR, U!FR
<1>6. \A u : UP!timer_armed(u) = U!timer_armed(u)
  BY DEF UP!timer_armed, U!timer_armed
<1> QED
  BY <1>1, <1>2, <1>3, <1>4, <1>5, <1>6

\* The same for Download.
LEMMA SameDownload ==
    /\ DP!dl_init = D!dl_init
    /\ \A d : DP!ack_of(d) = D!ack_of(d)
    /\ \A d, p : DP!takes(d, p) = D!takes(d, p) /\ DP!dl_recv(d, p) = D!dl_recv(d, p)
    /\ \A d, e : DP!dl_check_timeout(d, e) = D!dl_check_timeout(d, e)
<1>1. DP!dl_init = D!dl_init
  BY DEF DP!dl_init, D!dl_init, DP!init_recvwin, D!init_recvwin, DP!Offsets, D!Offsets,
         DP!Junk, D!Junk
<1>2. \A d : DP!ack_of(d) = D!ack_of(d)
  BY DEF DP!ack_of, D!ack_of
<1>3. \A d : DP!get_ack(d) = D!get_ack(d)
  BY DEF DP!get_ack, D!get_ack, DP!recvwin_slideack, D!recvwin_slideack,
         DP!run_length, D!run_length, DP!seq_exist_in, D!seq_exist_in,
         DP!SEQ_IN_WIN, D!SEQ_IN_WIN
<1>4. \A d, p : DP!note_length(d, p) = D!note_length(d, p)
  BY DEF DP!note_length, D!note_length
<1>5. \A d, p : DP!takes(d, p) = D!takes(d, p)
  BY <1>4 DEF DP!takes, D!takes, DP!acceptable, D!acceptable, DP!seq_fit_in, D!seq_fit_in,
         DP!offset_of, D!offset_of
<1>6. \A d, p : DP!store(d, p) = D!store(d, p)
  BY DEF DP!store, D!store, DP!offset_of, D!offset_of, DP!Offsets, D!Offsets,
         DP!recvwin_mark, D!recvwin_mark, DP!seq_exist_in, D!seq_exist_in,
         DP!SEQ_IN_WIN, D!SEQ_IN_WIN
<1>7. \A d, p : DP!dl_recv(d, p) = D!dl_recv(d, p)
  BY <1>3, <1>4, <1>5, <1>6 DEF DP!dl_recv, D!dl_recv, DP!complete, D!complete, DP!ack_of, D!ack_of
<1>8. \A d, e : DP!dl_check_timeout(d, e) = D!dl_check_timeout(d, e)
  BY <1>3 DEF DP!dl_check_timeout, D!dl_check_timeout, DP!dl_loss, D!dl_loss
<1> QED
  BY <1>1, <1>2, <1>5, <1>7, <1>8

(***************************************************************************)
(* The invariant                                                           *)
(***************************************************************************)
UpMail ==
    {Whohas(h) : h \in Seq(Chunks)} \cup {Get(c) : c \in Chunks} \cup {Ack(n) : n \in 0..NPKT}

DownMail ==
    {Ihave(h) : h \in Seq(Chunks)} \cup {Data(m[1], m[2]) : m \in Nat \X Chunks}

Downs ==
    [ is_alive : BOOLEAN, is_downloading : BOOLEAN, hasqueue : Seq(Chunks), get_index : Chunks,
      dl : DP!Downloads, state : [Chunks -> {"unfetched", "fetching", "fetched"}],
      whohas_recent : BOOLEAN, out : Seq(UpMail) ]

Ups ==
    [ is_alive : BOOLEAN, is_uploading : BOOLEAN, has_index : Chunks, ul : UP!UploadRecords,
      out : Seq(DownMail) ]

\* the window stands at a gap inside the chunk, and one byte is one packet
Receiving(v) ==
    /\ DP!Settled(v)
    /\ DP!received(v.rwin) \subseteq 1..NPKT
    /\ v.started => v.data_length = 1

\* what is still asked of a chunk that is on its way
Waiting(v) ==
    ~v.finished /\ D!ack_of(v) < NPKT /\ v.timeout_cnt <= MAX_TIMEOUT_CNT

\* AcksAreOwn, of any download and any packets
Own(d, q) ==
    d.is_downloading =>
       \A i \in DOMAIN q :
          \/ q[i].type # "ACK"
          \/ \E j \in i..Len(q) : q[j].type = "GET"
          \/ q[i].ack <= D!ack_of(d.dl)

\* a downloading peer in the middle of a step; q is what it sent before
DownOK(d, q) ==
    /\ d \in Downs
    /\ Receiving(d.dl)
    /\ d.is_downloading => Waiting(d.dl)
    /\ Own(d, q \o d.out)

UpOK(u) ==
    /\ u \in Ups
    /\ UP!Sound(u.ul)
    /\ u.is_uploading => UP!Running(u.ul)

SsInv ==
    /\ to_up \in Seq(UpMail) /\ to_down \in Seq(DownMail)
    /\ DownOK(down, to_up) /\ down.out = <<>>
    /\ UpOK(up) /\ up.out = <<>>

(***************************************************************************)
(* Packets on their way to the uploading peer                              *)
(***************************************************************************)
\* Packets that claim no more than the download has can follow.
LEMMA OwnMore ==
    ASSUME NEW d, NEW q \in Seq(UpMail), NEW r \in Seq(UpMail), Own(d, q),
           \A i \in 1..Len(r) : r[i].type # "ACK" \/ r[i].ack <= D!ack_of(d.dl)
    PROVE  Own(d, q \o r)
<1> SUFFICES ASSUME d.is_downloading, NEW i \in DOMAIN (q \o r)
             PROVE  \/ (q \o r)[i].type # "ACK"
                    \/ \E j \in i..Len(q \o r) : (q \o r)[j].type = "GET"
                    \/ (q \o r)[i].ack <= D!ack_of(d.dl)
  BY DEF Own
<1> DEFINE w == q \o r
<1>1. /\ Len(q) \in Nat /\ Len(r) \in Nat /\ Len(w) = Len(q) + Len(r)
      /\ i \in 1..Len(w) /\ DOMAIN q = 1..Len(q)
      /\ \A k \in 1..Len(w) : w[k] = IF k <= Len(q) THEN q[k] ELSE r[k - Len(q)]
  BY ConcatProperties, LenProperties
<1> HIDE DEF w
<1>2. CASE i <= Len(q)
  <2>1. i \in DOMAIN q /\ w[i] = q[i]
    BY <1>1, <1>2
  <2>2. \A j \in i..Len(q) : j \in i..Len(w) /\ w[j] = q[j]
    BY <1>1, <1>2
  <2>3. \/ q[i].type # "ACK"
        \/ \E j \in i..Len(q) : q[j].type = "GET"
        \/ q[i].ack <= D!ack_of(d.dl)
    BY <2>1 DEF Own
  <2> QED
    BY <2>1, <2>2, <2>3, Zenon DEF w
<1>3. CASE ~(i <= Len(q))
  <2>1. i - Len(q) \in 1..Len(r) /\ w[i] = r[i - Len(q)]
    BY <1>1, <1>3
  <2> QED
    BY <2>1, Zenon DEF w
<1> QED
  BY <1>2, <1>3

\* A GET starts afresh: whatever was sent before it is behind it.
LEMMA OwnAfterGet ==
    ASSUME NEW d, NEW q \in Seq(UpMail), NEW c \in Chunks
    PROVE  Own(d, q \o <<Get(c)>>)
<1> DEFINE w == q \o <<Get(c)>>
<1>1. <<Get(c)>> \in Seq(UpMail)
  BY DEF UpMail
<1>2. /\ Len(q) \in Nat /\ Len(w) = Len(q) + 1 /\ w[Len(w)] = Get(c) /\ DOMAIN w = 1..Len(w)
  BY <1>1
<1> HIDE DEF w
<1>3. \A i \in DOMAIN w : Len(w) \in i..Len(w)
  BY <1>2
<1>4. w[Len(w)].type = "GET"
  BY <1>2 DEF Get
<1> QED
  BY <1>3, <1>4, Zenon DEF Own, w

\* Packets that have been taken, or lost, are the first ones.
LEMMA OwnTail ==
    ASSUME NEW d, NEW q \in Seq(UpMail), Own(d, q), q # <<>>
    PROVE  Own(d, Tail(q))
<1> DEFINE w == Tail(q)
<1>1. /\ Len(q) \in Nat \ {0} /\ Len(w) = Len(q) - 1 /\ DOMAIN w = 1..Len(w) /\ DOMAIN q = 1..Len(q)
      /\ \A i \in 1..Len(w) : w[i] = q[i + 1]
  BY HeadTailProperties, LenProperties, EmptySeq
<1> HIDE DEF w
<1> SUFFICES ASSUME d.is_downloading, NEW i \in DOMAIN w
             PROVE  \/ w[i].type # "ACK"
                    \/ \E j \in i..Len(w) : w[j].type = "GET"
                    \/ w[i].ack <= D!ack_of(d.dl)
  BY DEF Own, w
<1>2. i + 1 \in DOMAIN q /\ w[i] = q[i + 1]
  BY <1>1
<1>3. \A j \in (i + 1)..Len(q) : j - 1 \in i..Len(w) /\ w[j - 1] = q[j]
  BY <1>1
<1>4. \/ q[i + 1].type # "ACK"
      \/ \E j \in (i + 1)..Len(q) : q[j].type = "GET"
      \/ q[i + 1].ack <= D!ack_of(d.dl)
  BY <1>2 DEF Own
<1> QED
  BY <1>2, <1>3, <1>4, Zenon

\* A download that has more, or is over, still owns its ACKs.
LEMMA OwnLater ==
    ASSUME NEW d, NEW e, NEW q, Own(d, q), q \in Seq(UpMail),
           e.is_downloading => d.is_downloading,
           D!ack_of(d.dl) \in Int, D!ack_of(e.dl) \in Int, D!ack_of(d.dl) <= D!ack_of(e.dl)
    PROVE  Own(e, q)
<1>1. \A i \in DOMAIN q : q[i].type = "ACK" => q[i].ack \in Int
  <2>1. \A i \in DOMAIN q : q[i] \in UpMail
    OBVIOUS
  <2>2. \A m \in UpMail : m.type = "ACK" => m.ack \in Int
    BY Transport DEF UpMail, Whohas, Get, Ack
  <2> QED
    BY <2>1, <2>2
<1> QED
  BY <1>1 DEF Own

(***************************************************************************)
(* The downloading peer                                                    *)
(***************************************************************************)
\* ACK numbers are those of packets.
LEMMA AckRange ==
    ASSUME NEW v, Receiving(v)
    PROVE  D!ack_of(v) \in 0..NPKT /\ v.next_pkt_expected = D!ack_of(v) + 1
<1>1. /\ v.next_pkt_expected \in Nat \ {0} /\ v.rwin.next_seq = v.next_pkt_expected
      /\ NPKT \in Nat
  BY Transport DEF Receiving, DP!Settled, DP!Downloads
<1>2. 1..(v.rwin.next_seq - 1) \subseteq 1..NPKT
  BY DEF Receiving, DP!received
<1>3. v.next_pkt_expected - 1 <= NPKT
  <2>1. CASE v.next_pkt_expected = 1
    BY <2>1, <1>1
  <2>2. CASE v.next_pkt_expected # 1
    <3>1. v.next_pkt_expected - 1 \in 1..(v.rwin.next_seq - 1)
      BY <2>2, <1>1
    <3> QED
      BY <3>1, <1>1, <1>2
  <2> QED
    BY <2>1, <2>2
<1> QED
  BY <1>1, <1>3 DEF D!ack_of

\* dl_recv keeps the window inside the chunk, never takes an ACK back, and
\* ends the download when, and only when, the whole chunk is there.
LEMMA RecvStep ==
    ASSUME NEW v, Receiving(v), Waiting(v), NEW s \in Nat, NEW c \in Chunks
    PROVE  LET n == D!dl_recv(v, DataPacket(s, c)) IN
           /\ Receiving(n) /\ D!ack_of(v) <= D!ack_of(n)
           /\ n.finished \/ Waiting(n)
<1> DEFINE pkt == DataPacket(s, c)
           n == DP!dl_recv(v, pkt)
           l == DP!note_length(v, pkt)
           w == DP!store(l, pkt)
           g == DP!get_ack(w)
<1> USE Transport
<1>1. DP!IsPacket(pkt) /\ pkt.seq = s /\ pkt.len = 1
  <2>1. c \in Int
    BY SessionAssumption DEF Chunks
  <2> QED
    BY <2>1 DEF DP!IsPacket, DataPacket
<1>2. DP!Settled(v) /\ DP!received(v.rwin) \subseteq 1..NPKT /\ (v.started => v.data_length = 1)
  BY DEF Receiving
<1>3. ~v.finished /\ D!ack_of(v) < NPKT /\ v.timeout_cnt <= MAX_TIMEOUT_CNT
  BY DEF Waiting
<1> HIDE DEF pkt
<1>4. /\ DP!Settled(l) /\ l.rwin = v.rwin /\ l.next_pkt_expected = v.next_pkt_expected
      /\ l.finished = v.finished /\ l.timeout_cnt = v.timeout_cnt /\ l.started
      /\ l.data_length = 1
  <2>1. /\ DP!Settled(l) /\ l.rwin = v.rwin /\ l.next_pkt_expected = v.next_pkt_expected
        /\ l.finished = v.finished /\ l.timeout_cnt = v.timeout_cnt /\ l.started
        /\ l.data_length \in {v.data_length, pkt.len}
        /\ ~v.started => l.data_length = pkt.len
    BY <1>1, <1>2, DP!NoteSound
  <2> QED
    BY <2>1, <1>1, <1>2
<1>5. CASE ~DP!takes(v, pkt)
  <2>1. n = l
    BY <1>3, <1>5 DEF DP!dl_recv
  <2>2. D!ack_of(n) = D!ack_of(v)
    BY <2>1, <1>4 DEF D!ack_of
  <2>3. Receiving(n)
    BY <2>1, <1>2, <1>4 DEF Receiving
  <2>4. Waiting(n)
    BY <2>1, <2>2, <1>3, <1>4 DEF Waiting
  <2>5. D!ack_of(v) \in Int
    BY AckRange
  <2> HIDE DEF n
  <2> QED
    BY <2>2, <2>3, <2>4, <2>5, SameDownload DEF n, pkt
<1>6. CASE DP!takes(v, pkt)
  <2>1. n = [g EXCEPT !.timeout_cnt = 0, !.finished = DP!complete(g)]
    BY <1>3, <1>6 DEF DP!dl_recv
  <2>2. DP!acceptable(l, pkt)
    BY <1>6 DEF DP!takes
  <2> HIDE DEF l
  <2>3. s \in 1..NPKT
    <3>1. s >= l.rwin.next_seq /\ l.rwin.next_seq \in Nat \ {0}
      BY <1>1, <1>4, <2>2 DEF DP!acceptable, DP!seq_fit_in, DP!Settled, DP!Downloads, DP!RecvWins
    <3>2. (s - 1) * 1 + 1 <= NPKT
      BY <1>1, <1>4, <2>2 DEF DP!acceptable, DP!offset_of
    <3> QED
      BY <3>1, <3>2
  <2>4. /\ w \in DP!Downloads /\ w.rwin.next_seq = l.rwin.next_seq
        /\ DP!received(w.rwin) = DP!received(l.rwin) \cup {pkt.seq}
        /\ w = [l EXCEPT !.rwin = w.rwin, !.buffer = w.buffer]
    BY <1>1, <1>4, <2>2, DP!StoreSound
  <2>5. w.data_length = 1 /\ w.started
    BY <2>4, <1>4 DEF DP!Settled, DP!Downloads
  <2> HIDE DEF w
  <2>6. /\ DP!Settled(g) /\ DP!received(g.rwin) = DP!received(w.rwin)
        /\ g.next_pkt_expected \in w.rwin.next_seq..(w.rwin.next_seq + RECV_WINDOW_SIZE)
        /\ g = [w EXCEPT !.rwin = g.rwin, !.next_pkt_expected = g.next_pkt_expected]
    BY <2>4, DP!GetAckSound
  <2>7. g \in DP!Downloads /\ g.data_length = 1 /\ g.started
    BY <2>4, <2>5, <2>6 DEF DP!Settled, DP!Downloads
  <2> HIDE DEF g
  <2>8. DP!complete(g) \in BOOLEAN
    BY DEF DP!complete
  <2>9. 0 \in 0..(MAX_TIMEOUT_CNT + 1)
    OBVIOUS
  <2>10. /\ n \in DP!Downloads /\ n.rwin = g.rwin /\ n.next_pkt_expected = g.next_pkt_expected
         /\ n.timeout_cnt = 0 /\ n.data_length = 1 /\ n.started /\ n.finished = DP!complete(g)
    BY <2>1, <2>7, <2>8, <2>9 DEF DP!Downloads
  <2> HIDE DEF n
  <2>11. DP!received(n.rwin) \subseteq 1..NPKT
    BY <2>3, <2>4, <2>6, <2>10, <1>1, <1>2, <1>4
  <2>12. DP!Settled(n)
    BY <2>6, <2>10 DEF DP!Settled
  <2>13. Receiving(n)
    BY <2>10, <2>11, <2>12 DEF Receiving
  <2>14. /\ D!ack_of(v) \in 0..NPKT /\ v.next_pkt_expected = D!ack_of(v) + 1
         /\ D!ack_of(n) \in 0..NPKT /\ n.next_pkt_expected = D!ack_of(n) + 1
    BY <2>13, AckRange
  <2>15. D!ack_of(v) <= D!ack_of(n)
    <3>1. w.rwin.next_seq = v.next_pkt_expected
      BY <2>4, <1>2, <1>4 DEF DP!Settled
    <3>2. n.next_pkt_expected >= v.next_pkt_expected
      <4>1. v.next_pkt_expected \in Int
        BY <2>14
      <4> QED
        BY <3>1, <4>1, <2>6, <2>10
    <3> QED
      BY <3>2, <2>14
  <2>16. ~n.finished => D!ack_of(n) < NPKT
    <3>1. ~n.finished => ~((g.next_pkt_expected - 1) * 1 >= NPKT)
      BY <2>7, <2>10 DEF DP!complete, DP!ack_of
    <3> QED
      BY <3>1, <2>10, <2>14
  <2>17. n.finished \/ Waiting(n)
    BY <2>10, <2>16 DEF Waiting
  <2> QED
    BY <2>13, <2>15, <2>17, SameDownload DEF n, pkt
<1> QED
  BY <1>5, <1>6

\* dl_init starts at the first packet.
LEMMA FreshDownload == Receiving(D!dl_init) /\ Waiting(D!dl_init)
<1> USE Transport
<1>1. /\ DP!Settled(D!dl_init) /\ DP!received(D!dl_init.rwin) = {}
      /\ ~D!dl_init.finished /\ ~D!dl_init.started /\ D!dl_init.timeout_cnt = 0
  BY DP!DlInitSound, SameDownload
<1>2. D!ack_of(D!dl_init) = 0
  BY DEF D!ack_of, D!dl_init
<1> QED
  BY <1>1, <1>2 DEF Receiving, Waiting

\* A packet given to the socket comes after all that were sent before it.
LEMMA Sends ==
    ASSUME NEW q \in Seq(UpMail), NEW o \in Seq(UpMail), NEW m \in UpMail
    PROVE  /\ Append(o, m) \in Seq(UpMail) /\ q \o o \in Seq(UpMail)
           /\ <<m>> \in Seq(UpMail) /\ Len(<<m>>) = 1 /\ <<m>>[1] = m
           /\ q \o Append(o, m) = (q \o o) \o <<m>>
<1>1. <<m>> \in Seq(UpMail) /\ Append(o, m) = o \o <<m>> /\ Len(<<m>>) = 1 /\ <<m>>[1] = m
  OBVIOUS
<1>2. (q \o o) \o <<m>> = q \o (o \o <<m>>)
  BY <1>1, ConcatAssociative
<1> QED
  BY <1>1, <1>2

\* The same for several packets.
LEMMA SendsMore ==
    ASSUME NEW q \in Seq(UpMail), NEW o \in Seq(UpMail), NEW r \in Seq(UpMail)
    PROVE  /\ o \o r \in Seq(UpMail) /\ q \o o \in Seq(UpMail)
           /\ q \o (o \o r) = (q \o o) \o r
<1>1. o \o r \in Seq(UpMail) /\ q \o o \in Seq(UpMail)
  OBVIOUS
<1>2. (q \o o) \o r = q \o (o \o r)
  BY ConcatAssociative
<1> QED
  BY <1>1, <1>2

\* A peer whose list of unfetched chunks is asked for.
LEMMA WhohasOK ==
    ASSUME NEW q \in Seq(UpMail), NEW d, DownOK(d, q)
    PROVE  DownOK(send_whohas(d), q)
<1> DEFINE m == Whohas(unfetched_chunks(d))
           e == send_whohas(d)
<1>1. d \in Downs /\ d.out \in Seq(UpMail) /\ Own(d, q \o d.out)
  BY DEF DownOK, Downs
<1>2. unfetched_chunks(d) \in Seq(Chunks)
  <2> DEFINE all == [c \in Chunks |-> c]
             S == {c \in Chunks : d.state[c] = "unfetched"}
  <2>1. all \in Seq(Chunks)
    BY SessionAssumption DEF Chunks
  <2> HIDE DEF all, S
  <2>2. kept(all, S) \in Seq(Chunks \cap S)
    BY <2>1, KeptSound
  <2>3. kept(all, S) \in Seq(Chunks)
    BY <2>2
  <2> QED
    BY <2>3 DEF unfetched_chunks, all, S
<1>3. m \in UpMail /\ m.type # "ACK"
  BY <1>2 DEF UpMail, Whohas
<1> HIDE DEF m
<1>4. e = [d EXCEPT !.out = Append(d.out, m), !.whohas_recent = TRUE]
  BY <1>1 DEF send_whohas, m, Downs
<1>5. /\ Append(d.out, m) \in Seq(UpMail) /\ q \o d.out \in Seq(UpMail)
      /\ <<m>> \in Seq(UpMail) /\ Len(<<m>>) = 1 /\ <<m>>[1] = m
      /\ q \o Append(d.out, m) = (q \o d.out) \o <<m>>
  BY <1>1, <1>3, Sends
<1>6. /\ e \in Downs /\ e.dl = d.dl /\ e.is_downloading = d.is_downloading
      /\ e.out = Append(d.out, m)
  BY <1>1, <1>4, <1>5 DEF Downs
<1> HIDE DEF e
<1>7. Own(d, (q \o d.out) \o <<m>>)
  <2>1. \A i \in 1..Len(<<m>>) : <<m>>[i].type # "ACK"
    BY <1>3, <1>5
  <2> QED
    BY <2>1, <1>1, <1>5, OwnMore
<1>8. Own(e, q \o e.out)
  <2> DEFINE w == (q \o d.out) \o <<m>>
  <2>1. q \o e.out = w
    BY <1>5, <1>6
  <2> HIDE DEF w
  <2>2. Own(d, w)
    BY <1>7 DEF w
  <2>3. Own(e, w)
    BY <2>2, <1>6 DEF Own
  <2> QED
    BY <2>1, <2>3
<1> QED
  BY <1>6, <1>8 DEF DownOK, e

\* try_send_get asks for a chunk of the queue and starts its download.
LEMMA TryOK ==
    ASSUME NEW q \in Seq(UpMail), NEW d, DownOK(d, q)
    PROVE  DownOK(try_send_get(d), q)
<1> DEFINE I == {i \in 1..Len(d.hasqueue) : d.state[d.hasqueue[i]] = "unfetched"}
           k == SelectInSeq(d.hasqueue, LAMBDA c : d.state[c] = "unfetched")
           c == d.hasqueue[k]
           m == Get(c)
           e == try_send_get(d)
<1>1. d \in Downs /\ d.out \in Seq(UpMail) /\ d.hasqueue \in Seq(Chunks)
  BY DEF DownOK, Downs
<1>2. k = IF I # {} THEN Min(I) ELSE 0
  BY DEF SelectInSeq
<1>3. k = 0 \/ k \in 1..Len(d.hasqueue)
  <2>1. CASE I = {}
    BY <2>1, <1>2
  <2>2. CASE I # {}
    <3>1. I \subseteq Nat
      BY <1>1
    <3>2. \E x \in I : \A y \in I : x <= y
      BY <3>1, <2>2, LeastElement
    <3>3. Min(I) \in I
      BY <3>2, Zenon DEF Min
    <3> QED
      BY <3>3, <1>2, <2>2
  <2> QED
    BY <2>1, <2>2
<1> HIDE DEF k
<1>4. CASE k = 0
  BY <1>4 DEF try_send_get, k
<1>5. CASE k # 0
  <2>1. k \in 1..Len(d.hasqueue) /\ c \in Chunks
    BY <1>1, <1>3, <1>5
  <2>2. RemoveAt(d.hasqueue, k) \in Seq(Chunks)
    <3>1. SubSeq(d.hasqueue, 1, k - 1) \in Seq(Chunks)
      BY <1>1, <2>1
    <3>2. SubSeq(d.hasqueue, k + 1, Len(d.hasqueue)) \in Seq(Chunks)
      BY <1>1, <2>1
    <3> QED
      BY <3>1, <3>2, ConcatProperties DEF RemoveAt
  <2> HIDE DEF c
  <2>3. m \in UpMail
    BY <2>1 DEF UpMail
  <2> HIDE DEF m
  <2>4. e = [d EXCEPT !.hasqueue = RemoveAt(d.hasqueue, k), !.get_index = c,
                      !.state[c] = "fetching", !.is_downloading = TRUE, !.dl = D!dl_init,
                      !.out = Append(d.out, m)]
    BY <1>1, <1>5 DEF try_send_get, k, c, m, Downs
  <2>5. /\ Append(d.out, m) \in Seq(UpMail) /\ q \o d.out \in Seq(UpMail)
        /\ q \o Append(d.out, m) = (q \o d.out) \o <<m>>
    BY <1>1, <2>3, Sends
  <2>6. Receiving(D!dl_init) /\ Waiting(D!dl_init) /\ D!dl_init \in DP!Downloads
    BY FreshDownload DEF Receiving, DP!Settled
  <2>7. /\ e \in Downs /\ e.dl = D!dl_init /\ e.is_downloading /\ e.out = Append(d.out, m)
    <3>1. [d.state EXCEPT ![c] = "fetching"] \in [Chunks -> {"unfetched", "fetching", "fetched"}]
      BY <1>1 DEF Downs
    <3> QED
      BY <3>1, <1>1, <2>1, <2>2, <2>4, <2>5, <2>6 DEF Downs
  <2> HIDE DEF e
  <2>8. Own(e, q \o e.out)
    BY <2>1, <2>5, <2>7, OwnAfterGet DEF m
  <2> QED
    BY <2>6, <2>7, <2>8 DEF DownOK, e
<1> QED
  BY <1>4, <1>5

\* refresh_chunk_download asks for a chunk, or for who has one, or nothing.
LEMMA RefreshOK ==
    ASSUME NEW q \in Seq(UpMail), NEW d, DownOK(d, q)
    PROVE  DownOK(refresh_chunk_download(d), q)
<1> DEFINE e == IF remains(d) /\ d.is_alive /\ ~d.is_downloading THEN try_send_get(d) ELSE d
<1>1. DownOK(e, q)
  BY TryOK
<1>2. refresh_chunk_download(d) \in {e, send_whohas(e)}
  BY DEF refresh_chunk_download
<1> HIDE DEF e
<1> QED
  BY <1>1, <1>2, WhohasOK

\* What a turn of the downloading peer leaves behind.
LEMMA DownStepOK ==
    ASSUME to_up \in Seq(UpMail), NEW d, DownOK(d, to_up), DownStep(d)
    PROVE  to_up' \in Seq(UpMail) /\ DownOK(down', to_up') /\ down'.out = <<>>
<1> DEFINE e == refresh_chunk_download(d)
<1>1. down' = [e EXCEPT !.out = <<>>] /\ to_up' = to_up \o e.out
  BY DEF DownStep
<1>2. DownOK(e, to_up)
  BY RefreshOK
<1> HIDE DEF e
<1>3. e \in Downs /\ e.out \in Seq(UpMail) /\ <<>> \in Seq(UpMail)
  BY <1>2 DEF DownOK, Downs
<1>4. to_up' \in Seq(UpMail)
  BY <1>1, <1>3, ConcatProperties
<1>5. /\ down' \in Downs /\ down'.dl = e.dl /\ down'.is_downloading = e.is_downloading
      /\ down'.out = <<>>
  BY <1>1, <1>3 DEF Downs
<1>6. to_up' \o down'.out = to_up'
  BY <1>4, <1>5, ConcatEmptySeq
<1>7. Own(down', to_up')
  BY <1>1, <1>2, <1>5 DEF DownOK, Own
<1> QED
  BY <1>2, <1>4, <1>5, <1>6, <1>7 DEF DownOK

\* parse_packet on IHAVE.
LEMMA IhaveOK ==
    ASSUME NEW q \in Seq(UpMail), NEW d, DownOK(d, q), NEW hashes \in Seq(Chunks)
    PROVE  DownOK(on_ihave(d, hashes), q)
<1>1. CASE d.is_downloading
  BY <1>1 DEF on_ihave
<1>2. CASE ~d.is_downloading
  <2> DEFINE e == [d EXCEPT !.is_alive = TRUE, !.hasqueue = hashes]
  <2>1. d \in Downs
    BY DEF DownOK
  <2>2. /\ e \in Downs /\ e.dl = d.dl /\ e.is_downloading = d.is_downloading /\ e.out = d.out
    BY <2>1 DEF Downs
  <2>3. on_ihave(d, hashes) = try_send_get(e)
    BY <1>2 DEF on_ihave
  <2> HIDE DEF e
  <2>4. DownOK(e, q)
    BY <1>2, <2>2 DEF DownOK, Own
  <2> QED
    BY <2>3, <2>4, TryOK
<1> QED
  BY <1>1, <1>2

\* parse_packet on DATA: the ACK, if there is one, is of what dl_recv left.
LEMMA DataOK ==
    ASSUME NEW q \in Seq(UpMail), NEW d, DownOK(d, q), d.is_downloading,
           NEW s \in Nat, NEW c \in Chunks
    PROVE  DownOK(on_data(d, DataPacket(s, c), D!dl_recv(d.dl, DataPacket(s, c))), q)
<1> DEFINE pkt == DataPacket(s, c)
           v == D!dl_recv(d.dl, pkt)
           m == Ack(D!ack_of(v))
           o == IF D!takes(d.dl, pkt) THEN Append(d.out, m) ELSE d.out
           e == [d EXCEPT !.dl = v, !.out = o]
           f == on_data(d, pkt, v)
<1>1. /\ d \in Downs /\ d.out \in Seq(UpMail) /\ Receiving(d.dl) /\ Waiting(d.dl)
      /\ Own(d, q \o d.out)
  BY DEF DownOK, Downs
<1>2. Receiving(v) /\ D!ack_of(d.dl) <= D!ack_of(v) /\ (v.finished \/ Waiting(v))
  BY <1>1, RecvStep
<1>3. f = IF v.finished THEN finish_download(e) ELSE e
  BY <1>1 DEF on_data, Downs
<1> HIDE DEF v, pkt
<1>4. D!ack_of(v) \in 0..NPKT /\ D!ack_of(d.dl) \in 0..NPKT /\ v \in DP!Downloads /\ NPKT \in Nat
  BY <1>1, <1>2, AckRange, Transport DEF Receiving, DP!Settled
<1>5. m \in UpMail /\ m.ack = D!ack_of(v)
  BY <1>4 DEF UpMail, Ack
<1> HIDE DEF m
<1>6. o \in Seq(UpMail) /\ q \o d.out \in Seq(UpMail)
  BY <1>1, <1>5, Sends
<1>7. /\ e \in Downs /\ e.dl = v /\ e.is_downloading /\ e.out = o /\ e.get_index = d.get_index
  BY <1>1, <1>4, <1>6 DEF Downs
<1> HIDE DEF e
<1>8. Own(e, q \o o)
  <2>1. Own(e, q \o d.out)
    <3> DEFINE w == q \o d.out
    <3>1. Own(d, w) /\ w \in Seq(UpMail)
      BY <1>1, <1>6
    <3>2. /\ e.is_downloading => d.is_downloading
          /\ D!ack_of(d.dl) \in Int /\ D!ack_of(e.dl) \in Int
          /\ D!ack_of(d.dl) <= D!ack_of(e.dl)
      BY <1>2, <1>4, <1>7
    <3> HIDE DEF w
    <3>3. Own(e, w)
      BY <3>1, <3>2, OwnLater, Zenon
    <3> QED
      BY <3>3 DEF w
  <2>2. CASE D!takes(d.dl, pkt)
    <3>1. /\ <<m>> \in Seq(UpMail) /\ Len(<<m>>) = 1 /\ <<m>>[1] = m
          /\ q \o o = (q \o d.out) \o <<m>>
      BY <1>1, <1>5, <2>2, Sends
    <3>2. \A i \in 1..Len(<<m>>) : <<m>>[i].ack <= D!ack_of(e.dl)
      BY <3>1, <1>4, <1>5, <1>7
    <3> HIDE DEF o
    <3>3. Own(e, (q \o d.out) \o <<m>>)
      BY <2>1, <3>1, <3>2, <1>6, OwnMore
    <3> QED
      BY <3>1, <3>3
  <2>3. CASE ~D!takes(d.dl, pkt)
    BY <2>1, <2>3
  <2> QED
    BY <2>2, <2>3
<1> HIDE DEF o
<1>9. CASE ~v.finished
  BY <1>2, <1>3, <1>7, <1>8, <1>9 DEF DownOK, f, v, pkt
<1>10. CASE v.finished
  <2> DEFINE st == IF \A b \in DOMAIN e.dl.buffer : e.dl.buffer[b] = e.get_index
                   THEN "fetched" ELSE "unfetched"
  <2>1. f = [e EXCEPT !.is_downloading = FALSE, !.state[e.get_index] = st]
    BY <1>3, <1>10 DEF finish_download
  <2>2. st \in {"unfetched", "fetching", "fetched"}
    OBVIOUS
  <2> HIDE DEF st, f
  <2>3. f \in Downs /\ f.dl = v /\ f.is_downloading = FALSE /\ f.out = o
    <3>1. [e.state EXCEPT ![e.get_index] = st] \in [Chunks -> {"unfetched", "fetching", "fetched"}]
      BY <1>7, <2>2 DEF Downs
    <3> QED
      BY <3>1, <2>1, <1>7 DEF Downs
  <2> QED
    BY <2>3, <1>2 DEF DownOK, Own, f, v, pkt
<1> QED
  BY <1>9, <1>10

\* check_all_timeout on a download: dl_loss repeats the ACK.
LEMMA TimeoutOK ==
    ASSUME NEW q \in Seq(UpMail), NEW d, DownOK(d, q), d.is_downloading
    PROVE  DownOK(on_download_timeout(d), q)
<1> DEFINE v == D!dl_check_timeout(d.dl, TRUE)
           m == Ack(D!ack_of(v))
           r == [i \in 1..LOSS_ACK_NUM |-> m]
           e == [d EXCEPT !.dl = v, !.out = d.out \o r]
           f == on_download_timeout(d)
<1>1. /\ d \in Downs /\ d.out \in Seq(UpMail) /\ Receiving(d.dl) /\ Waiting(d.dl)
      /\ Own(d, q \o d.out)
  BY DEF DownOK, Downs
<1>2. /\ DP!Settled(v) /\ v.rwin = d.dl.rwin /\ v.next_pkt_expected = d.dl.next_pkt_expected
      /\ v.finished = d.dl.finished /\ v.started = d.dl.started
      /\ v.data_length = d.dl.data_length
  <2>1. DP!Settled(d.dl) /\ d.dl.timeout_cnt <= MAX_TIMEOUT_CNT
    BY <1>1 DEF Receiving, Waiting
  <2> QED
    BY <2>1, Transport, SameDownload, DP!CheckSound
<1>3. f = IF v.timeout_cnt <= MAX_TIMEOUT_CNT THEN e
          ELSE [e EXCEPT !.state[d.get_index] = "unfetched",
                         !.is_alive = FALSE, !.is_downloading = FALSE]
  BY <1>1 DEF on_download_timeout, Downs
<1> HIDE DEF v
<1>4. Receiving(v) /\ D!ack_of(v) = D!ack_of(d.dl) /\ v \in DP!Downloads
  BY <1>1, <1>2 DEF Receiving, D!ack_of, DP!Settled
<1>5. D!ack_of(v) \in 0..NPKT /\ NPKT \in Nat
  BY <1>4, AckRange, Transport
<1>6. m \in UpMail /\ m.ack = D!ack_of(v)
  BY <1>5 DEF UpMail, Ack
<1> HIDE DEF m
<1>7. r \in Seq(UpMail) /\ Len(r) = LOSS_ACK_NUM /\ \A i \in 1..Len(r) : r[i] = m
  <2>1. r \in [1..LOSS_ACK_NUM -> UpMail] /\ LOSS_ACK_NUM \in Nat
    BY <1>6, SessionAssumption
  <2> QED
    BY <2>1
<1> HIDE DEF r
<1>8. /\ d.out \o r \in Seq(UpMail) /\ q \o d.out \in Seq(UpMail)
      /\ q \o (d.out \o r) = (q \o d.out) \o r
  BY <1>1, <1>7, SendsMore
<1>9. /\ e \in Downs /\ e.dl = v /\ e.is_downloading /\ e.out = d.out \o r
  BY <1>1, <1>4, <1>8 DEF Downs
<1> HIDE DEF e
<1>10. Own(e, q \o e.out)
  <2>1. Own(e, q \o d.out)
    <3> DEFINE w == q \o d.out
    <3>1. Own(d, w) /\ w \in Seq(UpMail)
      BY <1>1, <1>8
    <3>2. /\ e.is_downloading => d.is_downloading
          /\ D!ack_of(d.dl) \in Int /\ D!ack_of(e.dl) \in Int
          /\ D!ack_of(d.dl) <= D!ack_of(e.dl)
      BY <1>4, <1>5, <1>9
    <3> HIDE DEF w
    <3>3. Own(e, w)
      BY <3>1, <3>2, OwnLater, Zenon
    <3> QED
      BY <3>3 DEF w
  <2>2. \A i \in 1..Len(r) : r[i].ack <= D!ack_of(e.dl)
    BY <1>5, <1>6, <1>7, <1>9
  <2>3. Own(e, (q \o d.out) \o r)
    BY <2>1, <2>2, <1>7, <1>8, OwnMore
  <2> QED
    BY <2>3, <1>8, <1>9
<1>11. CASE v.timeout_cnt <= MAX_TIMEOUT_CNT
  <2>1. Waiting(v)
    BY <1>1, <1>2, <1>4, <1>11 DEF Waiting
  <2> QED
    BY <2>1, <1>3, <1>4, <1>9, <1>10, <1>11 DEF DownOK, f, v
<1>12. CASE ~(v.timeout_cnt <= MAX_TIMEOUT_CNT)
  <2> HIDE DEF f
  <2>1. f \in Downs /\ f.dl = v /\ f.is_downloading = FALSE
    <3>1. [e.state EXCEPT ![d.get_index] = "unfetched"]
              \in [Chunks -> {"unfetched", "fetching", "fetched"}]
      BY <1>9 DEF Downs
    <3> QED
      BY <3>1, <1>3, <1>9, <1>12 DEF Downs
  <2> QED
    BY <2>1, <1>4 DEF DownOK, Own, f
<1> QED
  BY <1>11, <1>12

\* A peer just started, with its WHOHAS.
LEMMA FreshOK ==
    ASSUME NEW q \in Seq(UpMail)
    PROVE  DownOK(FreshDown, q)
<1> DEFINE d == [ is_alive |-> FALSE, is_downloading |-> FALSE, hasqueue |-> <<>>,
                  get_index |-> 1, dl |-> D!dl_init,
                  state |-> [c \in Chunks |-> "unfetched"],
                  whohas_recent |-> FALSE, out |-> <<>> ]
<1>1. Receiving(D!dl_init) /\ D!dl_init \in DP!Downloads
  BY FreshDownload DEF Receiving, DP!Settled
<1>2. d \in Downs
  <2>1. 1 \in Chunks /\ <<>> \in Seq(Chunks) /\ <<>> \in Seq(UpMail)
    BY SessionAssumption DEF Chunks
  <2> QED
    BY <1>1, <2>1 DEF Downs
<1>3. d.is_downloading = FALSE /\ d.dl = D!dl_init
  OBVIOUS
<1>4. FreshDown = send_whohas(d)
  BY DEF FreshDown
<1> HIDE DEF d
<1>5. DownOK(d, q)
  BY <1>1, <1>2, <1>3 DEF DownOK, Own
<1> QED
  BY <1>4, <1>5, WhohasOK

(***************************************************************************)
(* The uploading peer                                                      *)
(***************************************************************************)
\* The DATA packets of a burst are packets: it starts where the last ended.
LEMMA Burst ==
    ASSUME NEW v \in UP!UploadRecords, NEW c \in Chunks
    PROVE  DataOf(v, c) \in Seq(DownMail)
<1> DEFINE n == U!send_limit(v) - v.last_pkt_sent
<1>1. /\ v.last_pkt_sent \in Nat /\ v.last_pkt_acked \in Nat /\ v.window_size \in Nat
      /\ NPKT \in Nat
  BY Transport DEF UP!UploadRecords
<1>2. n \in Nat
  <2>1. U!send_limit(v) \in Nat /\ v.last_pkt_sent <= U!send_limit(v)
    BY <1>1 DEF U!send_limit, U!MAX, U!MIN
  <2> QED
    BY <2>1, <1>1
<1> HIDE DEF n
<1>3. \A i \in 1..n : Data(v.last_pkt_sent + i, c) \in DownMail
  <2> TAKE i \in 1..n
  <2> DEFINE m == <<v.last_pkt_sent + i, c>>
  <2>1. m \in Nat \X Chunks /\ m[1] = v.last_pkt_sent + i /\ m[2] = c
    BY <1>1, <1>2
  <2>2. Data(v.last_pkt_sent + i, c) = Data(m[1], m[2])
    BY <2>1
  <2> HIDE DEF m
  <2> QED
    BY <2>1, <2>2 DEF DownMail
<1>4. [i \in 1..n |-> Data(v.last_pkt_sent + i, c)] \in Seq(DownMail)
  BY <1>2, <1>3
<1> QED
  BY <1>4 DEF DataOf, n

\* What a turn of the uploading peer leaves behind.
LEMMA UpStepOK ==
    ASSUME to_down \in Seq(DownMail), NEW u, UpOK(u), UpStep(u)
    PROVE  /\ to_down' \in Seq(DownMail) /\ UpOK(up') /\ up'.out = <<>>
           /\ up'.ul = u.ul /\ up'.is_uploading = u.is_uploading
<1>1. up' = [u EXCEPT !.out = <<>>] /\ to_down' = to_down \o u.out
  BY DEF UpStep
<1>2. u \in Ups /\ u.out \in Seq(DownMail) /\ <<>> \in Seq(DownMail)
  BY DEF UpOK, Ups
<1>3. to_down' \in Seq(DownMail)
  BY <1>1, <1>2
<1>4. /\ up' \in Ups /\ up'.ul = u.ul /\ up'.is_uploading = u.is_uploading /\ up'.out = <<>>
  BY <1>1, <1>2 DEF Ups
<1> QED
  BY <1>3, <1>4 DEF UpOK

\* parse_packet on WHOHAS leaves the upload alone.
LEMMA WhohasUp ==
    ASSUME NEW u, UpOK(u), NEW hashes \in Seq(Chunks)
    PROVE  LET w == on_whohas(u, hashes) IN
           UpOK(w) /\ w.ul = u.ul /\ w.is_uploading = u.is_uploading
<1> DEFINE w == on_whohas(u, hashes)
           o == IF u.is_uploading THEN u.out ELSE Append(u.out, Ihave(hashes))
<1>1. u \in Ups /\ u.out \in Seq(DownMail)
  BY DEF UpOK, Ups
<1>2. CASE ul_num(u) >= MAX_CONN
  BY <1>2 DEF on_whohas
<1>3. CASE ~(ul_num(u) >= MAX_CONN)
  <2>1. Ihave(hashes) \in DownMail
    BY DEF DownMail
  <2>2. o \in Seq(DownMail)
    BY <1>1, <2>1
  <2>3. w = [u EXCEPT !.is_alive = TRUE, !.out = o]
    BY <1>1, <1>3 DEF on_whohas, Ups
  <2> HIDE DEF o, w
  <2>4. w \in Ups /\ w.ul = u.ul /\ w.is_uploading = u.is_uploading
    BY <1>1, <2>2, <2>3 DEF Ups
  <2> QED
    BY <2>4 DEF UpOK, w
<1> QED
  BY <1>2, <1>3

\* parse_packet on GET is refused, or starts the upload of Upload.
LEMMA GetUp ==
    ASSUME NEW u, UpOK(u), NEW c \in Chunks
    PROVE  LET w == on_get(u, c) IN
           /\ UpOK(w)
           /\ \/ w = u
              \/ w.ul = U!ul_send(U!ul_init) /\ w.is_uploading = TRUE
<1> DEFINE w == on_get(u, c)
           i == U!ul_init
           n == U!ul_send(i)
           b == DataOf(i, c)
<1>1. u \in Ups /\ u.out \in Seq(DownMail)
  BY DEF UpOK, Ups
<1>2. CASE ~u.is_alive \/ ul_num(u) >= MAX_CONN
  BY <1>2 DEF on_get
<1>3. CASE ~(~u.is_alive \/ ul_num(u) >= MAX_CONN)
  <2>1. /\ UP!Sound(i) /\ UP!InWindow(i)
        /\ ~i.finished /\ i.timeout_cnt = 0 /\ i.last_pkt_acked = 0
    BY Transport, SameUpload, UP!InitSound
  <2>2. n = UP!ul_send(i)
    BY SameUpload
  <2>3. w = [u EXCEPT !.ul = n, !.is_uploading = TRUE, !.has_index = c, !.out = u.out \o b]
    BY <1>1, <1>3 DEF on_get, Ups
  <2> HIDE DEF i, w
  <2>4. /\ UP!Sound(n) /\ UP!InWindow(n) /\ n.finished = i.finished
        /\ n.timeout_cnt = i.timeout_cnt /\ n.last_pkt_acked = i.last_pkt_acked
        /\ i.last_pkt_acked < NPKT => n.last_pkt_acked < n.last_pkt_sent
    <3> HIDE DEF n
    <3> QED
      BY <2>1, <2>2, Transport, UP!SendSound
  <2>5. UP!Running(n)
    BY <2>1, <2>4, Transport DEF UP!Running, UP!Outstanding
  <2>6. n \in UP!UploadRecords
    BY <2>4 DEF UP!Sound
  <2>7. u.out \o b \in Seq(DownMail)
    <3>1. i \in UP!UploadRecords
      BY <2>1 DEF UP!Sound
    <3>2. b \in Seq(DownMail)
      BY <3>1, Burst
    <3> HIDE DEF b
    <3> QED
      BY <3>2, <1>1
  <2> HIDE DEF n, b
  <2>8. w \in Ups /\ w.ul = n /\ w.is_uploading = TRUE
    BY <1>1, <2>3, <2>6, <2>7 DEF Ups
  <2> QED
    BY <2>4, <2>5, <2>8 DEF UpOK, w, n, i
<1> QED
  BY <1>2, <1>3

\* Only an ACK of the whole chunk ends an upload.
LEMMA AckEnds ==
    ASSUME NEW u, UP!Sound(u), UP!Running(u), NEW ack \in Nat,
           U!ul_handle_ack(u, ack).finished
    PROVE  ack >= NPKT
<1>1. u \in UP!UploadRecords /\ ~u.finished
  BY DEF UP!Sound, UP!Running, UP!Outstanding
<1>2. u.finished = FALSE
  BY <1>1 DEF UP!UploadRecords
<1>3. ack > 0 /\ U!valid_ack(u, ack)
  BY <1>1, <1>2 DEF U!ul_handle_ack, UP!UploadRecords
<1> DEFINE c == [u EXCEPT !.ack_cnt[ack] = U!counted(u, ack)]
           d == [c EXCEPT !.ack_cnt[ack] = 0]
<1>4. U!ul_handle_ack(u, ack) = IF U!is_dup_loss(u, ack) THEN U!ul_loss(d)
                                ELSE IF ack > u.last_pkt_acked THEN U!ack_new_data(c, ack)
                                ELSE c
  BY <1>2, <1>3 DEF U!ul_handle_ack
<1>5. c.finished = FALSE /\ d.finished = FALSE
  BY <1>1, <1>2 DEF UP!UploadRecords
<1>6. U!ul_loss(d).finished = FALSE
  BY <1>1, <1>5 DEF U!ul_loss, UP!UploadRecords
<1>7. U!ack_new_data(c, ack).finished = (ack >= NPKT)
  BY <1>1 DEF U!ack_new_data, UP!UploadRecords
<1> HIDE DEF c, d
<1> QED
  BY <1>4, <1>5, <1>6, <1>7

\* parse_packet on ACK is ignored, or takes the step of Upload.
LEMMA AckUp ==
    ASSUME NEW u, UpOK(u), NEW ack \in Nat
    PROVE  LET w == on_ack(u, ack) IN
           /\ UpOK(w)
           /\ \/ w = u
              \/ /\ u.is_uploading
                 /\ w.ul = U!update_upload(u.ul, ack) /\ w.is_uploading = ~w.ul.finished
                 /\ w.ul.finished => ack >= NPKT
<1> DEFINE w == on_ack(u, ack)
           v == U!ul_handle_ack(u.ul, ack)
           n == U!ul_send(v)
           b == DataOf(v, u.has_index)
<1>1. u \in Ups /\ u.out \in Seq(DownMail) /\ u.has_index \in Chunks
  BY DEF UpOK, Ups
<1>2. CASE ~u.is_alive \/ ~u.is_uploading
  BY <1>2 DEF on_ack
<1>3. CASE ~(~u.is_alive \/ ~u.is_uploading)
  <2>1. UP!Sound(u.ul) /\ UP!Running(u.ul)
    BY <1>3 DEF UpOK
  <2>2. v = UP!ul_handle_ack(u.ul, ack)
    BY SameUpload
  <2>3. w = [u EXCEPT !.ul = n, !.is_uploading = ~v.finished, !.out = u.out \o b]
    BY <1>1, <1>3 DEF on_ack, Ups
  <2>4. v.finished => ack >= NPKT
    BY <2>1, AckEnds
  <2>5. n = U!update_upload(u.ul, ack)
    BY DEF U!update_upload
  <2> HIDE DEF v, w
  <2>6. /\ UP!Sound(v) /\ UP!InWindow(v) /\ v.timeout_cnt <= MAX_TIMEOUT_CNT
        /\ v.finished \/ v.last_pkt_acked < NPKT
    BY <2>1, <2>2, Transport, UP!AckSound
  <2>7. n = UP!ul_send(v)
    BY SameUpload
  <2>8. /\ UP!Sound(n) /\ UP!InWindow(n) /\ n.finished = v.finished
        /\ n.timeout_cnt = v.timeout_cnt
        /\ v.last_pkt_acked < NPKT => n.last_pkt_acked < n.last_pkt_sent
    <3> HIDE DEF n
    <3> QED
      BY <2>6, <2>7, Transport, UP!SendSound
  <2> HIDE DEF n
  <2>9. ~v.finished => UP!Running(n)
    BY <2>6, <2>8 DEF UP!Running, UP!Outstanding
  <2>10. n \in UP!UploadRecords /\ v \in UP!UploadRecords
    BY <2>6, <2>8 DEF UP!Sound
  <2>11. u.out \o b \in Seq(DownMail)
    <3>1. b \in Seq(DownMail)
      BY <1>1, <2>10, Burst
    <3> HIDE DEF b
    <3> QED
      BY <3>1, <1>1
  <2> HIDE DEF b
  <2>12. w \in Ups /\ w.ul = n /\ w.is_uploading = ~v.finished
    BY <1>1, <2>3, <2>10, <2>11 DEF Ups
  <2>13. UpOK(w)
    BY <2>8, <2>9, <2>12 DEF UpOK
  <2> QED
    BY <1>3, <2>4, <2>5, <2>8, <2>12, <2>13 DEF w
<1> QED
  BY <1>2, <1>3

\* A record whose timer ran out is one that ul_send can be given.
LEMMA OnTimeoutType ==
    ASSUME NEW u, UP!Sound(u), UP!Running(u)
    PROVE  U!on_timeout(u) \in UP!UploadRecords
<1> DEFINE v == [u EXCEPT !.timeout_cnt = u.timeout_cnt + 1]
<1>1. /\ u \in UP!UploadRecords /\ UP!Ordered(u) /\ UP!Recovered(u)
      /\ u.timeout_cnt <= MAX_TIMEOUT_CNT /\ MAX_TIMEOUT_CNT \in Nat
  BY Transport DEF UP!Sound, UP!Running
<1>2. u.timeout_cnt + 1 \in 0..(MAX_TIMEOUT_CNT + 1)
  BY <1>1 DEF UP!UploadRecords
<1>3. v \in UP!UploadRecords
  BY <1>1, <1>2 DEF UP!UploadRecords
<1>4. UP!on_timeout(u) = UP!ul_loss(v)
  BY <1>1 DEF UP!on_timeout, UP!UploadRecords
<1>5. UP!Ordered(v) /\ UP!Recovered(v)
  BY <1>1 DEF UP!Ordered, UP!Recovered, UP!UploadRecords
<1> HIDE DEF v
<1>6. UP!Sound(v)
  BY <1>3, <1>5 DEF UP!Sound
<1>7. UP!Sound(UP!ul_loss(v))
  BY <1>6, Transport, UP!LossSound
<1> QED
  BY <1>4, <1>7, SameUpload DEF UP!Sound

\* check_all_timeout on an upload takes the step of Upload.
LEMMA CheckUp ==
    ASSUME NEW u, UpOK(u), u.is_uploading, NEW ca \in BOOLEAN, NEW rto \in BOOLEAN
    PROVE  LET w == on_upload_check(u, ca, rto) IN
           /\ UpOK(w)
           /\ w.ul = U!ul_check_timeout(u.ul, ca, rto)
           /\ w.is_uploading = (w.ul.timeout_cnt <= MAX_TIMEOUT_CNT)
           /\ ~w.ul.finished
<1> DEFINE w == on_upload_check(u, ca, rto)
           v == U!ca_tick(u.ul, ca)
           fires == rto /\ U!timer_armed(v)
           z == IF fires THEN U!on_timeout(v) ELSE v
           n == U!ul_check_timeout(u.ul, ca, rto)
           b == DataOf(z, u.has_index)
           o == IF fires THEN u.out \o b ELSE u.out
           e == [u EXCEPT !.ul = n, !.out = o]
<1>1. /\ u \in Ups /\ u.out \in Seq(DownMail) /\ u.has_index \in Chunks /\ u.is_uploading = TRUE
      /\ UP!Sound(u.ul) /\ UP!Running(u.ul)
  BY DEF UpOK, Ups
<1>2. ~u.ul.finished
  BY <1>1 DEF UP!Running, UP!Outstanding
<1>3. n = IF fires THEN U!ul_send(U!on_timeout(v)) ELSE v
  BY <1>2 DEF U!ul_check_timeout
<1>4. w = IF n.timeout_cnt <= MAX_TIMEOUT_CNT THEN e
          ELSE [e EXCEPT !.is_alive = FALSE, !.is_uploading = FALSE]
  <2>1. e.ul = n
    BY <1>1 DEF Ups
  <2> QED
    BY <1>1, <2>1 DEF on_upload_check, Ups
<1>5. v = UP!ca_tick(u.ul, ca)
  BY SameUpload
<1> HIDE DEF v, n, w
<1>6. UP!Sound(v) /\ UP!Running(v)
  BY <1>1, <1>5, Transport, UP!TickSound
<1>7. UP!Sound(n) /\ UP!InWindow(n) /\ UP!Outstanding(n)
  <2>1. CASE fires
    <3>1. n = UP!ul_send(UP!on_timeout(v))
      BY <1>3, <2>1, SameUpload
    <3> QED
      BY <3>1, <1>6, Transport, UP!TimeoutSound
  <2>2. CASE ~fires
    <3>1. n = v
      BY <1>3, <2>2
    <3> QED
      BY <3>1, <1>6 DEF UP!Running
  <2> QED
    BY <2>1, <2>2
<1>8. n \in UP!UploadRecords /\ ~n.finished
  BY <1>7 DEF UP!Sound, UP!Outstanding
<1>9. o \in Seq(DownMail)
  <2>1. z \in UP!UploadRecords
    BY <1>6, OnTimeoutType DEF UP!Sound
  <2> HIDE DEF z, fires
  <2>2. b \in Seq(DownMail)
    BY <2>1, <1>1, Burst
  <2> HIDE DEF b
  <2> QED
    BY <2>2, <1>1
<1> HIDE DEF o
<1>10. /\ e \in Ups /\ e.ul = n /\ e.is_uploading = TRUE
  BY <1>1, <1>8, <1>9 DEF Ups
<1> HIDE DEF e
<1>11. CASE n.timeout_cnt <= MAX_TIMEOUT_CNT
  <2>1. UP!Running(n)
    BY <1>7, <1>11 DEF UP!Running
  <2> QED
    BY <2>1, <1>4, <1>7, <1>8, <1>10, <1>11 DEF UpOK, w, n
<1>12. CASE ~(n.timeout_cnt <= MAX_TIMEOUT_CNT)
  <2>1. w \in Ups /\ w.ul = n /\ w.is_uploading = FALSE
    BY <1>4, <1>10, <1>12 DEF Ups
  <2>2. (n.timeout_cnt <= MAX_TIMEOUT_CNT) = FALSE
    BY <1>12
  <2> QED
    BY <2>1, <2>2, <1>7, <1>8 DEF UpOK, w, n
<1> QED
  BY <1>11, <1>12

\* A peer just started.
LEMMA FreshUpOK == UpOK(FreshUp) /\ FreshUp.out = <<>> /\ ~FreshUp.is_uploading
<1>1. UP!Sound(U!ul_init) /\ U!ul_init \in UP!UploadRecords
  BY Transport, SameUpload, UP!InitSound DEF UP!Sound
<1>2. 1 \in Chunks /\ <<>> \in Seq(DownMail)
  BY SessionAssumption DEF Chunks
<1>3. FreshUp \in Ups /\ FreshUp.ul = U!ul_init
  BY <1>1, <1>2 DEF FreshUp, Ups
<1> QED
  BY <1>1, <1>3 DEF UpOK, FreshUp

(***************************************************************************)
(* The steps                                                               *)
(***************************************************************************)
\* What the invariant says of the first packet of either queue.
LEMMA HeadUp ==
    ASSUME to_up \in Seq(UpMail), to_up # <<>>
    PROVE  /\ Head(to_up) = to_up[1] /\ Head(to_up) \in UpMail /\ 1 \in DOMAIN to_up
           /\ Tail(to_up) \in Seq(UpMail)
  BY HeadTailProperties

\* The kinds of packets that reach the uploading peer, each with what it holds.
LEMMA UpMailKinds ==
    ASSUME NEW m \in UpMail
    PROVE  \/ m.type = "WHOHAS" /\ m.hashes \in Seq(Chunks)
           \/ m.type = "GET" /\ m.hash \in Chunks
           \/ m.type = "ACK" /\ m.ack \in 0..NPKT
  BY DEF UpMail, Whohas, Get, Ack

\* The same for the downloading peer.
LEMMA DownMailKinds ==
    ASSUME NEW m \in DownMail
    PROVE  \/ m.type = "IHAVE" /\ m.hashes \in Seq(Chunks)
           \/ m.type = "DATA" /\ m.seq \in Nat /\ m.byte \in Chunks
  BY DEF DownMail, Ihave, Data

\* What a packet does to the uploading peer, in one of three ways.
LEMMA RecvUpCases ==
    ASSUME SsInv, RecvUp
    PROVE  /\ to_up \in Seq(UpMail) /\ to_up # <<>> /\ to_up' = Tail(to_up)
           /\ Head(to_up) \in UpMail /\ to_down \in Seq(DownMail) /\ UpOK(up)
           /\ \/ /\ Head(to_up).type = "WHOHAS" /\ Head(to_up).hashes \in Seq(Chunks)
                 /\ UpStep(on_whohas(up, Head(to_up).hashes))
              \/ /\ Head(to_up).type = "GET" /\ Head(to_up).hash \in Chunks
                 /\ UpStep(on_get(up, Head(to_up).hash))
              \/ /\ Head(to_up).type = "ACK" /\ Head(to_up).ack \in 0..NPKT
                 /\ UpStep(on_ack(up, Head(to_up).ack))
<1> DEFINE m == Head(to_up)
           r == CASE m.type = "WHOHAS" -> on_whohas(up, m.hashes)
                  [] m.type = "GET"    -> on_get(up, m.hash)
                  [] m.type = "ACK"    -> on_ack(up, m.ack)
<1>1. to_up \in Seq(UpMail) /\ to_down \in Seq(DownMail) /\ UpOK(up)
  BY DEF SsInv
<1>2. to_up # <<>> /\ to_up' = Tail(to_up) /\ UpStep(r)
  BY DEF RecvUp
<1>3. m \in UpMail
  BY <1>1, <1>2, HeadUp
<1>4. \/ m.type = "WHOHAS" /\ m.hashes \in Seq(Chunks)
      \/ m.type = "GET" /\ m.hash \in Chunks
      \/ m.type = "ACK" /\ m.ack \in 0..NPKT
  BY <1>3, UpMailKinds
<1> HIDE DEF m
<1>5. /\ m.type = "WHOHAS" => r = on_whohas(up, m.hashes)
      /\ m.type = "GET" => r = on_get(up, m.hash)
      /\ m.type = "ACK" => r = on_ack(up, m.ack)
  OBVIOUS
<1> HIDE DEF r
<1> QED
  BY <1>1, <1>2, <1>3, <1>4, <1>5 DEF m

\* A turn of the uploading peer, whatever it was about: the upload of its
\* record is where it was, or has taken a step of Upload.
LEMMA SenderSteps ==
    ASSUME SsInv, RecvUp \/ \E ca \in BOOLEAN : UploadTimeout(ca) \/ UploadTick(ca)
    PROVE  /\ to_down' \in Seq(DownMail) /\ UpOK(up') /\ up'.out = <<>>
           /\ \/ up'.ul = up.ul /\ up'.is_uploading = up.is_uploading
              \/ U!UlNext
<1>1. to_down \in Seq(DownMail) /\ UpOK(up) /\ NPKT \in Nat
  BY Transport DEF SsInv
<1>2. CASE RecvUp
  <2> DEFINE m == Head(to_up)
  <2>1. \/ m.type = "WHOHAS" /\ m.hashes \in Seq(Chunks) /\ UpStep(on_whohas(up, m.hashes))
        \/ m.type = "GET" /\ m.hash \in Chunks /\ UpStep(on_get(up, m.hash))
        \/ m.type = "ACK" /\ m.ack \in 0..NPKT /\ UpStep(on_ack(up, m.ack))
    BY <1>2, RecvUpCases
  <2> HIDE DEF m
  <2>2. ASSUME m.hashes \in Seq(Chunks), UpStep(on_whohas(up, m.hashes))
        PROVE  /\ to_down' \in Seq(DownMail) /\ UpOK(up') /\ up'.out = <<>>
               /\ up'.ul = up.ul /\ up'.is_uploading = up.is_uploading
    <3> DEFINE w == on_whohas(up, m.hashes)
    <3>1. UpOK(w) /\ w.ul = up.ul /\ w.is_uploading = up.is_uploading
      BY <1>1, <2>2, WhohasUp
    <3>2. UpStep(w)
      BY <2>2
    <3> HIDE DEF w
    <3> QED
      BY <1>1, <3>1, <3>2, UpStepOK
  <2>3. ASSUME m.hash \in Chunks, UpStep(on_get(up, m.hash))
        PROVE  /\ to_down' \in Seq(DownMail) /\ UpOK(up') /\ up'.out = <<>>
               /\ \/ up'.ul = up.ul /\ up'.is_uploading = up.is_uploading
                  \/ U!UlNext
    <3> DEFINE w == on_get(up, m.hash)
    <3>1. /\ UpOK(w)
          /\ w = up \/ (w.ul = U!ul_send(U!ul_init) /\ w.is_uploading = TRUE)
      BY <1>1, <2>3, GetUp
    <3>2. UpStep(w)
      BY <2>3
    <3> HIDE DEF w
    <3>3. /\ to_down' \in Seq(DownMail) /\ UpOK(up') /\ up'.out = <<>>
          /\ up'.ul = w.ul /\ up'.is_uploading = w.is_uploading
      BY <1>1, <3>1, <3>2, UpStepOK
    <3>4. w.ul = U!ul_send(U!ul_init) /\ w.is_uploading = TRUE => U!UlNext
      BY <3>3 DEF U!UlNext, U!StartUpload
    <3> QED
      BY <3>1, <3>3, <3>4
  <2>4. ASSUME m.ack \in 0..NPKT, UpStep(on_ack(up, m.ack))
        PROVE  /\ to_down' \in Seq(DownMail) /\ UpOK(up') /\ up'.out = <<>>
               /\ \/ up'.ul = up.ul /\ up'.is_uploading = up.is_uploading
                  \/ U!UlNext
    <3> DEFINE w == on_ack(up, m.ack)
    <3>1. m.ack \in Nat /\ m.ack \in U!AckNumbers
      BY <1>1, <2>4 DEF U!AckNumbers
    <3>2. /\ UpOK(w)
          /\ \/ w = up
             \/ /\ up.is_uploading
                /\ w.ul = U!update_upload(up.ul, m.ack) /\ w.is_uploading = ~w.ul.finished
      BY <1>1, <3>1, AckUp
    <3>3. UpStep(w)
      BY <2>4
    <3> HIDE DEF w
    <3>4. /\ to_down' \in Seq(DownMail) /\ UpOK(up') /\ up'.out = <<>>
          /\ up'.ul = w.ul /\ up'.is_uploading = w.is_uploading
      BY <1>1, <3>2, <3>3, UpStepOK
    <3>5. w # up => U!RecvAck(m.ack)
      BY <3>2, <3>4 DEF U!RecvAck
    <3> QED
      BY <3>1, <3>4, <3>5 DEF U!UlNext
  <2> QED
    BY <2>1, <2>2, <2>3, <2>4
<1>3. ASSUME NEW ca \in BOOLEAN, UploadTimeout(ca) \/ UploadTick(ca)
      PROVE  to_down' \in Seq(DownMail) /\ UpOK(up') /\ up'.out = <<>> /\ U!UlNext
  <2>1. up.is_uploading /\ \E rto \in BOOLEAN : UpStep(on_upload_check(up, ca, rto))
    BY <1>3 DEF UploadTimeout, UploadTick
  <2>2. PICK rto \in BOOLEAN : UpStep(on_upload_check(up, ca, rto))
    BY <2>1
  <2> DEFINE w == on_upload_check(up, ca, rto)
  <2>3. /\ UpOK(w) /\ w.ul = U!ul_check_timeout(up.ul, ca, rto)
        /\ w.is_uploading = (w.ul.timeout_cnt <= MAX_TIMEOUT_CNT)
    BY <1>1, <2>1, CheckUp
  <2>4. UpStep(w)
    BY <2>2
  <2> HIDE DEF w
  <2>5. /\ to_down' \in Seq(DownMail) /\ UpOK(up') /\ up'.out = <<>>
        /\ up'.ul = w.ul /\ up'.is_uploading = w.is_uploading
    BY <1>1, <2>3, <2>4, UpStepOK
  <2>6. U!CheckUpload(ca, rto)
    BY <2>1, <2>3, <2>5 DEF U!CheckUpload
  <2> QED
    BY <2>5, <2>6 DEF U!UlNext
<1> QED
  BY <1>2, <1>3

\* The downloading peer stands still while packets are taken off its way.
LEMMA StandsStill ==
    ASSUME NEW d, NEW q \in Seq(UpMail), NEW r \in Seq(UpMail), d.out = <<>>,
           DownOK(d, q), Own(d, q) => Own(d, r)
    PROVE  DownOK(d, r)
<1>1. q \o d.out = q /\ r \o d.out = r
  BY ConcatEmptySeq
<1> QED
  BY <1>1 DEF DownOK

\* A packet that the uploading peer takes, or that is lost, is the first one.
LEMMA TakenOK ==
    ASSUME to_up \in Seq(UpMail), to_up # <<>>, DownOK(down, to_up), down.out = <<>>
    PROVE  Tail(to_up) \in Seq(UpMail) /\ DownOK(down, Tail(to_up))
<1>1. Tail(to_up) \in Seq(UpMail)
  BY HeadUp
<1>2. Own(down, to_up) => Own(down, Tail(to_up))
  BY OwnTail
<1> QED
  BY <1>1, <1>2, StandsStill

\* What a packet does to the downloading peer.
LEMMA RecvDownKeeps ==
    ASSUME SsInv, RecvDown
    PROVE  SsInv'
<1> DEFINE m == Head(to_down)
<1>1. /\ to_up \in Seq(UpMail) /\ to_down \in Seq(DownMail) /\ DownOK(down, to_up)
      /\ UpOK(up) /\ up.out = <<>>
  BY DEF SsInv
<1>2. to_down # <<>> /\ to_down' = Tail(to_down) /\ up' = up
  BY DEF RecvDown
<1>3. m \in DownMail /\ Tail(to_down) \in Seq(DownMail)
  BY <1>1, <1>2, HeadTailProperties
<1>4. \/ m.type = "IHAVE" /\ m.hashes \in Seq(Chunks)
      \/ m.type = "DATA" /\ m.seq \in Nat /\ m.byte \in Chunks
  BY <1>3, DownMailKinds
<1>5. \/ m.type = "IHAVE" /\ DownStep(on_ihave(down, m.hashes))
      \/ /\ m.type = "DATA" /\ down.is_downloading
         /\ DownStep(on_data(down, DataPacket(m.seq, m.byte),
                             D!dl_recv(down.dl, DataPacket(m.seq, m.byte))))
      \/ m.type = "DATA" /\ DownStep(down)
  BY DEF RecvDown
<1> HIDE DEF m
<1>6. \E d : DownOK(d, to_up) /\ DownStep(d)
  BY <1>1, <1>4, <1>5, IhaveOK, DataOK
<1>7. to_up' \in Seq(UpMail) /\ DownOK(down', to_up') /\ down'.out = <<>>
  BY <1>1, <1>6, DownStepOK
<1> QED
  BY <1>1, <1>2, <1>3, <1>7 DEF SsInv

\* The timers of the downloading peer, and its restart.
LEMMA DownTimersKeep ==
    ASSUME SsInv, DownloadTimeout \/ WhohasAges \/ RestartDown
    PROVE  SsInv'
<1>1. /\ to_up \in Seq(UpMail) /\ to_down \in Seq(DownMail) /\ DownOK(down, to_up)
      /\ UpOK(up) /\ up.out = <<>>
  BY DEF SsInv
<1>2. up' = up /\ to_down' \in Seq(DownMail)
  <2>1. up' = up /\ (to_down' = to_down \/ to_down' = <<>>)
    BY DEF DownloadTimeout, WhohasAges, RestartDown
  <2>2. <<>> \in Seq(DownMail)
    OBVIOUS
  <2> QED
    BY <1>1, <2>1, <2>2
<1>3. \E d : DownOK(d, to_up) /\ DownStep(d)
  <2>1. CASE DownloadTimeout
    BY <1>1, <2>1, TimeoutOK DEF DownloadTimeout
  <2>2. CASE WhohasAges
    <3> DEFINE d == [down EXCEPT !.whohas_recent = FALSE]
    <3>1. DownStep(d)
      BY <2>2 DEF WhohasAges
    <3>2. down \in Downs
      BY <1>1 DEF DownOK
    <3>3. /\ d \in Downs /\ d.dl = down.dl /\ d.is_downloading = down.is_downloading
          /\ d.out = down.out
      BY <3>2 DEF Downs
    <3> HIDE DEF d
    <3>4. DownOK(d, to_up)
      BY <1>1, <3>3 DEF DownOK, Own
    <3> QED
      BY <3>1, <3>4
  <2>3. CASE RestartDown
    BY <1>1, <2>3, FreshOK DEF RestartDown
  <2> QED
    BY <2>1, <2>2, <2>3
<1>4. to_up' \in Seq(UpMail) /\ DownOK(down', to_up') /\ down'.out = <<>>
  BY <1>1, <1>3, DownStepOK
<1> QED
  BY <1>1, <1>2, <1>4 DEF SsInv

\* Every turn of the uploading peer.
LEMMA SenderKeeps ==
    ASSUME SsInv, RecvUp \/ \E ca \in BOOLEAN : UploadTimeout(ca) \/ UploadTick(ca)
    PROVE  SsInv'
<1>1. to_up \in Seq(UpMail) /\ DownOK(down, to_up) /\ down.out = <<>>
  BY DEF SsInv
<1>2. to_down' \in Seq(DownMail) /\ UpOK(up') /\ up'.out = <<>>
  BY SenderSteps
<1>3. down' = down /\ (to_up' = to_up \/ (to_up # <<>> /\ to_up' = Tail(to_up)))
  BY DEF RecvUp, UploadTimeout, UploadTick
<1>4. to_up' \in Seq(UpMail) /\ DownOK(down', to_up')
  BY <1>1, <1>3, TakenOK
<1> QED
  BY <1>1, <1>2, <1>3, <1>4 DEF SsInv

\* A lost packet, and a restart of the uploading peer: packets disappear.
LEMMA FaultsKeep ==
    ASSUME SsInv, Lose \/ RestartUp
    PROVE  SsInv'
<1>1. /\ to_up \in Seq(UpMail) /\ to_down \in Seq(DownMail) /\ DownOK(down, to_up)
      /\ down.out = <<>> /\ UpOK(up) /\ up.out = <<>>
  BY DEF SsInv
<1>2. /\ down' = down /\ up' \in {up, FreshUp}
      /\ \/ to_up' = to_up
         \/ to_up # <<>> /\ to_up' = Tail(to_up)
         \/ to_up' = <<>>
      /\ to_down' = to_down \/ (to_down # <<>> /\ to_down' = Tail(to_down))
  BY DEF Lose, RestartUp
<1>3. UpOK(up') /\ up'.out = <<>>
  BY <1>1, <1>2, FreshUpOK
<1>4. to_down' \in Seq(DownMail)
  BY <1>1, <1>2, HeadTailProperties
<1>5. to_up' \in Seq(UpMail) /\ DownOK(down', to_up')
  <2>1. CASE to_up' = to_up
    BY <2>1, <1>1, <1>2
  <2>2. CASE to_up # <<>> /\ to_up' = Tail(to_up)
    BY <2>2, <1>1, <1>2, TakenOK
  <2>3. CASE to_up' = <<>>
    <3>1. <<>> \in Seq(UpMail) /\ Own(down, <<>>)
      BY DEF Own
    <3>2. DownOK(down, <<>>)
      BY <1>1, <3>1, StandsStill
    <3> QED
      BY <2>3, <1>2, <3>1, <3>2
  <2> QED
    BY <1>2, <2>1, <2>2, <2>3
<1> QED
  BY <1>1, <1>2, <1>3, <1>4, <1>5 DEF SsInv

\* Both peers just started.
LEMMA SessionStarts == ASSUME SsInit PROVE SsInv
<1>1. /\ down = [FreshDown EXCEPT !.out = <<>>] /\ to_up = FreshDown.out
      /\ up = FreshUp /\ to_down = <<>>
  BY DEF SsInit
<1>2. <<>> \in Seq(UpMail) /\ <<>> \in Seq(DownMail)
  OBVIOUS
<1>3. DownOK(FreshDown, <<>>)
  BY <1>2, FreshOK
<1>4. FreshDown \in Downs /\ FreshDown.out \in Seq(UpMail)
  BY <1>3 DEF DownOK, Downs
<1>5. /\ down \in Downs /\ down.dl = FreshDown.dl /\ down.out = <<>>
      /\ down.is_downloading = FreshDown.is_downloading
  BY <1>1, <1>2, <1>4 DEF Downs
<1>6. to_up \o down.out = <<>> \o FreshDown.out
  BY <1>1, <1>4, <1>5, ConcatEmptySeq
<1>7. DownOK(down, to_up)
  BY <1>3, <1>5, <1>6 DEF DownOK, Own
<1> QED
  BY <1>1, <1>2, <1>4, <1>5, <1>7, FreshUpOK DEF SsInv

(***************************************************************************)
(* Theorems                                                                *)
(***************************************************************************)
\* Both peers stay in the states of their halves of the transport, every
\* packet under way is one the other can read, and every ACK that no GET
\* follows is one of the running download: SsInv holds whatever is lost and
\* whoever is killed and started again.
THEOREM SessionInvariant == SsSpec => []SsInv
<1>1. SsInit => SsInv
  BY SessionStarts
<1>2. SsInv /\ [SsNext]_ssvars => SsInv'
  <2> SUFFICES ASSUME SsInv, [SsNext]_ssvars PROVE SsInv'
    OBVIOUS
  <2>1. CASE RecvDown
    BY <2>1, RecvDownKeeps
  <2>2. CASE RecvUp
    BY <2>2, SenderKeeps
  <2>3. CASE DownloadTimeout \/ WhohasAges \/ RestartDown
    BY <2>3, DownTimersKeep
  <2>4. CASE \E ca \in BOOLEAN : UploadTimeout(ca) \/ UploadTick(ca)
    BY <2>4, SenderKeeps
  <2>5. CASE Lose \/ RestartUp
    BY <2>5, FaultsKeep
  <2>6. CASE UNCHANGED ssvars
    BY <2>6 DEF ssvars, SsInv, DownOK, UpOK, Own
  <2> QED
    BY <2>1, <2>2, <2>3, <2>4, <2>5, <2>6, Zenon DEF SsNext
<1> QED
  BY <1>1, <1>2, PTL DEF SsSpec

\* No ACK of an earlier chunk, or of a killed download, can reach the upload
\* of the chunk that is being received: the GET is behind it.
THEOREM SessionAcks == SsSpec => []AcksAreOwn
<1>1. SsInv => AcksAreOwn
  <2> SUFFICES ASSUME SsInv PROVE AcksAreOwn
    OBVIOUS
  <2>1. to_up \in Seq(UpMail) /\ down.out = <<>> /\ Own(down, to_up \o down.out)
    BY DEF SsInv, DownOK
  <2>2. to_up \o down.out = to_up
    BY <2>1, ConcatEmptySeq
  <2> QED
    BY <2>1, <2>2 DEF Own, AcksAreOwn
<1> QED
  BY <1>1, SessionInvariant, PTL

\* An upload that ends by its last ACK has delivered the chunk: the peer it
\* served has stopped waiting for it, or is about to ask again.
THEOREM SessionDelivered == SsSpec => FinishedWasReceived
<1> DEFINE Ends == up.is_uploading /\ ~up'.is_uploading /\ up'.ul.finished
           Over == \/ ~down.is_downloading
                   \/ \E i \in DOMAIN to_up : to_up[i].type = "GET"
<1>1. SsInv /\ [SsNext]_ssvars => [Ends => Over]_ssvars
  <2> SUFFICES ASSUME SsInv, SsNext, Ends PROVE Over
    OBVIOUS
  <2>1. /\ to_up \in Seq(UpMail) /\ DownOK(down, to_up) /\ UpOK(up)
        /\ to_down \in Seq(DownMail) /\ NPKT \in Nat
    BY Transport DEF SsInv
  <2>2. CASE RecvUp
    <3> DEFINE m == Head(to_up)
    <3>1. /\ to_up # <<>>
          /\ \/ /\ m.type = "WHOHAS" /\ m.hashes \in Seq(Chunks)
                /\ UpStep(on_whohas(up, m.hashes))
             \/ m.type = "GET" /\ m.hash \in Chunks /\ UpStep(on_get(up, m.hash))
             \/ m.type = "ACK" /\ m.ack \in 0..NPKT /\ UpStep(on_ack(up, m.ack))
      BY <2>2, RecvUpCases
    <3>2. m = to_up[1] /\ 1 \in DOMAIN to_up /\ Len(to_up) \in Nat /\ DOMAIN to_up = 1..Len(to_up)
      BY <2>1, <3>1, HeadUp
    <3> HIDE DEF m
    <3>3. CASE m.type = "WHOHAS" /\ m.hashes \in Seq(Chunks) /\ UpStep(on_whohas(up, m.hashes))
      <4> DEFINE w == on_whohas(up, m.hashes)
      <4>1. UpOK(w) /\ w.is_uploading = up.is_uploading
        BY <2>1, <3>3, WhohasUp
      <4>2. UpStep(w)
        BY <3>3
      <4> HIDE DEF w
      <4>3. up'.is_uploading = up.is_uploading
        BY <2>1, <4>1, <4>2, UpStepOK
      <4> QED
        BY <4>3
    <3>4. CASE m.type = "GET"
      BY <3>2, <3>4
    <3>5. CASE m.type = "ACK" /\ m.ack \in 0..NPKT /\ UpStep(on_ack(up, m.ack))
      <4> DEFINE w == on_ack(up, m.ack)
      <4>1. m.ack \in Nat
        BY <2>1, <3>5
      <4>2. /\ UpOK(w)
            /\ w = up \/ (w.ul.finished => m.ack >= NPKT)
        BY <2>1, <4>1, AckUp
      <4>3. UpStep(w)
        BY <3>5
      <4> HIDE DEF w
      <4>4. up'.ul = w.ul /\ up'.is_uploading = w.is_uploading
        BY <2>1, <4>2, <4>3, UpStepOK
      <4>5. m.ack >= NPKT
        BY <4>2, <4>4
      <4>6. to_up \o down.out = to_up
        BY <2>1, ConcatEmptySeq DEF SsInv
      <4>7. /\ Own(down, to_up)
            /\ down.is_downloading => D!ack_of(down.dl) < NPKT /\ D!ack_of(down.dl) \in Int
        BY <2>1, <4>6, AckRange DEF DownOK, Waiting
      <4>8. \/ ~down.is_downloading
            \/ \E j \in 1..Len(to_up) : to_up[j].type = "GET"
            \/ m.ack <= D!ack_of(down.dl)
        BY <3>2, <3>5, <4>7 DEF Own
      <4> QED
        BY <2>1, <3>2, <4>1, <4>5, <4>7, <4>8
    <3> QED
      BY <3>1, <3>3, <3>4, <3>5
  <2>3. CASE \E ca \in BOOLEAN : UploadTimeout(ca) \/ UploadTick(ca)
    <3>1. PICK ca \in BOOLEAN : UploadTimeout(ca) \/ UploadTick(ca)
      BY <2>3
    <3>2. \E rto \in BOOLEAN : UpStep(on_upload_check(up, ca, rto))
      BY <3>1 DEF UploadTimeout, UploadTick
    <3>3. PICK rto \in BOOLEAN : UpStep(on_upload_check(up, ca, rto))
      BY <3>2
    <3> DEFINE w == on_upload_check(up, ca, rto)
    <3>4. UpOK(w) /\ ~w.ul.finished
      BY <2>1, CheckUp
    <3>5. UpStep(w)
      BY <3>3
    <3> HIDE DEF w
    <3>6. up'.ul = w.ul
      BY <2>1, <3>4, <3>5, UpStepOK
    <3> QED
      BY <3>4, <3>6
  <2>4. CASE RestartUp
    <3>1. ~FreshUp.ul.finished
      BY DEF FreshUp, U!ul_init
    <3> QED
      BY <2>4, <3>1 DEF RestartUp
  <2>5. CASE RecvDown \/ DownloadTimeout \/ WhohasAges \/ RestartDown \/ Lose
    <3>1. up' = up
      BY <2>5 DEF RecvDown, DownloadTimeout, WhohasAges, RestartDown, Lose
    <3> QED
      BY <3>1
  <2> QED
    BY <2>2, <2>3, <2>4, <2>5, Zenon DEF SsNext
<1>2. SsSpec => [][Ends => Over]_ssvars
  BY <1>1, SessionInvariant, PTL DEF SsSpec
<1> QED
  BY <1>2 DEF FinishedWasReceived

\* The uploading peer refines Upload between restarts, whatever the peer it
\* talks to does: what UploadProofs shows of the sender holds in a session.
THEOREM SessionSender == SsSpec => SenderIsUpload
<1>1. SsInv /\ [SsNext]_ssvars => [U!UlNext \/ RestartUp]_<<up.ul, up.is_uploading>>
  <2> SUFFICES ASSUME SsInv, [SsNext]_ssvars
               PROVE  \/ U!UlNext \/ RestartUp
                      \/ up'.ul = up.ul /\ up'.is_uploading = up.is_uploading
    OBVIOUS
  <2>1. CASE RecvUp \/ \E ca \in BOOLEAN : UploadTimeout(ca) \/ UploadTick(ca)
    BY <2>1, SenderSteps
  <2>2. CASE RecvDown \/ DownloadTimeout \/ WhohasAges \/ RestartDown \/ Lose \/ UNCHANGED ssvars
    <3>1. up' = up
      BY <2>2 DEF RecvDown, DownloadTimeout, WhohasAges, RestartDown, Lose, ssvars
    <3> QED
      BY <3>1
  <2> QED
    BY <2>1, <2>2, Zenon DEF SsNext
<1> QED
  BY <1>1, SessionInvariant, PTL DEF SsSpec, SenderIsUpload
=============================================================================
