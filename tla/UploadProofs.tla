---------------------------- MODULE UploadProofs ----------------------------
(***************************************************************************)
(* Proofs about Upload, for every chunk length, threshold, duplicate-ACK   *)
(* limit and timeout limit.                                                *)
(*                                                                         *)
(* The operators of Upload work on an upload_t record, so the lemmas are   *)
(* about records: what ul_send, ul_loss, ul_handle_ack and ca_tick do to   *)
(* a Sound record.  The inductive invariant says that the record is Sound, *)
(* and, while an upload runs, that it is Running: its window is open, its  *)
(* first unacknowledged packet is out, and it is not finished.             *)
(***************************************************************************)
EXTENDS Upload, TLAPS

Sound(u) == u \in UploadRecords /\ Ordered(u) /\ Recovered(u)

\* the window's first packet has been sent and the chunk is not done
Outstanding(u) ==
    /\ ~u.finished
    /\ u.last_pkt_acked < u.last_pkt_sent

\* what ProgressKept asks of a step from u to v
Grows(u, v) ==
    /\ v.last_pkt_acked >= u.last_pkt_acked
    /\ v.max_pkt_sent >= u.max_pkt_sent

Running(u) ==
    /\ InWindow(u)
    /\ Outstanding(u)
    /\ u.timeout_cnt <= MAX_TIMEOUT_CNT

UlInv ==
    /\ Sound(ul)
    /\ is_uploading \in BOOLEAN
    /\ is_uploading => Running(ul)

-----------------------------------------------------------------------------
\* ul_init gives a record whose window is open and nothing is out yet.
LEMMA InitSound ==
    /\ Sound(ul_init) /\ InWindow(ul_init)
    /\ ~ul_init.finished /\ ul_init.timeout_cnt = 0 /\ ul_init.last_pkt_acked = 0
BY UploadAssumption, TimeoutAssumption
   DEF Sound, Ordered, Recovered, InWindow, ul_init, UploadRecords, Statuses,
       SS, CA, FR, FR_SS, FR_CA, Seqs

\* The arithmetic of the send loop: it stops between what was sent and the
\* window's end, inside the chunk.
LEMMA LimitBounds ==
    ASSUME NEW s \in 0..NPKT, NEW a \in 0..NPKT, NEW w \in Nat,
           a <= s, w >= 1, s <= a + w
    PROVE  /\ MAX(s, MIN(a + w, NPKT)) \in 0..NPKT
           /\ s <= MAX(s, MIN(a + w, NPKT))
           /\ MAX(s, MIN(a + w, NPKT)) <= a + w
           /\ a < NPKT => a < MAX(s, MIN(a + w, NPKT))
BY UploadAssumption DEF MAX, MIN

\* A prefix of the packets, extended by a burst that starts inside it, is a
\* prefix again.
LEMMA BurstExtendsPrefix ==
    ASSUME NEW m \in 0..NPKT, NEW s \in 0..NPKT, NEW l \in 0..NPKT,
           s <= m, s <= l
    PROVE  /\ MAX(m, l) \in 0..NPKT
           /\ (1..m) \cup ((s + 1)..l) = 1..MAX(m, l)
           /\ 1..MAX(m, l) \in SUBSET Seqs
<1>1. CASE m > l
  BY <1>1, UploadAssumption DEF MAX, Seqs
<1>2. CASE ~(m > l)
  <2>1. MAX(m, l) = l
    BY <1>2 DEF MAX
  <2>2. \A x \in 1..l : x \in 1..m \/ x \in (s + 1)..l
    OBVIOUS
  <2>3. 1..m \subseteq 1..l /\ (s + 1)..l \subseteq 1..l
    BY <1>2
  <2> QED
    BY <2>1, <2>2, <2>3, UploadAssumption DEF Seqs
<1> QED
  BY <1>1, <1>2

\* The types of the fields that the window arithmetic uses.
LEMMA WindowFields ==
    ASSUME NEW u, u \in UploadRecords
    PROVE  /\ u.last_pkt_acked \in 0..NPKT
           /\ u.last_pkt_sent \in 0..NPKT
           /\ u.max_pkt_sent \in 0..NPKT
           /\ u.max_retransmit_seq \in 0..NPKT
           /\ u.window_size \in Nat
           /\ u.ss_threshold \in Nat
           /\ u.timeout_cnt \in 0..(MAX_TIMEOUT_CNT + 1)
           /\ u.status \in Statuses
           /\ u.finished \in BOOLEAN
           /\ u.ack_cnt \in [0..NPKT -> Int]
BY DEF UploadRecords

\* ul_send never passes the window or the tail, and leaves the first
\* unacknowledged packet sent.
LEMMA SendSound ==
    ASSUME NEW u, Sound(u), InWindow(u)
    PROVE  /\ Sound(ul_send(u)) /\ InWindow(ul_send(u))
           /\ ul_send(u).finished = u.finished
           /\ ul_send(u).timeout_cnt = u.timeout_cnt
           /\ ul_send(u).last_pkt_acked = u.last_pkt_acked
           /\ u.last_pkt_acked < NPKT =>
                 ul_send(u).last_pkt_acked < ul_send(u).last_pkt_sent
           /\ Grows(u, ul_send(u))
           /\ ul_send(u).ss_threshold = u.ss_threshold
<1> DEFINE lim == send_limit(u)
<1>0. u \in UploadRecords /\ Ordered(u) /\ Recovered(u)
  BY DEF Sound
<1>1. /\ lim \in 0..NPKT
      /\ u.last_pkt_sent <= lim
      /\ lim <= u.last_pkt_acked + u.window_size
      /\ u.last_pkt_acked < NPKT => u.last_pkt_acked < lim
  BY <1>0, WindowFields, LimitBounds DEF send_limit, Ordered, InWindow
<1> HIDE DEF lim
<1>2. ul_send(u) = [u EXCEPT !.last_pkt_sent = lim,
                             !.max_pkt_sent = MAX(@, lim),
                             !.seq_ts = @ \cup ((u.last_pkt_sent + 1)..lim)]
  BY DEF ul_send, sent_by, lim
<1>3. /\ MAX(u.max_pkt_sent, lim) \in 0..NPKT
      /\ u.seq_ts \cup ((u.last_pkt_sent + 1)..lim) = 1..MAX(u.max_pkt_sent, lim)
      /\ 1..MAX(u.max_pkt_sent, lim) \in SUBSET Seqs
  <2>1. /\ u.max_pkt_sent \in 0..NPKT /\ u.last_pkt_sent \in 0..NPKT
        /\ u.last_pkt_sent <= u.max_pkt_sent
        /\ u.seq_ts = 1..u.max_pkt_sent
    BY <1>0, WindowFields DEF Ordered
  <2> QED
    BY <1>1, <2>1, BurstExtendsPrefix, SMTT(30)
<1>6. ul_send(u) \in UploadRecords
  BY <1>0, <1>1, <1>2, <1>3 DEF UploadRecords
<1>7. /\ ul_send(u).last_pkt_sent = lim
      /\ ul_send(u).max_pkt_sent = MAX(u.max_pkt_sent, lim)
      /\ ul_send(u).seq_ts = 1..MAX(u.max_pkt_sent, lim)
      /\ ul_send(u).last_pkt_acked = u.last_pkt_acked
      /\ ul_send(u).max_retransmit_seq = u.max_retransmit_seq
      /\ ul_send(u).window_size = u.window_size
      /\ ul_send(u).status = u.status
      /\ ul_send(u).finished = u.finished
      /\ ul_send(u).timeout_cnt = u.timeout_cnt
      /\ ul_send(u).ss_threshold = u.ss_threshold
  BY <1>0, <1>2, <1>3 DEF UploadRecords
<1>8. Ordered(ul_send(u))
  BY <1>0, <1>1, <1>7 DEF Ordered, MAX, UploadRecords
<1>9. Recovered(ul_send(u)) /\ InWindow(ul_send(u))
  BY <1>0, <1>1, <1>7 DEF Recovered, InWindow
<1>10. Grows(u, ul_send(u))
  <2>1. u.last_pkt_acked \in 0..NPKT /\ u.max_pkt_sent \in 0..NPKT
    BY <1>0, WindowFields
  <2> QED
    BY <1>1, <1>7, <2>1 DEF Grows, MAX
<1> QED
  BY <1>1, <1>6, <1>7, <1>8, <1>9, <1>10 DEF Sound

\* A loss takes last_pkt_sent back and keeps everything in order.
LEMMA LossSound ==
    ASSUME NEW u, Sound(u)
    PROVE  /\ Sound(ul_loss(u)) /\ InWindow(ul_loss(u))
           /\ ul_loss(u).finished = u.finished
           /\ ul_loss(u).timeout_cnt = u.timeout_cnt
           /\ ul_loss(u).last_pkt_acked = u.last_pkt_acked
           /\ ul_loss(u).max_pkt_sent = u.max_pkt_sent
<1>0. u \in UploadRecords /\ Ordered(u)
  BY DEF Sound
<1>1. MAX(u.window_size \div 2, 2) \in Nat
  BY <1>0 DEF MAX, UploadRecords
<1>2. ul_loss(u) \in UploadRecords
  BY <1>0, <1>1 DEF ul_loss, UploadRecords, Statuses
<1>3. /\ ul_loss(u).last_pkt_sent = u.last_pkt_acked
      /\ ul_loss(u).last_pkt_acked = u.last_pkt_acked
      /\ ul_loss(u).max_pkt_sent = u.max_pkt_sent
      /\ ul_loss(u).max_retransmit_seq = u.max_pkt_sent
      /\ ul_loss(u).seq_ts = u.seq_ts
      /\ ul_loss(u).window_size = 1
      /\ ul_loss(u).status = FR
      /\ ul_loss(u).finished = u.finished
      /\ ul_loss(u).timeout_cnt = u.timeout_cnt
  BY <1>0 DEF ul_loss, UploadRecords
<1>4. Ordered(ul_loss(u))
  BY <1>0, <1>3 DEF Ordered, UploadRecords
<1>5. Recovered(ul_loss(u))
  BY <1>3 DEF Recovered, FR, SS, CA
<1>6. InWindow(ul_loss(u))
  BY <1>0, <1>3 DEF InWindow, UploadRecords
<1> QED
  BY <1>2, <1>3, <1>4, <1>5, <1>6 DEF Sound

\* Counting an ACK touches no counter of the window.
LEMMA CountSound ==
    ASSUME NEW u, Sound(u), NEW f \in [0..NPKT -> Int]
    PROVE  LET c == [u EXCEPT !.ack_cnt = f] IN
           /\ Sound(c)
           /\ InWindow(u) => InWindow(c)
           /\ c.finished = u.finished
           /\ c.timeout_cnt = u.timeout_cnt
           /\ c.last_pkt_acked = u.last_pkt_acked
           /\ c.max_pkt_sent = u.max_pkt_sent
           /\ c.ss_threshold = u.ss_threshold
           /\ c.status = u.status
<1> DEFINE c == [u EXCEPT !.ack_cnt = f]
<1>1. u \in UploadRecords /\ Ordered(u) /\ Recovered(u)
  BY DEF Sound
<1>2. c \in UploadRecords
  BY <1>1 DEF UploadRecords
<1>3. /\ c.last_pkt_acked = u.last_pkt_acked
      /\ c.last_pkt_sent = u.last_pkt_sent
      /\ c.max_pkt_sent = u.max_pkt_sent
      /\ c.max_retransmit_seq = u.max_retransmit_seq
      /\ c.seq_ts = u.seq_ts
      /\ c.window_size = u.window_size
      /\ c.status = u.status
      /\ c.finished = u.finished
      /\ c.timeout_cnt = u.timeout_cnt
      /\ c.ss_threshold = u.ss_threshold
  BY <1>1 DEF UploadRecords
<1> QED
  BY <1>1, <1>2, <1>3 DEF Sound, Ordered, Recovered, InWindow

\* An ACK of new data opens the window at least as far as it moves it, and
\* leaves recovery only past max_retransmit_seq.
LEMMA NewDataSound ==
    ASSUME NEW u, Sound(u), InWindow(u),
           NEW ack \in 1..NPKT, ack > u.last_pkt_acked, ack <= u.max_pkt_sent
    PROVE  LET n == ack_new_data(u, ack) IN
           /\ Sound(n) /\ InWindow(n)
           /\ n.timeout_cnt = 0
           /\ n.finished \/ n.last_pkt_acked < NPKT
           /\ n.last_pkt_acked = ack /\ n.max_pkt_sent = u.max_pkt_sent
           /\ n.ss_threshold = u.ss_threshold
<1> DEFINE n == ack_new_data(u, ack)
           w == grown_window(u, ack)
           st == next_status(u, ack)
<1>1. u \in UploadRecords /\ Ordered(u) /\ Recovered(u)
  BY DEF Sound
<1>2. /\ u.last_pkt_acked \in 0..NPKT /\ u.last_pkt_sent \in 0..NPKT
      /\ u.max_pkt_sent \in 0..NPKT /\ u.max_retransmit_seq \in 0..NPKT
      /\ u.window_size \in Nat /\ u.status \in Statuses
  BY <1>1, WindowFields
<1>3. w \in Nat /\ w >= u.window_size
  BY <1>2 DEF grown_window, Statuses, SS, CA, FR, FR_SS, FR_CA
<1>4. st \in Statuses /\ (st \in {SS, CA} => ack >= u.max_retransmit_seq)
  <2>1. u.status \in {SS, CA} => ack >= u.max_retransmit_seq
    BY <1>1, <1>2 DEF Recovered
  <2> QED
    BY <1>2, <2>1 DEF next_status, Statuses, SS, CA, FR, FR_SS, FR_CA
<1>5. /\ MAX(u.last_pkt_sent, ack) \in 0..NPKT
      /\ MAX(u.last_pkt_sent, ack) >= ack
      /\ MAX(u.last_pkt_sent, ack) <= u.max_pkt_sent
      /\ MAX(u.last_pkt_sent, ack) <= ack + u.window_size
  BY <1>1, <1>2 DEF MAX, Ordered, InWindow
<1> HIDE DEF w, st
<1>6. n = [u EXCEPT !.window_size    = w,
                    !.status         = st,
                    !.last_pkt_sent  = MAX(u.last_pkt_sent, ack),
                    !.timeout_cnt    = 0,
                    !.last_pkt_acked = ack,
                    !.finished       = (ack >= NPKT)]
  BY DEF ack_new_data, w, st
<1> HIDE DEF n
<1>7. n \in UploadRecords
  <2>1. /\ 0 \in 0..(MAX_TIMEOUT_CNT + 1) /\ ack \in 0..NPKT
        /\ (ack >= NPKT) \in BOOLEAN
    BY TimeoutAssumption
  <2> QED
    BY <1>1, <1>3, <1>4, <1>5, <1>6, <2>1 DEF UploadRecords
<1>8. /\ n.window_size = w /\ n.status = st
      /\ n.last_pkt_sent = MAX(u.last_pkt_sent, ack)
      /\ n.timeout_cnt = 0 /\ n.last_pkt_acked = ack
      /\ n.finished = (ack >= NPKT)
      /\ n.max_pkt_sent = u.max_pkt_sent
      /\ n.max_retransmit_seq = u.max_retransmit_seq
      /\ n.seq_ts = u.seq_ts /\ n.ss_threshold = u.ss_threshold
  BY <1>1, <1>6 DEF UploadRecords
<1>9. Ordered(n)
  BY <1>1, <1>5, <1>8 DEF Ordered
<1>10. Recovered(n)
  BY <1>4, <1>8 DEF Recovered
<1>11. InWindow(n)
  BY <1>2, <1>3, <1>5, <1>8 DEF InWindow
<1>12. n.finished \/ n.last_pkt_acked < NPKT
  <2>1. ack >= NPKT \/ ack < NPKT
    BY UploadAssumption
  <2> QED
    BY <1>8, <2>1, Zenon
<1> QED
  BY <1>7, <1>8, <1>9, <1>10, <1>11, <1>12 DEF Sound, n

\* The ACK counter stays a number, also where MAX_DUP_SEQ makes it negative.
LEMMA CountedIsInt ==
    ASSUME NEW u, u \in UploadRecords, NEW ack \in 0..NPKT
    PROVE  counted(u, ack) \in Int
<1>1. u.ack_cnt[ack] \in Int /\ u.last_pkt_acked \in 0..NPKT /\ u.status \in Statuses
  BY WindowFields
<1>2. MAX_DUP_SEQ(u, ack) \in Int
  BY <1>1 DEF MAX_DUP_SEQ, MIN
<1> QED
  BY <1>1, <1>2 DEF counted, Statuses, SS, CA, FR, FR_SS, FR_CA

\* While a loss is repaired no ACK is counted up to another one: in FR none
\* is, in FR_SS and FR_CA the counter restarts at or below zero.
LEMMA NoLossInRecovery ==
    ASSUME NEW u, u \in UploadRecords, NEW ack \in 1..NPKT, is_dup_loss(u, ack)
    PROVE  u.status \notin {FR, FR_SS, FR_CA}
<1>1. u.status # FR /\ counted(u, ack) > MAX_DUP_ACK
  BY DEF is_dup_loss
<1>2. SUFFICES ASSUME u.status \in {FR_SS, FR_CA} PROVE FALSE
  BY <1>1
<1>3. u.last_pkt_acked \in 0..NPKT
  BY WindowFields
<1>4. MAX_DUP_SEQ(u, ack) \in Int /\ MAX_DUP_SEQ(u, ack) <= 0
  BY <1>3 DEF MAX_DUP_SEQ, MIN
<1>5. counted(u, ack) = MAX_DUP_SEQ(u, ack) + 1
  BY <1>2 DEF counted, SS, CA, FR, FR_SS, FR_CA
<1> QED
  BY <1>1, <1>4, <1>5, UploadAssumption

\* Any ACK number leaves a running upload sound, with its window open, and
\* marks it finished when nothing is left to acknowledge.
LEMMA AckSound ==
    ASSUME NEW u, Sound(u), Running(u), NEW ack \in Nat
    PROVE  LET h == ul_handle_ack(u, ack) IN
           /\ Sound(h) /\ InWindow(h)
           /\ h.timeout_cnt <= MAX_TIMEOUT_CNT
           /\ h.finished \/ h.last_pkt_acked < NPKT
           /\ Grows(u, h)
           /\ u.status \in {FR, FR_SS, FR_CA} => h.ss_threshold = u.ss_threshold
<1> DEFINE h == ul_handle_ack(u, ack)
<1>1. /\ u \in UploadRecords /\ Ordered(u) /\ Recovered(u)
      /\ InWindow(u) /\ u.finished = FALSE /\ u.last_pkt_acked < u.last_pkt_sent
      /\ u.timeout_cnt <= MAX_TIMEOUT_CNT
  <2>1. u \in UploadRecords /\ ~u.finished
    BY DEF Sound, Running, Outstanding
  <2>2. u.finished = FALSE
    BY <2>1, WindowFields
  <2> QED
    BY <2>2 DEF Sound, Running, Outstanding
<1>2. /\ u.last_pkt_acked \in 0..NPKT /\ u.last_pkt_sent \in 0..NPKT
      /\ u.max_pkt_sent \in 0..NPKT /\ u.ack_cnt \in [0..NPKT -> Int]
  BY <1>1, WindowFields
<1>3. u.last_pkt_acked < NPKT
  BY <1>1, <1>2, UploadAssumption
<1>4. CASE ack = 0
  <2>1. h = [u EXCEPT !.timeout_cnt = 0]
    BY <1>1, <1>4 DEF ul_handle_ack
  <2> HIDE DEF h
  <2>2. h \in UploadRecords
    <3>1. 0 \in 0..(MAX_TIMEOUT_CNT + 1)
      BY TimeoutAssumption
    <3> QED
      BY <1>1, <2>1, <3>1 DEF UploadRecords
  <2>3. /\ h.last_pkt_acked = u.last_pkt_acked /\ h.last_pkt_sent = u.last_pkt_sent
        /\ h.max_pkt_sent = u.max_pkt_sent /\ h.seq_ts = u.seq_ts
        /\ h.max_retransmit_seq = u.max_retransmit_seq
        /\ h.window_size = u.window_size /\ h.status = u.status
        /\ h.finished = u.finished /\ h.timeout_cnt = 0
        /\ h.ss_threshold = u.ss_threshold
    BY <1>1, <2>1 DEF UploadRecords
  <2>4. Ordered(h) /\ Recovered(h) /\ InWindow(h)
    BY <1>1, <2>3 DEF Ordered, Recovered, InWindow
  <2>5. h.timeout_cnt <= MAX_TIMEOUT_CNT
    BY <2>3, TimeoutAssumption
  <2>6. h.finished \/ h.last_pkt_acked < NPKT
    BY <1>3, <2>3
  <2>7. Grows(u, h)
    BY <1>2, <2>3 DEF Grows
  <2> QED
    BY <2>2, <2>3, <2>4, <2>5, <2>6, <2>7 DEF Sound, h
<1>5. CASE ack > 0 /\ ~valid_ack(u, ack)
  <2>1. h = u
    BY <1>1, <1>5 DEF ul_handle_ack
  <2>2. Grows(u, u)
    BY <1>2 DEF Grows
  <2> QED
    BY <1>1, <1>3, <2>1, <2>2 DEF Sound
<1>6. CASE ack > 0 /\ valid_ack(u, ack)
  <2> DEFINE f == [u.ack_cnt EXCEPT ![ack] = counted(u, ack)]
             c == [u EXCEPT !.ack_cnt = f]
             g == [f EXCEPT ![ack] = 0]
             d == [c EXCEPT !.ack_cnt = g]
  <2>1. ack \in 1..NPKT /\ u.last_pkt_acked <= ack /\ ack <= u.max_pkt_sent
    BY <1>2, <1>6, UploadAssumption DEF valid_ack
  <2>2. f \in [0..NPKT -> Int]
    <3>1. ack \in 0..NPKT
      BY <2>1
    <3> QED
      BY <1>1, <1>2, <3>1, CountedIsInt
  <2>3. g \in [0..NPKT -> Int]
    <3>1. ack \in 0..NPKT /\ 0 \in Int
      BY <2>1
    <3> HIDE DEF f
    <3> QED
      BY <2>2, <3>1
  <2>4. h = IF is_dup_loss(u, ack) THEN ul_loss(d)
            ELSE IF ack > u.last_pkt_acked THEN ack_new_data(c, ack) ELSE c
    BY <1>1, <1>6 DEF ul_handle_ack
  <2> HIDE DEF f, g, h
  <2>5. /\ Sound(c) /\ InWindow(c)
        /\ c.finished = u.finished /\ c.timeout_cnt = u.timeout_cnt
        /\ c.last_pkt_acked = u.last_pkt_acked
        /\ c.max_pkt_sent = u.max_pkt_sent
        /\ c.ss_threshold = u.ss_threshold
    BY <1>1, <2>2, CountSound
  <2>6. /\ Sound(d) /\ d.finished = c.finished /\ d.timeout_cnt = c.timeout_cnt
        /\ d.last_pkt_acked = c.last_pkt_acked /\ d.max_pkt_sent = c.max_pkt_sent
    BY <2>3, <2>5, CountSound
  <2> HIDE DEF c, d
  <2>7. CASE is_dup_loss(u, ack)
    <3>1. h = ul_loss(d)
      BY <2>4, <2>7
    <3>2. u.status \notin {FR, FR_SS, FR_CA}
      BY <1>1, <2>1, <2>7, NoLossInRecovery
    <3>3. Grows(u, h)
      BY <1>2, <2>5, <2>6, <3>1, LossSound DEF Grows
    <3> QED
      BY <1>1, <1>3, <2>5, <2>6, <3>1, <3>2, <3>3, LossSound DEF h
  <2>8. CASE ~is_dup_loss(u, ack) /\ ack > u.last_pkt_acked
    <3>1. h = ack_new_data(c, ack)
      BY <2>4, <2>8
    <3>2. ack > c.last_pkt_acked /\ ack <= c.max_pkt_sent
      BY <2>1, <2>5, <2>8
    <3>3. /\ Sound(h) /\ InWindow(h) /\ h.timeout_cnt = 0
          /\ h.finished \/ h.last_pkt_acked < NPKT
          /\ h.last_pkt_acked = ack /\ h.max_pkt_sent = c.max_pkt_sent
          /\ h.ss_threshold = c.ss_threshold
      BY <2>1, <2>5, <3>1, <3>2, NewDataSound
    <3>4. Grows(u, h)
      BY <1>2, <2>1, <2>5, <3>3 DEF Grows
    <3> QED
      BY <2>5, <3>3, <3>4, TimeoutAssumption DEF h
  <2>9. CASE ~is_dup_loss(u, ack) /\ ~(ack > u.last_pkt_acked)
    <3>1. h = c
      BY <2>4, <2>9
    <3>2. Grows(u, h)
      BY <1>2, <2>5, <3>1 DEF Grows
    <3> QED
      BY <1>1, <1>3, <2>5, <3>1, <3>2 DEF h
  <2> QED
    BY <2>7, <2>8, <2>9
<1> QED
  BY <1>4, <1>5, <1>6

\* The growth of congestion avoidance only opens the window.
LEMMA TickSound ==
    ASSUME NEW u, Sound(u), Running(u), NEW passed \in BOOLEAN
    PROVE  /\ Sound(ca_tick(u, passed)) /\ Running(ca_tick(u, passed))
           /\ Grows(u, ca_tick(u, passed))
<1> DEFINE t == ca_tick(u, passed)
           w == IF passed /\ ca_growth_due(u) THEN u.window_size + 1 ELSE u.window_size
           b == u.ca_ts \/ u.status \in {CA, FR_CA}
<1>1. u \in UploadRecords /\ Ordered(u) /\ Recovered(u) /\ InWindow(u)
  BY DEF Sound, Running
<1>2. /\ u.window_size \in Nat
      /\ u.last_pkt_acked \in 0..NPKT /\ u.last_pkt_sent \in 0..NPKT
  BY <1>1, WindowFields
<1>3. w \in Nat /\ w >= u.window_size
  BY <1>2
<1>4. b \in BOOLEAN
  OBVIOUS
<1>5. t = [u EXCEPT !.ca_ts = b, !.window_size = w]
  BY DEF ca_tick
<1> HIDE DEF t, w, b
<1>6. t \in UploadRecords
  BY <1>1, <1>3, <1>4, <1>5 DEF UploadRecords
<1>7. /\ t.last_pkt_acked = u.last_pkt_acked /\ t.last_pkt_sent = u.last_pkt_sent
      /\ t.max_pkt_sent = u.max_pkt_sent /\ t.seq_ts = u.seq_ts
      /\ t.max_retransmit_seq = u.max_retransmit_seq
      /\ t.window_size = w /\ t.status = u.status
      /\ t.finished = u.finished /\ t.timeout_cnt = u.timeout_cnt
  BY <1>1, <1>5 DEF UploadRecords
<1>8. Ordered(t) /\ Recovered(t)
  BY <1>1, <1>7 DEF Ordered, Recovered
<1>9. InWindow(t)
  BY <1>1, <1>2, <1>3, <1>7 DEF InWindow
<1>10. Outstanding(t) /\ t.timeout_cnt <= MAX_TIMEOUT_CNT
  BY <1>7 DEF Running, Outstanding
<1>11. Grows(u, t)
  <2>1. u.max_pkt_sent \in 0..NPKT
    BY <1>1, WindowFields
  <2> QED
    BY <1>2, <1>7, <2>1 DEF Grows
<1> QED
  BY <1>6, <1>8, <1>9, <1>10, <1>11 DEF Sound, Running, t

\* A timeout retransmits from a window of one; only its count can end the
\* upload.
LEMMA TimeoutSound ==
    ASSUME NEW u, Sound(u), Running(u)
    PROVE  LET r == ul_send(on_timeout(u)) IN
           /\ Sound(r) /\ InWindow(r) /\ Outstanding(r)
           /\ Grows(u, r)
<1> DEFINE v == [u EXCEPT !.timeout_cnt = @ + 1]
<1>1. /\ u \in UploadRecords /\ Ordered(u) /\ Recovered(u)
      /\ ~u.finished /\ u.last_pkt_acked < u.last_pkt_sent
      /\ u.timeout_cnt <= MAX_TIMEOUT_CNT
  BY DEF Sound, Running, Outstanding
<1>2. /\ u.last_pkt_acked \in 0..NPKT /\ u.last_pkt_sent \in 0..NPKT
      /\ u.timeout_cnt \in 0..(MAX_TIMEOUT_CNT + 1)
  BY <1>1, WindowFields
<1>3. u.timeout_cnt + 1 \in 0..(MAX_TIMEOUT_CNT + 1)
  BY <1>1, <1>2, TimeoutAssumption
<1>4. v \in UploadRecords
  BY <1>1, <1>3 DEF UploadRecords
<1>5. /\ v.last_pkt_acked = u.last_pkt_acked /\ v.last_pkt_sent = u.last_pkt_sent
      /\ v.max_pkt_sent = u.max_pkt_sent /\ v.seq_ts = u.seq_ts
      /\ v.max_retransmit_seq = u.max_retransmit_seq
      /\ v.status = u.status /\ v.finished = u.finished
  BY <1>1 DEF UploadRecords
<1>6. Sound(v)
  BY <1>1, <1>4, <1>5 DEF Sound, Ordered, Recovered
<1> HIDE DEF v
<1>7. on_timeout(u) = ul_loss(v)
  BY DEF on_timeout, v
<1>8. /\ Sound(ul_loss(v)) /\ InWindow(ul_loss(v))
      /\ ul_loss(v).finished = u.finished
      /\ ul_loss(v).last_pkt_acked = u.last_pkt_acked
      /\ ul_loss(v).max_pkt_sent = u.max_pkt_sent
  BY <1>5, <1>6, LossSound
<1>9. u.last_pkt_acked < NPKT
  BY <1>1, <1>2, UploadAssumption
<1>10. Grows(ul_loss(v), ul_send(ul_loss(v)))
  BY <1>8, SendSound
<1>11. Grows(u, ul_send(ul_loss(v)))
  BY <1>8, <1>10 DEF Grows
<1> QED
  BY <1>1, <1>7, <1>8, <1>9, <1>11, SendSound DEF Outstanding

-----------------------------------------------------------------------------
\* The three events of Upload, from a state that satisfies UlInv: each keeps
\* UlInv, and an event inside an upload loses none of its progress.
LEMMA StartKeeps ==
    ASSUME UlInv, StartUpload
    PROVE  UlInv'
<1>1. ul' = ul_send(ul_init) /\ is_uploading' = TRUE
  BY DEF StartUpload
<1>2. ul_init.last_pkt_acked < NPKT /\ 0 <= MAX_TIMEOUT_CNT
  BY InitSound, UploadAssumption, TimeoutAssumption
<1>3. /\ Sound(ul') /\ InWindow(ul')
      /\ ul'.finished = ul_init.finished
      /\ ul'.timeout_cnt = ul_init.timeout_cnt
      /\ ul'.last_pkt_acked < ul'.last_pkt_sent
  BY <1>1, <1>2, InitSound, SendSound
<1> QED
  BY <1>1, <1>2, <1>3, InitSound DEF UlInv, Running, Outstanding

\* update_upload keeps the invariant; an ACK in recovery leaves the threshold.
LEMMA AckKeeps ==
    ASSUME UlInv, NEW ack \in AckNumbers, RecvAck(ack)
    PROVE  /\ UlInv'
           /\ Grows(ul, ul')
           /\ ul.status \in {FR, FR_SS, FR_CA} => ul'.ss_threshold = ul.ss_threshold
<1> DEFINE h == ul_handle_ack(ul, ack)
<1>1. Sound(ul) /\ Running(ul)
  BY DEF UlInv, RecvAck
<1>2. ack \in Nat
  BY UploadAssumption DEF AckNumbers
<1>3. /\ Sound(h) /\ InWindow(h) /\ h.timeout_cnt <= MAX_TIMEOUT_CNT
      /\ h.finished \/ h.last_pkt_acked < NPKT
      /\ Grows(ul, h)
      /\ ul.status \in {FR, FR_SS, FR_CA} => h.ss_threshold = ul.ss_threshold
  BY <1>1, <1>2, AckSound
<1>4. ul' = ul_send(h) /\ is_uploading' = ~ul'.finished
  BY DEF RecvAck, update_upload
<1> HIDE DEF h
<1>5. /\ Sound(ul') /\ InWindow(ul')
      /\ ul'.finished = h.finished /\ ul'.timeout_cnt = h.timeout_cnt
      /\ h.last_pkt_acked < NPKT => ul'.last_pkt_acked < ul'.last_pkt_sent
      /\ Grows(h, ul') /\ ul'.ss_threshold = h.ss_threshold
  BY <1>3, <1>4, SendSound
<1>6. ul'.finished \in BOOLEAN
  BY <1>5, WindowFields DEF Sound
<1>7. UlInv'
  BY <1>3, <1>4, <1>5, <1>6 DEF UlInv, Running, Outstanding
<1>8. Grows(ul, ul')
  <2>1. /\ ul \in UploadRecords /\ h \in UploadRecords /\ ul' \in UploadRecords
    BY <1>1, <1>3, <1>5 DEF Sound
  <2>2. /\ ul.last_pkt_acked \in 0..NPKT /\ ul.max_pkt_sent \in 0..NPKT
        /\ h.last_pkt_acked \in 0..NPKT /\ h.max_pkt_sent \in 0..NPKT
        /\ ul'.last_pkt_acked \in 0..NPKT /\ ul'.max_pkt_sent \in 0..NPKT
    BY <2>1, WindowFields
  <2> QED
    BY <1>3, <1>5, <2>2 DEF Grows
<1> QED
  BY <1>3, <1>5, <1>7, <1>8

\* ul_check_timeout and the abort after it keep the invariant.
LEMMA CheckKeeps ==
    ASSUME UlInv, NEW ca \in BOOLEAN, NEW rto \in BOOLEAN, CheckUpload(ca, rto)
    PROVE  UlInv' /\ Grows(ul, ul')
<1> DEFINE v == ca_tick(ul, ca)
<1>1. Sound(ul) /\ Running(ul) /\ ~ul.finished
  BY DEF UlInv, CheckUpload, Running, Outstanding
<1>2. Sound(v) /\ Running(v) /\ Grows(ul, v)
  BY <1>1, TickSound
<1>3. /\ ul' = IF rto /\ timer_armed(v) THEN ul_send(on_timeout(v)) ELSE v
      /\ is_uploading' = (ul'.timeout_cnt <= MAX_TIMEOUT_CNT)
  BY <1>1 DEF CheckUpload, ul_check_timeout
<1> HIDE DEF v
<1>4. Sound(ul') /\ InWindow(ul') /\ Outstanding(ul') /\ Grows(v, ul')
  <2>1. CASE rto /\ timer_armed(v)
    BY <1>2, <1>3, <2>1, TimeoutSound
  <2>2. CASE ~(rto /\ timer_armed(v))
    <3>1. ul' = v
      BY <1>3, <2>2
    <3>2. v.last_pkt_acked \in 0..NPKT /\ v.max_pkt_sent \in 0..NPKT
      BY <1>2, WindowFields DEF Sound
    <3>3. Grows(v, v)
      BY <3>2 DEF Grows
    <3> QED
      BY <1>2, <3>1, <3>3 DEF Running
  <2> QED
    BY <2>1, <2>2
<1>5. UlInv'
  <2>1. is_uploading' \in BOOLEAN
    BY <1>3
  <2> QED
    BY <1>3, <1>4, <2>1 DEF UlInv, Running
<1>6. Grows(ul, ul')
  <2>1. /\ ul \in UploadRecords /\ v \in UploadRecords /\ ul' \in UploadRecords
    BY <1>1, <1>2, <1>4 DEF Sound
  <2>2. /\ ul.last_pkt_acked \in 0..NPKT /\ ul.max_pkt_sent \in 0..NPKT
        /\ v.last_pkt_acked \in 0..NPKT /\ v.max_pkt_sent \in 0..NPKT
        /\ ul'.last_pkt_acked \in 0..NPKT /\ ul'.max_pkt_sent \in 0..NPKT
    BY <2>1, WindowFields
  <2> QED
    BY <1>2, <1>4, <2>2 DEF Grows
<1> QED
  BY <1>5, <1>6

-----------------------------------------------------------------------------
\* The zeroed upload_t that a peer starts with satisfies UlInv.
LEMMA UlInitInv ==
    ASSUME UlInit PROVE UlInv
<1>1. ul = [ul_init EXCEPT !.window_size = 0, !.ss_threshold = 0] /\ is_uploading = FALSE
  BY DEF UlInit
<1>2. Sound(ul)
  <2>1. ul_init \in UploadRecords /\ Ordered(ul_init) /\ Recovered(ul_init)
    BY InitSound DEF Sound
  <2>2. ul \in UploadRecords
    BY <1>1, <2>1 DEF UploadRecords
  <2>3. /\ ul.last_pkt_acked = ul_init.last_pkt_acked
        /\ ul.last_pkt_sent = ul_init.last_pkt_sent
        /\ ul.max_pkt_sent = ul_init.max_pkt_sent
        /\ ul.max_retransmit_seq = ul_init.max_retransmit_seq
        /\ ul.seq_ts = ul_init.seq_ts /\ ul.status = ul_init.status
    BY <1>1, <2>1 DEF UploadRecords
  <2> QED
    BY <2>1, <2>2, <2>3 DEF Sound, Ordered, Recovered
<1> QED
  BY <1>1, <1>2 DEF UlInv

\* UlInv is inductive: it holds of the zeroed upload_t a peer starts with and
\* every GET, ACK and timer check keeps it.
THEOREM UploadInvariant == UlSpec => []UlInv
<1>1. UlInit => UlInv
  BY UlInitInv
<1>2. UlInv /\ [UlNext]_ulvars => UlInv'
  <2> SUFFICES ASSUME UlInv, [UlNext]_ulvars PROVE UlInv'
    OBVIOUS
  <2>1. CASE StartUpload
    BY <2>1, StartKeeps
  <2>2. ASSUME NEW ack \in AckNumbers, RecvAck(ack) PROVE UlInv'
    BY <2>2, AckKeeps
  <2>3. ASSUME NEW ca \in BOOLEAN, NEW rto \in BOOLEAN, CheckUpload(ca, rto)
        PROVE  UlInv'
    BY <2>3, CheckKeeps
  <2>4. CASE UNCHANGED ulvars
    BY <2>4 DEF ulvars, UlInv, Sound, Running, Ordered, Recovered, InWindow, Outstanding
  <2> QED
    BY <2>1, <2>2, <2>3, <2>4 DEF UlNext
<1> QED
  BY <1>1, <1>2, PTL DEF UlSpec

\* upload_t keeps its types, and its counters stay inside the arrays
\* ack_cnt[] and seq_ts[], for any chunk length and any ACK numbers.
THEOREM UploadTypes == UlSpec => []UlTypeOK
<1>1. UlInv => UlTypeOK
  BY DEF UlInv, Sound, UlTypeOK
<1> QED
  BY <1>1, UploadInvariant, PTL

\* The counters of the window keep their order and every packet sent has
\* its timestamp: ul_handle_ack never computes an RTT from an unset entry.
THEOREM UploadOrdered == UlSpec => []SeqsOrdered
<1>1. UlInv => SeqsOrdered
  BY DEF UlInv, Sound, SeqsOrdered
<1> QED
  BY <1>1, UploadInvariant, PTL

\* A running upload always has a timer on its first unacknowledged packet,
\* so ul_check_timeout can never wait on an entry that was not set.
THEOREM UploadTimerArmed == UlSpec => []TimerArmed
<1>1. UlInv => TimerArmed
  <2> SUFFICES ASSUME UlInv, is_uploading PROVE timer_armed(ul)
    BY DEF TimerArmed
  <2>1. /\ ul \in UploadRecords /\ Ordered(ul) /\ ul.last_pkt_acked < ul.last_pkt_sent
    BY DEF UlInv, Sound, Running, Outstanding
  <2>2. /\ ul.last_pkt_acked \in 0..NPKT /\ ul.last_pkt_sent \in 0..NPKT
        /\ ul.max_pkt_sent \in 0..NPKT
    BY <2>1, WindowFields
  <2>3. ul.last_pkt_acked + 1 \in 1..ul.max_pkt_sent
    BY <2>1, <2>2, UploadAssumption DEF Ordered
  <2> QED
    BY <2>1, <2>3 DEF timer_armed, Ordered
<1> QED
  BY <1>1, UploadInvariant, PTL

\* ul_send never runs ahead of the congestion window.
THEOREM UploadWindow == UlSpec => []WindowRespected
<1>1. UlInv => WindowRespected
  BY DEF UlInv, Running, WindowRespected
<1> QED
  BY <1>1, UploadInvariant, PTL

\* Recovery ends only when everything sent before the loss is acknowledged.
THEOREM UploadRecovery == UlSpec => []RecoveryComplete
<1>1. UlInv => RecoveryComplete
  BY DEF UlInv, Sound, RecoveryComplete
<1> QED
  BY <1>1, UploadInvariant, PTL

\* No loss and no timeout takes acknowledged data or max_pkt_sent back.
THEOREM UploadProgress == UlSpec => ProgressKept
<1>1. UlInv /\ [UlNext]_ulvars =>
        [\/ StartUpload
         \/ /\ ul'.last_pkt_acked >= ul.last_pkt_acked
            /\ ul'.max_pkt_sent >= ul.max_pkt_sent]_ulvars
  <2> SUFFICES ASSUME UlInv, UlNext
               PROVE  StartUpload \/ Grows(ul, ul')
    BY DEF Grows
  <2>1. ASSUME NEW ack \in AckNumbers, RecvAck(ack) PROVE Grows(ul, ul')
    BY <2>1, AckKeeps
  <2>2. ASSUME NEW ca \in BOOLEAN, NEW rto \in BOOLEAN, CheckUpload(ca, rto)
        PROVE  Grows(ul, ul')
    BY <2>2, CheckKeeps
  <2> QED
    BY <2>1, <2>2 DEF UlNext
<1> QED
  BY <1>1, UploadInvariant, PTL DEF UlSpec, ProgressKept

\* The duplicate ACKs of a loss cut the threshold once.
THEOREM UploadCutsOnce == UlSpec => DupAcksCutOnce
<1>1. UlInv =>
        [\A ack \in AckNumbers :
            RecvAck(ack) /\ ul.status \in {FR, FR_SS, FR_CA}
            => ul'.ss_threshold = ul.ss_threshold]_ulvars
  BY AckKeeps
<1> QED
  BY <1>1, UploadInvariant, PTL DEF UlSpec, DupAcksCutOnce
=============================================================================
