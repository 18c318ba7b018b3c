--------------------------- MODULE DownloadProofs ---------------------------
(***************************************************************************)
(* Proofs about RecvWin and Download, for every window size, chunk length  *)
(* and packet length.                                                      *)
(*                                                                         *)
(* First the receive window by itself: what recvwin_mark and               *)
(* recvwin_slideack do to the set of packets a window stands for, through  *)
(* the wrap of the ring.  Then download_t: get_ack leaves it Settled, its  *)
(* ACK in agreement with the window and the window at a gap, and dl_recv   *)
(* and dl_check_timeout keep it so, which gives the types and the          *)
(* refinement of Reassembly.  Last, the bytes in the buffer.               *)
(***************************************************************************)
EXTENDS Download, NatFacts

\* The bit of the i-th number of the window: once round the ring at most.
LEMMA BitOf ==
    ASSUME NEW r \in RecvWins, NEW i \in 0..RECV_WINDOW_SIZE
    PROVE  /\ SEQ_IN_WIN(r, r.next_seq + i) \in BitIndices
           /\ SEQ_IN_WIN(r, r.next_seq + i) =
                 IF r.front + i < RECV_WINDOW_SIZE THEN r.front + i
                 ELSE r.front + i - RECV_WINDOW_SIZE
<1> DEFINE N == RECV_WINDOW_SIZE
<1>1. N \in Nat \ {0}
  BY RecvWinAssumption
<1>2. r.front \in 0..(N - 1) /\ r.next_seq \in Nat \ {0}
  BY DEF RecvWins, BitIndices
<1>3. r.front + i \in 0..(2 * N - 1)
  BY <1>1, <1>2
<1>4. PICK x \in 0..(2 * N - 1) : x = r.front + i
  BY <1>3
<1>5. r.next_seq + i - r.next_seq + r.front = x
  BY <1>1, <1>2, <1>4
<1>6. SEQ_IN_WIN(r, r.next_seq + i) = x % N
  BY <1>1, <1>2, <1>4, <1>5 DEF SEQ_IN_WIN
<1>7. x % N = IF x < N THEN x ELSE x - N
  BY <1>1, RingIndex
<1> QED
  BY <1>1, <1>2, <1>4, <1>6, <1>7 DEF BitIndices

\* The run that recvwin_slideack counts exists, and ends at the first gap.
LEMMA RunLength ==
    ASSUME NEW r \in RecvWins
    PROVE  /\ run_length(r) \in 0..RECV_WINDOW_SIZE
           /\ \A i \in 0..(run_length(r) - 1) : seq_exist_in(r, r.next_seq + i)
           /\ run_length(r) < RECV_WINDOW_SIZE =>
                 ~seq_exist_in(r, r.next_seq + run_length(r))
<1> DEFINE N == RECV_WINDOW_SIZE
           Gaps == {i \in 0..N : i = N \/ ~seq_exist_in(r, r.next_seq + i)}
           Run(size) == /\ \A i \in 0..(size - 1) : seq_exist_in(r, r.next_seq + i)
                        /\ size < N => ~seq_exist_in(r, r.next_seq + size)
<1>1. N \in Nat \ {0}
  BY RecvWinAssumption
<1>2. Gaps \subseteq Nat /\ N \in Gaps
  BY <1>1
<1>3. PICK x \in Gaps : \A y \in Gaps : x <= y
  <2> HIDE DEF Gaps
  <2> QED
    BY <1>2, LeastElement
<1>4. x \in 0..N
  BY <1>3
<1>5. ASSUME NEW i \in 0..(x - 1) PROVE seq_exist_in(r, r.next_seq + i)
  <2>1. i \in 0..N /\ ~(x <= i)
    BY <1>1, <1>4, <1>5
  <2> QED
    BY <2>1, <1>3
<1>6. x < N => ~seq_exist_in(r, r.next_seq + x)
  <2>1. x = N \/ ~seq_exist_in(r, r.next_seq + x)
    BY <1>3
  <2> QED
    BY <2>1, <1>1, <1>4
<1>7. \E size \in 0..N : Run(size)
  BY <1>4, <1>5, <1>6
<1>8. run_length(r) = CHOOSE size \in 0..N : Run(size)
  BY DEF run_length
<1>9. run_length(r) \in 0..N /\ Run(run_length(r))
  <2> HIDE DEF Run
  <2> QED
    BY <1>7, <1>8
<1> QED
  BY <1>9

\* The members of the set that a window stands for.
LEMMA Members ==
    ASSUME NEW r \in RecvWins, NEW s \in Int
    PROVE  s \in received(r) <=>
              \/ s \in 1..(r.next_seq - 1)
              \/ seq_fit_in(r, s) /\ seq_exist_in(r, s)
<1>1. RECV_WINDOW_SIZE \in Nat \ {0} /\ r.next_seq \in Nat \ {0}
  BY RecvWinAssumption DEF RecvWins
<1> QED
  BY <1>1 DEF received, seq_fit_in

\* recvwin_mark adds the one packet.
LEMMA MarkSound ==
    ASSUME NEW r \in RecvWins, NEW s \in Int, seq_fit_in(r, s)
    PROVE  /\ recvwin_mark(r, s) \in RecvWins
           /\ recvwin_mark(r, s).next_seq = r.next_seq
           /\ received(recvwin_mark(r, s)) = received(r) \cup {s}
           /\ \A t \in Int : seq_fit_in(r, t) =>
                 (seq_exist_in(recvwin_mark(r, s), t) <=> t = s \/ seq_exist_in(r, t))
<1> DEFINE N == RECV_WINDOW_SIZE
           m == recvwin_mark(r, s)
<1>1. N \in Nat \ {0}
  BY RecvWinAssumption
<1>2. r.front \in 0..(N - 1) /\ r.next_seq \in Nat \ {0} /\ r.bm \subseteq BitIndices
  BY DEF RecvWins, BitIndices
<1>3. ASSUME NEW t \in Int, seq_fit_in(r, t)
      PROVE  /\ SEQ_IN_WIN(r, t) \in BitIndices
             /\ SEQ_IN_WIN(r, t) = IF r.front + (t - r.next_seq) < N
                                   THEN r.front + (t - r.next_seq)
                                   ELSE r.front + (t - r.next_seq) - N
  <2>1. t - r.next_seq \in 0..N /\ r.next_seq + (t - r.next_seq) = t
    BY <1>1, <1>2, <1>3 DEF seq_fit_in
  <2> QED
    BY <2>1, BitOf
<1>4. /\ m \in RecvWins /\ m.next_seq = r.next_seq /\ m.front = r.front
      /\ m.bm = r.bm \cup {SEQ_IN_WIN(r, s)}
  BY <1>3 DEF recvwin_mark, RecvWins
<1>5. ASSUME NEW t \in Int, seq_fit_in(r, t)
      PROVE  seq_exist_in(m, t) <=> t = s \/ seq_exist_in(r, t)
  <2>1. SEQ_IN_WIN(m, t) = SEQ_IN_WIN(r, t)
    BY <1>4 DEF SEQ_IN_WIN
  <2>2. SEQ_IN_WIN(r, t) = SEQ_IN_WIN(r, s) <=> t = s
    <3>1. t - r.next_seq \in 0..(N - 1) /\ s - r.next_seq \in 0..(N - 1)
      BY <1>1, <1>2, <1>5 DEF seq_fit_in
    <3>2. /\ SEQ_IN_WIN(r, t) = IF r.front + (t - r.next_seq) < N
                                   THEN r.front + (t - r.next_seq)
                                   ELSE r.front + (t - r.next_seq) - N
          /\ SEQ_IN_WIN(r, s) = IF r.front + (s - r.next_seq) < N
                                   THEN r.front + (s - r.next_seq)
                                   ELSE r.front + (s - r.next_seq) - N
      BY <1>3, <1>5
    <3> QED
      BY <3>1, <3>2, <1>1, <1>2
  <2> QED
    BY <2>1, <2>2, <1>4 DEF seq_exist_in
<1>6. ASSUME NEW t \in Int PROVE t \in received(m) <=> t \in received(r) \cup {s}
  <2>1. seq_fit_in(m, t) <=> seq_fit_in(r, t)
    BY <1>4 DEF seq_fit_in
  <2> QED
    BY <2>1, <1>4, <1>5, Members
<1>7. received(m) \subseteq Int /\ received(r) \subseteq Int
  BY <1>1, <1>2, <1>4 DEF received
<1> QED
  BY <1>4, <1>5, <1>6, <1>7

\* recvwin_slideack moves the window over the run: it forgets no packet,
\* invents none out of a bit of the round before, and stops at a gap.
LEMMA SlideSound ==
    ASSUME NEW r \in RecvWins
    PROVE  /\ recvwin_slideack(r) \in RecvWins
           /\ recvwin_slideack(r).next_seq \in r.next_seq..(r.next_seq + RECV_WINDOW_SIZE)
           /\ received(recvwin_slideack(r)) = received(r)
           /\ recvwin_slideack(r).next_seq \notin received(r)
<1> DEFINE N == RECV_WINDOW_SIZE
           k == run_length(r)
           n == recvwin_slideack(r)
           Slid == {SEQ_IN_WIN(r, r.next_seq + i) : i \in 0..(k - 1)}
           Ring(x) == IF x < N THEN x ELSE x - N
<1>1. N \in Nat \ {0}
  BY RecvWinAssumption
<1>2. /\ r.front \in 0..(N - 1) /\ r.next_seq \in Nat \ {0}
      /\ r.bm \subseteq BitIndices /\ r.front \in Nat
  BY <1>1 DEF RecvWins, BitIndices
<1>3. k \in 0..N
  BY RunLength
<1>4. ASSUME NEW i \in 0..N
      PROVE  /\ SEQ_IN_WIN(r, r.next_seq + i) = Ring(r.front + i)
             /\ SEQ_IN_WIN(r, r.next_seq + i) \in BitIndices
  BY <1>1, <1>2, BitOf
<1>5. /\ n.bm = r.bm \ Slid
      /\ n.front = Ring(r.front + k) /\ n.front \in BitIndices
      /\ n.next_seq = r.next_seq + k
      /\ n = [bm |-> n.bm, front |-> n.front, next_seq |-> n.next_seq]
  <2>1. n = [bm |-> r.bm \ Slid, front |-> SEQ_IN_WIN(r, r.next_seq + k),
             next_seq |-> r.next_seq + k]
    BY DEF recvwin_slideack
  <2>2. SEQ_IN_WIN(r, r.next_seq + k) = Ring(r.front + k) /\ SEQ_IN_WIN(r, r.next_seq + k) \in BitIndices
    BY <1>3, <1>4
  <2> HIDE DEF n, k, Slid, Ring
  <2> QED
    BY <2>1, <2>2
<1>6. n \in RecvWins
  <2>1. n.next_seq \in Nat \ {0}
    BY <1>1, <1>2, <1>3, <1>5
  <2>2. n.bm \in SUBSET BitIndices
    BY <1>2, <1>5
  <2> QED
    BY <2>1, <2>2, <1>5 DEF RecvWins
<1>7. ASSUME NEW i \in 0..(N - 1)
      PROVE  Ring(r.front + i) \in Slid <=> i < k
  <2>1. CASE i < k
    <3>1. i \in 0..(k - 1) /\ i \in 0..N
      BY <1>1, <1>3, <2>1
    <3> QED
      BY <3>1, <2>1, <1>4
  <2>2. CASE ~(i < k)
    <3>1. ASSUME NEW j \in 0..(k - 1) PROVE SEQ_IN_WIN(r, r.next_seq + j) # Ring(r.front + i)
      <4>1. j \in 0..N /\ j < i /\ i < N
        BY <1>1, <1>3, <2>2
      <4>2. SEQ_IN_WIN(r, r.next_seq + j) = Ring(r.front + j)
        BY <4>1, <1>4
      <4> QED
        BY <4>1, <4>2, <1>1, <1>2
    <3> QED
      BY <3>1, <2>2
  <2> QED
    BY <2>1, <2>2
<1>8. ASSUME NEW j \in 0..(N - 1)
      PROVE  seq_exist_in(n, n.next_seq + j) <=>
                k + j < N /\ seq_exist_in(r, r.next_seq + (k + j))
  <2>1. SEQ_IN_WIN(n, n.next_seq + j) = Ring(n.front + j)
    <3>1. j \in 0..N /\ n.front \in Nat /\ n.next_seq \in Nat
      BY <1>1, <1>2, <1>3, <1>5 DEF BitIndices
    <3> HIDE DEF n
    <3> QED
      BY <3>1, <1>1, <1>6, BitOf
  <2>2. CASE k + j < N
    <3>1. k + j \in 0..(N - 1) /\ k + j \in 0..N /\ ~(k + j < k)
      BY <1>1, <1>3, <2>2
    <3>2. Ring(n.front + j) = Ring(r.front + (k + j))
      BY <1>1, <1>2, <1>3, <1>5, <2>2
    <3>3. SEQ_IN_WIN(r, r.next_seq + (k + j)) = Ring(r.front + (k + j))
      BY <3>1, <1>4
    <3>4. Ring(r.front + (k + j)) \notin Slid
      BY <3>1, <1>7
    <3> QED
      BY <2>1, <2>2, <3>2, <3>3, <3>4, <1>5 DEF seq_exist_in
  <2>3. CASE ~(k + j < N)
    <3>1. k + j - N \in 0..(N - 1) /\ k + j - N < k
      BY <1>1, <1>3, <2>3
    <3>2. Ring(n.front + j) = Ring(r.front + (k + j - N))
      BY <1>1, <1>2, <1>3, <1>5, <2>3
    <3>3. Ring(r.front + (k + j - N)) \in Slid
      BY <3>1, <1>7
    <3> QED
      BY <2>1, <2>3, <3>2, <3>3, <1>5 DEF seq_exist_in
  <2> QED
    BY <2>2, <2>3
<1>9. ASSUME NEW s \in Int PROVE s \in received(n) <=> s \in received(r)
  <2>1. CASE s < r.next_seq
    BY <2>1, <1>1, <1>2, <1>3, <1>5, <1>6, Members DEF seq_fit_in
  <2>2. CASE s \in r.next_seq..(r.next_seq + k - 1)
    <3>1. s - r.next_seq \in 0..(k - 1) /\ r.next_seq + (s - r.next_seq) = s
      BY <2>2, <1>2, <1>3
    <3>2. seq_exist_in(r, s)
      BY <3>1, RunLength
    <3>3. s \in received(r)
      BY <3>2, <2>2, <1>1, <1>2, <1>3, Members DEF seq_fit_in
    <3>4. s \in received(n)
      BY <2>2, <1>1, <1>2, <1>3, <1>5, <1>6, Members
    <3> QED
      BY <3>3, <3>4
  <2>3. CASE s \in (r.next_seq + k)..(r.next_seq + k + N - 1)
    <3>1. /\ s - r.next_seq - k \in 0..(N - 1)
          /\ n.next_seq + (s - r.next_seq - k) = s
          /\ k + (s - r.next_seq - k) = s - r.next_seq
          /\ r.next_seq + (k + (s - r.next_seq - k)) = s
      BY <2>3, <1>1, <1>2, <1>3, <1>5
    <3>2. seq_exist_in(n, s) <=> s - r.next_seq < N /\ seq_exist_in(r, s)
      BY <3>1, <1>8
    <3>3. seq_fit_in(n, s) /\ (seq_fit_in(r, s) <=> s - r.next_seq < N)
      BY <2>3, <1>1, <1>2, <1>3, <1>5 DEF seq_fit_in
    <3>4. s \notin 1..(r.next_seq - 1) /\ s \notin 1..(n.next_seq - 1)
      BY <2>3, <1>1, <1>2, <1>3, <1>5
    <3> QED
      BY <3>2, <3>3, <3>4, <1>6, Members
  <2>4. CASE s >= r.next_seq + k + N
    BY <2>4, <1>1, <1>2, <1>3, <1>5, <1>6, Members DEF seq_fit_in
  <2> QED
    BY <2>1, <2>2, <2>3, <2>4, <1>1, <1>2, <1>3
<1>10. received(n) = received(r)
  <2>1. received(n) \subseteq Int /\ received(r) \subseteq Int
    BY <1>1, <1>2, <1>3, <1>5 DEF received
  <2> QED
    BY <2>1, <1>9
<1>11. n.next_seq \notin received(r)
  <2>1. 0 \in 0..(N - 1) /\ n.next_seq + 0 = n.next_seq /\ k + 0 = k
    BY <1>1, <1>2, <1>3, <1>5
  <2>2. ~seq_exist_in(n, n.next_seq)
    BY <2>1, <1>8, RunLength
  <2>3. n.next_seq \notin 1..(n.next_seq - 1) /\ n.next_seq \in Int
    BY <1>2, <1>3, <1>5
  <2> QED
    BY <2>2, <2>3, <1>6, <1>10, Members
<1>12. n.next_seq \in r.next_seq..(r.next_seq + N)
  BY <1>1, <1>2, <1>3, <1>5
<1> QED
  BY <1>6, <1>10, <1>11, <1>12

\* A window whose first packet is missing does not move.
LEMMA SlideStays ==
    ASSUME NEW r \in RecvWins, r.next_seq \notin received(r)
    PROVE  recvwin_slideack(r) = r
<1> DEFINE N == RECV_WINDOW_SIZE
<1>1. N \in Nat \ {0} /\ r.front \in 0..(N - 1) /\ r.next_seq \in Nat \ {0}
  BY RecvWinAssumption DEF RecvWins, BitIndices
<1>2. ~seq_exist_in(r, r.next_seq)
  BY <1>1, Members DEF seq_fit_in
<1>3. r.next_seq + 0 = r.next_seq
  BY <1>1
<1>4. run_length(r) = 0
  <2>1. run_length(r) \in 0..N /\ ~(0 \in 0..(run_length(r) - 1))
    BY <1>2, <1>3, RunLength
  <2> QED
    BY <2>1, <1>1
<1>5. SEQ_IN_WIN(r, r.next_seq + 0) = r.front
  <2>1. 0 \in 0..N /\ r.front + 0 = r.front /\ r.front < N
    BY <1>1
  <2> QED
    BY <2>1, BitOf
<1>6. {SEQ_IN_WIN(r, r.next_seq + i) : i \in 0..(0 - 1)} = {}
  OBVIOUS
<1>7. recvwin_slideack(r) = [bm |-> r.bm, front |-> r.front, next_seq |-> r.next_seq]
  BY <1>3, <1>4, <1>5, <1>6 DEF recvwin_slideack
<1> QED
  BY <1>7 DEF RecvWins

(***************************************************************************)
(* download_t: what every operation on it keeps, whatever bytes arrive.    *)
(***************************************************************************)
Downloads ==
    [ next_pkt_expected : Nat \ {0}, rwin : RecvWins,
      timeout_cnt : 0..(MAX_TIMEOUT_CNT + 1),
      started : BOOLEAN, block_update : BOOLEAN, finished : BOOLEAN,
      data_length : 0..PAYLOAD, buffer : [Offsets -> Int] ]

\* the ACK and the window agree, and the window stands at a gap
Settled(d) ==
    /\ d \in Downloads
    /\ d.next_pkt_expected = d.rwin.next_seq
    /\ d.rwin.next_seq \notin received(d.rwin)

IsPacket(pkt) ==
    /\ pkt.seq \in Nat /\ pkt.len \in 1..PAYLOAD
    /\ \A i \in 0..(pkt.len - 1) : pkt.data[i] \in Int

\* all bytes of the packet are in B
Carries(pkt, B) == \A i \in 0..(pkt.len - 1) : pkt.data[i] \in B

\* The packets of the chunk start inside it.
LEMMA PacketBase ==
    /\ TailSeq \in Nat \ {0}
    /\ \A s \in 1..TailSeq : (s - 1) * PAYLOAD \in 0..(BT_CHUNK_SIZE - 1)
<1>1. BT_CHUNK_SIZE \in Nat \ {0} /\ PAYLOAD \in Nat \ {0} /\ PAYLOAD <= BT_CHUNK_SIZE
  BY DownloadAssumption
<1>2. PICK b \in Nat : b = BT_CHUNK_SIZE + PAYLOAD - 1
  BY <1>1
<1>3. TailSeq = b \div PAYLOAD
  BY <1>2 DEF TailSeq
<1>4. TailSeq \in Nat /\ b \in (TailSeq * PAYLOAD)..(TailSeq * PAYLOAD + PAYLOAD - 1)
  BY <1>1, <1>3, PieceOf
<1>5. TailSeq # 0
  BY <1>1, <1>2, <1>4
<1>6. ASSUME NEW s \in 1..TailSeq PROVE (s - 1) * PAYLOAD \in 0..(BT_CHUNK_SIZE - 1)
  <2>1. (s - 1) * PAYLOAD <= (TailSeq - 1) * PAYLOAD /\ (s - 1) * PAYLOAD \in Nat
    <3>1. s - 1 \in Nat /\ TailSeq - 1 \in Nat /\ s - 1 <= TailSeq - 1
      BY <1>4
    <3> QED
      BY <3>1, <1>1, ProductOrder, ProductNat
  <2>2. (TailSeq - 1) * PAYLOAD = TailSeq * PAYLOAD - PAYLOAD /\ TailSeq * PAYLOAD \in Nat
    BY <1>1, <1>4
  <2> QED
    BY <2>1, <2>2, <1>1, <1>2, <1>4
<1> QED
  BY <1>4, <1>5, <1>6

\* DATA packets have a length, and bytes.
LEMMA PacketTypes ==
    ASSUME NEW s \in 0..(TailSeq + 1)
    PROVE  /\ IsPacket(DataPacket(s)) /\ DataPacket(s).seq = s
           /\ Carries(DataPacket(s), Offsets \cup {Junk})
<1> DEFINE base == (s - 1) * PAYLOAD
           own  == s \in 1..TailSeq
           len  == IF own THEN MIN(PAYLOAD, BT_CHUNK_SIZE - base) ELSE PAYLOAD
<1>1. BT_CHUNK_SIZE \in Nat \ {0} /\ PAYLOAD \in Nat \ {0} /\ PAYLOAD <= BT_CHUNK_SIZE
  BY DownloadAssumption
<1>2. TailSeq \in Nat \ {0} /\ (own => base \in 0..(BT_CHUNK_SIZE - 1))
  BY PacketBase
<1> HIDE DEF base, own
<1>3. len \in 1..PAYLOAD /\ (own => base + len <= BT_CHUNK_SIZE)
  BY <1>1, <1>2 DEF MIN
<1>4. DataPacket(s) =
         [seq |-> s, data |-> [i \in 0..(len - 1) |-> IF own THEN base + i ELSE Junk],
          len |-> len]
  BY DEF DataPacket, base, own
<1> HIDE DEF len
<1>5. DataPacket(s).seq = s /\ DataPacket(s).len = len
      /\ \A i \in 0..(len - 1) : DataPacket(s).data[i] = IF own THEN base + i ELSE Junk
  BY <1>4
<1>6. \A i \in 0..(len - 1) : own => base + i \in Offsets
  BY <1>1, <1>2, <1>3 DEF Offsets
<1>7. s \in Nat /\ Offsets \subseteq Int /\ Junk \in Int
  BY <1>1, <1>2 DEF Offsets, Junk
<1>8. Carries(DataPacket(s), Offsets \cup {Junk})
  BY <1>5, <1>6 DEF Carries
<1> QED
  BY <1>3, <1>5, <1>6, <1>7, <1>8 DEF IsPacket

\* dl_init starts from an empty window.
LEMMA DlInitSound ==
    /\ Settled(dl_init) /\ received(dl_init.rwin) = {} /\ ~dl_init.finished
    /\ ~dl_init.started /\ dl_init.timeout_cnt = 0
<1>1. RECV_WINDOW_SIZE \in Nat \ {0} /\ BT_CHUNK_SIZE \in Nat \ {0} /\ PAYLOAD \in Nat \ {0}
      /\ MAX_TIMEOUT_CNT \in Nat
  BY RecvWinAssumption, DownloadAssumption, TimeoutAssumption
<1>2. init_recvwin \in RecvWins /\ init_recvwin.next_seq = 1
  BY <1>1 DEF init_recvwin, RecvWins, BitIndices
<1>3. received(init_recvwin) = {}
  BY <1>1 DEF received, init_recvwin, seq_exist_in
<1>4. dl_init \in Downloads
  BY <1>1, <1>2 DEF dl_init, Downloads, Junk
<1> QED
  BY <1>2, <1>3, <1>4 DEF Settled, dl_init

\* get_ack on a window that is well formed makes the two agree.
LEMMA GetAckSound ==
    ASSUME NEW d \in Downloads
    PROVE  /\ Settled(get_ack(d))
           /\ received(get_ack(d).rwin) = received(d.rwin)
           /\ get_ack(d).next_pkt_expected \in
                 d.rwin.next_seq..(d.rwin.next_seq + RECV_WINDOW_SIZE)
           /\ get_ack(d) = [d EXCEPT !.rwin = get_ack(d).rwin,
                                     !.next_pkt_expected = get_ack(d).next_pkt_expected]
<1> DEFINE w == recvwin_slideack(d.rwin)
<1>1. d.rwin \in RecvWins
  BY DEF Downloads
<1>2. /\ w \in RecvWins /\ w.next_seq \in d.rwin.next_seq..(d.rwin.next_seq + RECV_WINDOW_SIZE)
      /\ received(w) = received(d.rwin) /\ w.next_seq \notin received(w)
  BY <1>1, SlideSound
<1>3. get_ack(d) = [d EXCEPT !.rwin = w, !.next_pkt_expected = w.next_seq]
  BY DEF get_ack
<1>4. w.next_seq \in Nat \ {0}
  BY <1>2 DEF RecvWins
<1> HIDE DEF w
<1>5. get_ack(d) \in Downloads /\ get_ack(d).rwin = w /\ get_ack(d).next_pkt_expected = w.next_seq
  BY <1>2, <1>3, <1>4 DEF Downloads
<1> QED
  BY <1>2, <1>3, <1>5 DEF Settled

\* get_ack on a download at rest changes nothing.
LEMMA GetAckStays ==
    ASSUME NEW d, Settled(d)
    PROVE  get_ack(d) = d
<1>1. recvwin_slideack(d.rwin) = d.rwin
  BY SlideStays DEF Settled, Downloads
<1>2. d \in Downloads /\ d.next_pkt_expected = d.rwin.next_seq
  BY DEF Settled
<1> QED
  BY <1>1, <1>2 DEF get_ack, Downloads

\* note_length touches nothing but the length and its two flags.
LEMMA NoteSound ==
    ASSUME NEW d, Settled(d), NEW pkt, IsPacket(pkt)
    PROVE  /\ Settled(note_length(d, pkt))
           /\ note_length(d, pkt).rwin = d.rwin
           /\ note_length(d, pkt).next_pkt_expected = d.next_pkt_expected
           /\ note_length(d, pkt).buffer = d.buffer
           /\ note_length(d, pkt).finished = d.finished
           /\ note_length(d, pkt).timeout_cnt = d.timeout_cnt
           /\ note_length(d, pkt).started
           /\ note_length(d, pkt).data_length \in {d.data_length, pkt.len}
           /\ ~d.started => note_length(d, pkt).data_length = pkt.len
<1> DEFINE n == note_length(d, pkt)
<1>1. d \in Downloads /\ pkt.len \in 0..PAYLOAD
  BY DEF Settled, IsPacket
<1>2. CASE d.started /\ ~d.block_update
  BY <1>1, <1>2 DEF note_length
<1>3. CASE ~(d.started /\ ~d.block_update)
  <2>1. n = [d EXCEPT !.data_length = pkt.len, !.started = TRUE, !.block_update = FALSE]
    BY <1>3 DEF note_length
  <2>2. n \in Downloads
    BY <1>1, <2>1 DEF Downloads
  <2> QED
    BY <1>1, <2>1, <2>2 DEF Settled, Downloads
<1> QED
  BY <1>2, <1>3

\* A packet that dl_recv takes is copied into the buffer, and nowhere else.
LEMMA StoreSound ==
    ASSUME NEW d, Settled(d), NEW pkt, IsPacket(pkt), acceptable(d, pkt)
    PROVE  /\ store(d, pkt) \in Downloads
           /\ store(d, pkt).rwin.next_seq = d.rwin.next_seq
           /\ received(store(d, pkt).rwin) = received(d.rwin) \cup {pkt.seq}
           /\ store(d, pkt) = [d EXCEPT !.rwin = store(d, pkt).rwin,
                                        !.buffer = store(d, pkt).buffer]
           /\ store(d, pkt).buffer =
                 IF pkt.seq \in received(d.rwin) THEN d.buffer
                 ELSE [b \in Offsets |->
                         IF b \in offset_of(d, pkt)..(offset_of(d, pkt) + pkt.len - 1)
                         THEN pkt.data[b - offset_of(d, pkt)] ELSE d.buffer[b]]
<1> DEFINE off == offset_of(d, pkt)
           here == off..(off + pkt.len - 1)
           n == store(d, pkt)
<1>1. /\ d \in Downloads /\ d.rwin \in RecvWins /\ d.data_length \in Nat
      /\ d.buffer \in [Offsets -> Int]
      /\ d.rwin.next_seq \in Nat \ {0}
  BY DownloadAssumption DEF Settled, Downloads, RecvWins
<1>2. pkt.seq \in Nat /\ pkt.len \in Nat \ {0} /\ BT_CHUNK_SIZE \in Nat \ {0}
  BY DownloadAssumption DEF IsPacket
<1>3. seq_fit_in(d.rwin, pkt.seq) /\ off + pkt.len <= BT_CHUNK_SIZE
  BY DEF acceptable
<1>4. off \in Nat
  <2>1. pkt.seq - 1 \in Nat
    BY <1>1, <1>2, <1>3 DEF seq_fit_in
  <2> QED
    BY <2>1, <1>1, ProductNat DEF offset_of
<1>5. pkt.seq \in received(d.rwin) <=> seq_exist_in(d.rwin, pkt.seq)
  <2>1. pkt.seq \notin 1..(d.rwin.next_seq - 1) /\ pkt.seq \in Int
    BY <1>1, <1>2, <1>3 DEF seq_fit_in
  <2> QED
    BY <2>1, <1>1, <1>3, Members
<1>6. CASE seq_exist_in(d.rwin, pkt.seq)
  <2>1. n = d
    BY <1>6 DEF store
  <2>2. received(d.rwin) = received(d.rwin) \cup {pkt.seq}
    BY <1>5, <1>6
  <2>3. d = [d EXCEPT !.rwin = d.rwin, !.buffer = d.buffer]
    BY <1>1 DEF Downloads
  <2> QED
    BY <2>1, <2>2, <2>3, <1>1, <1>5, <1>6
<1>7. CASE ~seq_exist_in(d.rwin, pkt.seq)
  <2> DEFINE m == recvwin_mark(d.rwin, pkt.seq)
             buf == [b \in Offsets |-> IF b \in here THEN pkt.data[b - off] ELSE d.buffer[b]]
  <2>3. \A b \in here : b - off \in 0..(pkt.len - 1)
    BY <1>2, <1>4
  <2>4. buf \in [Offsets -> Int]
    <3> HIDE DEF here, off
    <3>1. \A b \in here : pkt.data[b - off] \in Int
      BY <2>3 DEF IsPacket
    <3> QED
      BY <3>1, <1>1
  <2>6. m \in RecvWins /\ m.next_seq = d.rwin.next_seq /\ received(m) = received(d.rwin) \cup {pkt.seq}
    BY <1>1, <1>2, <1>3, MarkSound
  <2> HIDE DEF m, buf
  <2>7. n = [d EXCEPT !.buffer = buf, !.rwin = m]
    BY <1>7, <1>1 DEF store, Downloads, m, buf
  <2>8. n \in Downloads /\ n.rwin = m /\ n.buffer = buf
    BY <2>4, <2>6, <2>7, <1>1 DEF Downloads
  <2>9. n = [d EXCEPT !.rwin = m, !.buffer = buf]
    BY <2>7, <1>1 DEF Downloads
  <2> QED
    BY <2>6, <2>8, <2>9, <1>5, <1>7 DEF buf
<1> QED
  BY <1>6, <1>7

\* dl_recv takes a packet or leaves the window alone.
LEMMA RecvSound ==
    ASSUME NEW d, Settled(d), NEW pkt, IsPacket(pkt)
    PROVE  LET v == dl_recv(d, pkt) IN
           /\ Settled(v)
           /\ v.timeout_cnt \in {0, d.timeout_cnt}
           /\ \/ v.rwin = d.rwin
              \/ /\ seq_fit_in(d.rwin, pkt.seq)
                 /\ received(v.rwin) = received(d.rwin) \cup {pkt.seq}
                 /\ v.next_pkt_expected \in
                       d.next_pkt_expected..(d.next_pkt_expected + RECV_WINDOW_SIZE)
<1> DEFINE v == dl_recv(d, pkt)
           n == note_length(d, pkt)
           s == store(n, pkt)
           g == get_ack(s)
<1>1. CASE d.finished
  BY <1>1 DEF dl_recv
<1>2. CASE ~d.finished /\ ~takes(d, pkt)
  <2>1. v = n
    BY <1>2 DEF dl_recv
  <2> QED
    BY <2>1, NoteSound
<1>3. CASE ~d.finished /\ takes(d, pkt)
  <2>1. v = [g EXCEPT !.timeout_cnt = 0, !.finished = complete(g)]
    BY <1>3 DEF dl_recv
  <2>2. Settled(n) /\ n.rwin = d.rwin /\ acceptable(n, pkt)
    BY <1>3, NoteSound DEF takes
  <2> HIDE DEF n
  <2>3. /\ s \in Downloads /\ s.rwin.next_seq = d.rwin.next_seq
        /\ received(s.rwin) = received(d.rwin) \cup {pkt.seq}
    <3>1. /\ s \in Downloads /\ s.rwin.next_seq = n.rwin.next_seq
          /\ received(s.rwin) = received(n.rwin) \cup {pkt.seq}
      BY <2>2, StoreSound, Zenon
    <3> QED
      BY <3>1, <2>2
  <2> HIDE DEF s
  <2>4. /\ Settled(g) /\ received(g.rwin) = received(s.rwin)
        /\ g.next_pkt_expected \in s.rwin.next_seq..(s.rwin.next_seq + RECV_WINDOW_SIZE)
    BY <2>3, GetAckSound
  <2> HIDE DEF g
  <2>5. complete(g) \in BOOLEAN
    BY DEF complete
  <2>6. 0 \in 0..(MAX_TIMEOUT_CNT + 1)
    BY TimeoutAssumption
  <2>7. v \in Downloads /\ v.rwin = g.rwin /\ v.next_pkt_expected = g.next_pkt_expected
        /\ v.timeout_cnt = 0
    BY <2>1, <2>4, <2>5, <2>6 DEF Downloads, Settled
  <2>8. seq_fit_in(d.rwin, pkt.seq)
    BY <2>2 DEF acceptable
  <2> QED
    BY <2>3, <2>4, <2>7, <2>8 DEF Settled
<1> QED
  BY <1>1, <1>2, <1>3

\* What is copied into the buffer are bytes of the packet.
LEMMA StoreBytes ==
    ASSUME NEW d, Settled(d), NEW pkt, IsPacket(pkt), acceptable(d, pkt), NEW B,
           Carries(pkt, B), d.buffer \in [Offsets -> B]
    PROVE  store(d, pkt).buffer \in [Offsets -> B]
<1> DEFINE off == offset_of(d, pkt)
           here == off..(off + pkt.len - 1)
           buf == [b \in Offsets |-> IF b \in here THEN pkt.data[b - off] ELSE d.buffer[b]]
<1>1. store(d, pkt).buffer = IF pkt.seq \in received(d.rwin) THEN d.buffer ELSE buf
  BY StoreSound, ZenonT(60)
<1>2. off \in Int /\ pkt.len \in Int
  <2>1. pkt.seq \in Int /\ pkt.len \in Int /\ d.data_length \in Int
    BY DownloadAssumption DEF IsPacket, Settled, Downloads
  <2> QED
    BY <2>1 DEF offset_of
<1> HIDE DEF off
<1>3. \A b \in here : pkt.data[b - off] \in B
  <2>1. \A b \in here : b - off \in 0..(pkt.len - 1)
    BY <1>2
  <2> QED
    BY <2>1 DEF Carries
<1> HIDE DEF here
<1>4. buf \in [Offsets -> B]
  BY <1>3
<1> HIDE DEF buf
<1> QED
  BY <1>1, <1>4

\* The buffer holds bytes of the packets and nothing else.
LEMMA RecvBytes ==
    ASSUME NEW d, Settled(d), NEW pkt, IsPacket(pkt), NEW B,
           Carries(pkt, B), d.buffer \in [Offsets -> B]
    PROVE  dl_recv(d, pkt).buffer \in [Offsets -> B]
<1> DEFINE n == note_length(d, pkt)
           s == store(n, pkt)
           g == get_ack(s)
<1>1. Settled(n) /\ n.buffer \in [Offsets -> B]
  BY NoteSound
<1>2. CASE ~takes(d, pkt)
  BY <1>1, <1>2 DEF dl_recv
<1>3. CASE ~d.finished /\ takes(d, pkt)
  <2>1. dl_recv(d, pkt) = [g EXCEPT !.timeout_cnt = 0, !.finished = complete(g)]
    BY <1>3 DEF dl_recv
  <2>2. acceptable(n, pkt)
    BY <1>3 DEF takes
  <2> HIDE DEF n
  <2>3. s \in Downloads /\ s.buffer \in [Offsets -> B]
    BY <1>1, <2>2, StoreSound, StoreBytes, Zenon
  <2> HIDE DEF s
  <2>4. g \in Downloads /\ g = [s EXCEPT !.rwin = g.rwin, !.next_pkt_expected = g.next_pkt_expected]
    BY <2>3, GetAckSound DEF Settled
  <2>5. g.buffer = s.buffer
    BY <2>3, <2>4 DEF Downloads
  <2> HIDE DEF g
  <2> QED
    BY <2>1, <2>3, <2>4, <2>5 DEF Downloads
<1> QED
  BY <1>2, <1>3 DEF takes

\* dl_check_timeout counts, and asks for the length to be noted again; the
\* ACKs it repeats are those of a window that does not move.
LEMMA CheckSound ==
    ASSUME NEW d, Settled(d), d.timeout_cnt <= MAX_TIMEOUT_CNT, NEW elapsed \in BOOLEAN
    PROVE  LET v == dl_check_timeout(d, elapsed) IN
           /\ Settled(v) /\ v.rwin = d.rwin /\ v.next_pkt_expected = d.next_pkt_expected
           /\ v.buffer = d.buffer /\ v.finished = d.finished
           /\ v.started = d.started /\ v.data_length = d.data_length
<1> DEFINE v == dl_check_timeout(d, elapsed)
           e == [d EXCEPT !.timeout_cnt = @ + 1]
<1>1. d \in Downloads /\ d.timeout_cnt + 1 \in 0..(MAX_TIMEOUT_CNT + 1)
  BY TimeoutAssumption DEF Settled, Downloads
<1>2. CASE d.finished \/ ~elapsed
  BY <1>2 DEF dl_check_timeout
<1>3. CASE ~(d.finished \/ ~elapsed)
  <2>1. v = dl_loss(e)
    BY <1>3 DEF dl_check_timeout
  <2>2. /\ e \in Downloads /\ e.rwin = d.rwin /\ e.next_pkt_expected = d.next_pkt_expected
        /\ e.buffer = d.buffer /\ e.finished = d.finished
        /\ e.started = d.started /\ e.data_length = d.data_length
    BY <1>1 DEF Downloads
  <2>3. Settled(e)
    BY <2>2 DEF Settled
  <2> HIDE DEF e
  <2>4. v = [e EXCEPT !.block_update = TRUE]
    BY <2>1, <2>3, GetAckStays DEF dl_loss
  <2>5. /\ v \in Downloads /\ v.rwin = e.rwin /\ v.next_pkt_expected = e.next_pkt_expected
        /\ v.buffer = e.buffer /\ v.finished = e.finished
        /\ v.started = e.started /\ v.data_length = e.data_length
    BY <2>2, <2>4 DEF Downloads
  <2> QED
    BY <2>2, <2>3, <2>5 DEF Settled
<1> QED
  BY <1>2, <1>3

(***************************************************************************)
(* The invariant of the specification.                                     *)
(***************************************************************************)
DlInv ==
    /\ Settled(dl)
    /\ dl.buffer \in [Offsets -> Offsets \cup {Junk}]
    /\ is_downloading \in BOOLEAN
    /\ is_downloading => dl.timeout_cnt <= MAX_TIMEOUT_CNT

\* what a step does to the set of packets held
DlMoves ==
    \/ received(dl'.rwin) = {} /\ dl'.next_pkt_expected = 1
    \/ received(dl'.rwin) = received(dl.rwin) /\ dl'.next_pkt_expected = dl.next_pkt_expected
    \/ \E s \in Nat :
          /\ s >= dl.next_pkt_expected /\ s < dl.next_pkt_expected + RECV_WINDOW_SIZE
          /\ received(dl'.rwin) = received(dl.rwin) \cup {s}
          /\ dl'.next_pkt_expected \in
                dl.next_pkt_expected..(dl.next_pkt_expected + RECV_WINDOW_SIZE)

\* A step on a DATA packet keeps the invariant and takes at most that packet.
LEMMA RecvKeeps ==
    ASSUME DlInv, NEW pkt, IsPacket(pkt), Carries(pkt, Offsets \cup {Junk}), RecvData(pkt)
    PROVE  DlInv' /\ DlMoves
<1> DEFINE v == dl_recv(dl, pkt)
<1>1. dl' = v /\ is_downloading' = ~v.finished
  BY DEF RecvData
<1>2. /\ Settled(dl) /\ dl.timeout_cnt <= MAX_TIMEOUT_CNT
  BY DEF DlInv, RecvData
<1>3. /\ Settled(v) /\ v.timeout_cnt \in {0, dl.timeout_cnt}
      /\ \/ v.rwin = dl.rwin
         \/ /\ seq_fit_in(dl.rwin, pkt.seq)
            /\ received(v.rwin) = received(dl.rwin) \cup {pkt.seq}
            /\ v.next_pkt_expected \in
                  dl.next_pkt_expected..(dl.next_pkt_expected + RECV_WINDOW_SIZE)
  BY <1>2, RecvSound
<1>31. v.buffer \in [Offsets -> Offsets \cup {Junk}]
  BY <1>2, RecvBytes DEF DlInv
<1> HIDE DEF v
<1>4. v.timeout_cnt <= MAX_TIMEOUT_CNT
  BY <1>2, <1>3, TimeoutAssumption
<1>5. DlInv'
  BY <1>1, <1>3, <1>31, <1>4 DEF DlInv
<1>6. dl.next_pkt_expected = dl.rwin.next_seq /\ v.next_pkt_expected = v.rwin.next_seq
  BY <1>2, <1>3 DEF Settled
<1>7. DlMoves
  <2>1. CASE v.rwin = dl.rwin
    BY <2>1, <1>1, <1>6 DEF DlMoves
  <2>2. CASE ~(v.rwin = dl.rwin)
    <3>1. pkt.seq \in Nat
      BY DEF IsPacket
    <3> QED
      BY <2>2, <3>1, <1>1, <1>3, <1>6 DEF DlMoves, seq_fit_in
  <2> QED
    BY <2>1, <2>2
<1> QED
  BY <1>5, <1>7

\* A timeout keeps the invariant and the packets held.
LEMMA CheckDlKeeps ==
    ASSUME DlInv, NEW elapsed \in BOOLEAN, CheckDownload(elapsed)
    PROVE  DlInv' /\ DlMoves
<1> DEFINE v == dl_check_timeout(dl, elapsed)
<1>1. dl' = v /\ is_downloading' = (v.timeout_cnt <= MAX_TIMEOUT_CNT)
  BY DEF CheckDownload
<1>2. /\ Settled(dl) /\ dl.timeout_cnt <= MAX_TIMEOUT_CNT
  BY DEF DlInv, CheckDownload
<1>3. /\ Settled(v) /\ v.rwin = dl.rwin /\ v.next_pkt_expected = dl.next_pkt_expected
      /\ v.buffer = dl.buffer
  BY <1>2, CheckSound
<1> HIDE DEF v
<1>4. DlInv'
  <2>1. (v.timeout_cnt <= MAX_TIMEOUT_CNT) \in BOOLEAN
    OBVIOUS
  <2>2. is_downloading' \in BOOLEAN
    BY <1>1, <2>1, Zenon
  <2>3. is_downloading' => dl'.timeout_cnt <= MAX_TIMEOUT_CNT
    BY <1>1, Zenon
  <2> QED
    BY <2>2, <2>3, <1>1, <1>3 DEF DlInv
<1> QED
  BY <1>1, <1>3, <1>4 DEF DlMoves

\* Every step keeps the invariant, and moves the set of packets as a receiver
\* may.
LEMMA StepKeeps ==
    ASSUME DlInv, [DlNext]_dlvars
    PROVE  DlInv' /\ DlMoves
<1>1. CASE StartDownload
  <2>1. dl' = dl_init /\ is_downloading' = TRUE
    BY <1>1 DEF StartDownload
  <2>2. dl_init.timeout_cnt <= MAX_TIMEOUT_CNT /\ dl_init.next_pkt_expected = 1
    BY TimeoutAssumption DEF dl_init
  <2>3. DlInv'
    BY <2>1, <2>2, DlInitSound DEF DlInv, dl_init
  <2> QED
    BY <2>1, <2>2, <2>3, DlInitSound DEF DlMoves
<1>2. CASE \E seq \in 0..(TailSeq + 1) : RecvData(DataPacket(seq))
  BY <1>2, PacketTypes, RecvKeeps
<1>3. CASE \E elapsed \in BOOLEAN : CheckDownload(elapsed)
  BY <1>3, CheckDlKeeps
<1>4. CASE UNCHANGED dlvars
  BY <1>4 DEF dlvars, DlInv, DlMoves
<1> QED
  BY <1>1, <1>2, <1>3, <1>4 DEF DlNext

\* The invariant holds of every download.
THEOREM DownloadInvariant == DlSpec => []DlInv
<1>1. DlInit => DlInv
  BY DlInitSound, TimeoutAssumption DEF DlInit, DlInv, dl_init
<1>2. DlInv /\ [DlNext]_dlvars => DlInv'
  BY StepKeeps
<1> QED
  BY <1>1, <1>2, PTL DEF DlSpec

\* Type correctness: whatever DATA packets arrive, download_t and the circular
\* bitmap in it stay in their types; no index leaves the bitmap or the buffer.
THEOREM DownloadTypes == DlSpec => []DlTypeOK
<1>1. DlInv => DlTypeOK
  BY DEF DlInv, Settled, Downloads, DlTypeOK
<1> QED
  BY <1>1, DownloadInvariant, PTL

\* Refinement: the circular bitmap and the ACK of download.c and recv_win.c do
\* what Reassembly says, for every window size, chunk and packet length.
THEOREM DownloadReassembles == DlSpec => ImplementsReassembly
<1>1. DlInit => Reasm!RInit
  BY DlInitSound DEF DlInit, Reasm!RInit, dl_init
<1>2. DlInv /\ DlInv' /\ [DlNext]_dlvars
         => [Reasm!RNext]_<<received(dl.rwin), dl.next_pkt_expected>>
  <2> SUFFICES ASSUME DlInv, DlInv', [DlNext]_dlvars
               PROVE  \/ Reasm!RNext
                      \/ /\ received(dl'.rwin) = received(dl.rwin)
                         /\ dl'.next_pkt_expected = dl.next_pkt_expected
    OBVIOUS
  <2>1. DlMoves
    BY StepKeeps
  <2>2. /\ dl'.rwin \in RecvWins /\ dl'.next_pkt_expected = dl'.rwin.next_seq
        /\ dl'.next_pkt_expected \notin received(dl'.rwin)
        /\ dl.next_pkt_expected \in Nat \ {0} /\ dl'.next_pkt_expected \in Nat \ {0}
    BY DEF DlInv, Settled, Downloads
  <2>3. 1..(dl'.next_pkt_expected - 1) \subseteq received(dl'.rwin)
    BY <2>2 DEF received
  <2>4. CASE \E s \in Nat :
               /\ s >= dl.next_pkt_expected /\ s < dl.next_pkt_expected + RECV_WINDOW_SIZE
               /\ received(dl'.rwin) = received(dl.rwin) \cup {s}
               /\ dl'.next_pkt_expected \in
                     dl.next_pkt_expected..(dl.next_pkt_expected + RECV_WINDOW_SIZE)
    <3>1. PICK s \in Nat :
               /\ s >= dl.next_pkt_expected /\ s < dl.next_pkt_expected + RECV_WINDOW_SIZE
               /\ received(dl'.rwin) = received(dl.rwin) \cup {s}
               /\ dl'.next_pkt_expected \in
                     dl.next_pkt_expected..(dl.next_pkt_expected + RECV_WINDOW_SIZE)
      BY <2>4
    <3>2. Reasm!Accept(s)
      BY <3>1, <2>2, <2>3 DEF Reasm!Accept
    <3>3. s \in dl.next_pkt_expected..(dl.next_pkt_expected + RECV_WINDOW_SIZE - 1)
      BY <3>1, <2>2, RecvWinAssumption
    <3> QED
      BY <3>2, <3>3 DEF Reasm!RNext
  <2>5. CASE received(dl'.rwin) = {} /\ dl'.next_pkt_expected = 1
    BY <2>5 DEF Reasm!RNext, Reasm!Restart
  <2> QED
    BY <2>1, <2>4, <2>5 DEF DlMoves
<1> QED
  BY <1>1, <1>2, DownloadInvariant, PTL DEF DlSpec, ImplementsReassembly, Reasm!RSpec

(***************************************************************************)
(* The bytes.  The rest is about a sender whose packets are all of the     *)
(* same length, as this program's are (512K in pieces of 1024 bytes): with *)
(* a shorter last packet, data_length is that packet's own length when it  *)
(* is the first to arrive, and the bytes go elsewhere.                     *)
(***************************************************************************)
EvenPackets == BT_CHUNK_SIZE % PAYLOAD = 0

Matches(d) ==
    \A b \in Offsets :
       d.buffer[b] = IF (b \div PAYLOAD) + 1 \in received(d.rwin) THEN b ELSE Junk

Whole(d) ==
    /\ received(d.rwin) \subseteq 1..TailSeq
    /\ d.started => d.data_length = PAYLOAD
    /\ Matches(d)
    /\ d.finished <=> d.next_pkt_expected > TailSeq

\* With even packets the chunk is exactly TailSeq of them.
LEMMA EvenChunk ==
    ASSUME EvenPackets
    PROVE  BT_CHUNK_SIZE = TailSeq * PAYLOAD
<1>1. BT_CHUNK_SIZE \in Nat \ {0} /\ PAYLOAD \in Nat \ {0}
  BY DownloadAssumption
<1>2. PICK q \in Nat : BT_CHUNK_SIZE = q * PAYLOAD
  BY <1>1 DEF EvenPackets
<1>3. PICK b \in Nat : b = BT_CHUNK_SIZE + PAYLOAD - 1
  BY <1>1
<1>4. b \in (q * PAYLOAD)..(q * PAYLOAD + PAYLOAD - 1)
  <2>1. PICK p \in Nat : p = q * PAYLOAD
    BY <1>1, <1>2
  <2> QED
    BY <2>1, <1>1, <1>2, <1>3
<1>5. b \div PAYLOAD = q
  BY <1>1, <1>4, PieceOf
<1>6. TailSeq = q
  BY <1>3, <1>5 DEF TailSeq
<1> QED
  BY <1>2, <1>6

\* The packets of such a sender.
LEMMA EvenPacket ==
    ASSUME EvenPackets, NEW s \in 0..(TailSeq + 1)
    PROVE  /\ DataPacket(s).len = PAYLOAD
           /\ s \in 1..TailSeq =>
                 \A i \in 0..(PAYLOAD - 1) : DataPacket(s).data[i] = (s - 1) * PAYLOAD + i
<1>1. BT_CHUNK_SIZE \in Nat \ {0} /\ PAYLOAD \in Nat \ {0} /\ TailSeq \in Nat \ {0}
  BY DownloadAssumption, PacketBase
<1>2. s \in 1..TailSeq => MIN(PAYLOAD, BT_CHUNK_SIZE - (s - 1) * PAYLOAD) = PAYLOAD
  <2> SUFFICES ASSUME s \in 1..TailSeq
               PROVE  MIN(PAYLOAD, BT_CHUNK_SIZE - (s - 1) * PAYLOAD) = PAYLOAD
    OBVIOUS
  <2>1. s * PAYLOAD <= TailSeq * PAYLOAD
    BY <1>1, ProductOrder
  <2>2. (s - 1) * PAYLOAD = s * PAYLOAD - PAYLOAD /\ s * PAYLOAD \in Int
    BY <1>1
  <2>3. PICK p \in Int : p = s * PAYLOAD
    BY <2>2
  <2>4. PICK q \in Int : q = (s - 1) * PAYLOAD
    BY <2>2, <2>3, <1>1
  <2>5. BT_CHUNK_SIZE >= p /\ q = p - PAYLOAD
    BY <2>1, <2>2, <2>3, <2>4, EvenChunk
  <2>6. MIN(PAYLOAD, BT_CHUNK_SIZE - q) = PAYLOAD
    BY <2>3, <2>4, <2>5, <1>1 DEF MIN
  <2> QED
    BY <2>4, <2>6
<1>3. DataPacket(s) =
         [seq |-> s,
          data |-> [i \in 0..(PAYLOAD - 1) |->
                      IF s \in 1..TailSeq THEN (s - 1) * PAYLOAD + i ELSE Junk],
          len |-> PAYLOAD]
  BY <1>2 DEF DataPacket
<1> QED
  BY <1>3

\* dl_init
LEMMA InitWhole == Whole(dl_init)
<1>1. TailSeq \in Nat \ {0} /\ BT_CHUNK_SIZE \in Nat /\ PAYLOAD \in Nat
  BY PacketBase, DownloadAssumption
<1>2. Matches(dl_init)
  BY DlInitSound DEF Matches, dl_init
<1>3. ~dl_init.finished /\ ~(dl_init.next_pkt_expected > TailSeq)
  BY <1>1 DEF dl_init
<1> QED
  BY <1>2, <1>3, DlInitSound DEF Whole

\* A packet taken is one of the chunk's own, and dl_recv puts its bytes where
\* they belong.
LEMMA StoreWhole ==
    ASSUME EvenPackets, NEW d, Settled(d), d.data_length = PAYLOAD,
           received(d.rwin) \subseteq 1..TailSeq, Matches(d),
           NEW s \in 0..(TailSeq + 1), acceptable(d, DataPacket(s))
    PROVE  s \in 1..TailSeq /\ Matches(store(d, DataPacket(s)))
<1> DEFINE pkt == DataPacket(s)
           v == store(d, pkt)
<1>1. BT_CHUNK_SIZE \in Nat \ {0} /\ PAYLOAD \in Nat \ {0} /\ TailSeq \in Nat \ {0}
  BY DownloadAssumption, PacketBase
<1>2. IsPacket(pkt) /\ pkt.seq = s /\ pkt.len = PAYLOAD
  BY PacketTypes, EvenPacket
<1>3. offset_of(d, pkt) = (s - 1) * PAYLOAD
  BY <1>2 DEF offset_of
<1>4. s >= d.rwin.next_seq /\ d.rwin.next_seq \in Nat \ {0}
  BY <1>2 DEF acceptable, seq_fit_in, Settled, Downloads, RecvWins
<1>5. s <= TailSeq
  <2>1. (s - 1) * PAYLOAD + PAYLOAD <= TailSeq * PAYLOAD
    BY <1>2, <1>3, EvenChunk DEF acceptable
  <2>2. s = TailSeq + 1 => (s - 1) * PAYLOAD = TailSeq * PAYLOAD
    BY <1>1
  <2>3. PICK p \in Int : p = TailSeq * PAYLOAD
    BY <1>1
  <2>4. s # TailSeq + 1
    BY <2>1, <2>2, <2>3, <1>1
  <2> QED
    BY <2>4, <1>1
<1>6. s \in 1..TailSeq
  BY <1>1, <1>4, <1>5
<1>7. PICK off \in Nat : off = (s - 1) * PAYLOAD
  <2>1. s - 1 \in Nat
    BY <1>6, <1>1
  <2> QED
    BY <2>1, <1>1, ProductNat
<1>8. /\ received(v.rwin) = received(d.rwin) \cup {s}
      /\ v.buffer = IF s \in received(d.rwin) THEN d.buffer
                    ELSE [b \in Offsets |-> IF b \in off..(off + PAYLOAD - 1)
                                            THEN pkt.data[b - off] ELSE d.buffer[b]]
  <2>1. acceptable(d, pkt)
    OBVIOUS
  <2> HIDE DEF pkt
  <2>2. /\ received(v.rwin) = received(d.rwin) \cup {pkt.seq}
        /\ v.buffer =
                 IF pkt.seq \in received(d.rwin) THEN d.buffer
                 ELSE [b \in Offsets |->
                         IF b \in offset_of(d, pkt)..(offset_of(d, pkt) + pkt.len - 1)
                         THEN pkt.data[b - offset_of(d, pkt)] ELSE d.buffer[b]]
    BY <2>1, <1>2, StoreSound, ZenonT(60)
  <2>3. offset_of(d, pkt) = off /\ pkt.len = PAYLOAD /\ pkt.seq = s
    BY <1>2, <1>3, <1>7
  <2> QED
    BY <2>2, <2>3, Zenon
<1>9. CASE s \in received(d.rwin)
  <2>1. v.buffer = d.buffer
    BY <1>8, <1>9
  <2>2. received(v.rwin) = received(d.rwin)
    BY <1>8, <1>9
  <2> HIDE DEF v
  <2>3. Matches(v)
    BY <2>1, <2>2 DEF Matches
  <2> QED
    BY <2>3, <1>6 DEF v
<1>10. CASE s \notin received(d.rwin)
  <2>1. v.buffer = [b \in Offsets |-> IF b \in off..(off + PAYLOAD - 1)
                                      THEN pkt.data[b - off] ELSE d.buffer[b]]
    BY <1>8, <1>10
  <2> SUFFICES ASSUME NEW b \in Offsets
               PROVE  v.buffer[b] = IF (b \div PAYLOAD) + 1 \in received(v.rwin) THEN b ELSE Junk
    BY <1>6 DEF Matches
  <2>2. b \in Nat
    BY <1>1 DEF Offsets
  <2>3. b \div PAYLOAD \in Nat /\ (b \div PAYLOAD = s - 1 <=> b \in off..(off + PAYLOAD - 1))
    <3>1. s - 1 \in Nat
      BY <1>6, <1>1
    <3>2. b \div PAYLOAD \in Nat
          /\ (b \div PAYLOAD = s - 1 <=>
                b \in ((s - 1) * PAYLOAD)..((s - 1) * PAYLOAD + PAYLOAD - 1))
      BY <3>1, <2>2, <1>1, PieceOf
    <3> QED
      BY <3>2, <1>7
  <2>4. PICK k \in Nat : k = b \div PAYLOAD
    BY <2>3
  <2>5. CASE b \in off..(off + PAYLOAD - 1)
    <3>1. v.buffer[b] = pkt.data[b - off]
      BY <2>1, <2>5
    <3>2. b - off \in 0..(PAYLOAD - 1) /\ off + (b - off) = b
      BY <2>5, <2>2, <1>1, <1>7
    <3>3. pkt.data[b - off] = b
      BY <3>2, <1>6, <1>7, EvenPacket
    <3>4. k + 1 = s
      BY <2>3, <2>4, <2>5, <1>1
    <3>5. (b \div PAYLOAD) + 1 \in received(v.rwin)
      BY <3>4, <2>4, <1>8
    <3> QED
      BY <3>1, <3>3, <3>5
  <2>6. CASE b \notin off..(off + PAYLOAD - 1)
    <3>1. v.buffer[b] = d.buffer[b]
      BY <2>1, <2>6
    <3>2. k + 1 # s
      BY <2>3, <2>4, <2>6, <1>1
    <3>3. (b \div PAYLOAD) + 1 \in received(v.rwin) <=> (b \div PAYLOAD) + 1 \in received(d.rwin)
      BY <3>2, <2>4, <1>8
    <3> QED
      BY <3>1, <3>3 DEF Matches
  <2> QED
    BY <2>5, <2>6
<1> QED
  BY <1>6, <1>9, <1>10

\* complete, on a whole download, says that nothing of the chunk is missing.
LEMMA CompleteAtEnd ==
    ASSUME EvenPackets, NEW d \in Downloads, d.data_length = PAYLOAD
    PROVE  complete(d) <=> d.next_pkt_expected > TailSeq
<1>1. /\ PAYLOAD \in Nat \ {0} /\ TailSeq \in Nat \ {0}
      /\ d.next_pkt_expected \in Nat \ {0}
  BY DownloadAssumption, PacketBase DEF Downloads
<1>2. PICK a \in Nat : a = d.next_pkt_expected - 1
  BY <1>1
<1>3. complete(d) <=> a * PAYLOAD >= TailSeq * PAYLOAD
  BY <1>2, EvenChunk DEF complete, ack_of
<1>4. a >= TailSeq => a * PAYLOAD >= TailSeq * PAYLOAD
  BY <1>1, ProductOrder
<1>5. a < TailSeq => ~(a * PAYLOAD >= TailSeq * PAYLOAD)
  <2> SUFFICES ASSUME a < TailSeq PROVE a * PAYLOAD < TailSeq * PAYLOAD
    BY <1>1
  <2>1. (a + 1) * PAYLOAD <= TailSeq * PAYLOAD
    BY <1>1, ProductOrder
  <2>2. (a + 1) * PAYLOAD = a * PAYLOAD + PAYLOAD
    BY <1>1
  <2>3. PICK p \in Int, q \in Int : p = a * PAYLOAD /\ q = TailSeq * PAYLOAD
    BY <1>1
  <2>4. p + PAYLOAD <= q
    BY <2>1, <2>2, <2>3
  <2>5. p < q
    BY <2>4, <2>3, <1>1
  <2> QED
    BY <2>3, <2>5
<1>6. a >= TailSeq <=> d.next_pkt_expected > TailSeq
  BY <1>1, <1>2
<1> QED
  BY <1>1, <1>2, <1>3, <1>4, <1>5, <1>6

\* dl_recv keeps the bytes right.
LEMMA RecvWhole ==
    ASSUME EvenPackets, NEW d, Settled(d), Whole(d), NEW s \in 0..(TailSeq + 1)
    PROVE  /\ Whole(dl_recv(d, DataPacket(s)))
           /\ takes(d, DataPacket(s)) =>
                 /\ s \in 1..TailSeq
                 /\ received(dl_recv(d, DataPacket(s)).rwin) = received(d.rwin) \cup {s}
           /\ ~takes(d, DataPacket(s)) =>
                 /\ dl_recv(d, DataPacket(s)).rwin = d.rwin
                 /\ dl_recv(d, DataPacket(s)).finished = d.finished
<1> DEFINE pkt == DataPacket(s)
           v == dl_recv(d, pkt)
           n == note_length(d, pkt)
           w == store(n, pkt)
           g == get_ack(w)
<1>1. IsPacket(pkt) /\ pkt.seq = s /\ pkt.len = PAYLOAD
  BY PacketTypes, EvenPacket
<1>2. /\ Settled(n) /\ n.rwin = d.rwin /\ n.buffer = d.buffer /\ n.finished = d.finished
      /\ n.next_pkt_expected = d.next_pkt_expected /\ n.started
      /\ n.data_length \in {d.data_length, PAYLOAD}
      /\ ~d.started => n.data_length = PAYLOAD
  <2> HIDE DEF pkt
  <2> QED
    BY <1>1, NoteSound
<1>3. n.data_length = PAYLOAD
  BY <1>2 DEF Whole
<1>4. Whole(n)
  BY <1>2, <1>3 DEF Whole, Matches
<1>5. CASE d.finished
  BY <1>5 DEF dl_recv, takes
<1>6. CASE ~d.finished /\ ~takes(d, pkt)
  <2>1. v = n
    BY <1>6 DEF dl_recv
  <2> HIDE DEF v, n
  <2> QED
    BY <2>1, <1>2, <1>4, <1>6 DEF v, pkt
<1>7. CASE ~d.finished /\ takes(d, pkt)
  <2>1. v = [g EXCEPT !.timeout_cnt = 0, !.finished = complete(g)]
    BY <1>7 DEF dl_recv
  <2>2. acceptable(n, pkt)
    BY <1>7 DEF takes
  <2>3. received(n.rwin) \subseteq 1..TailSeq /\ Matches(n)
    BY <1>4 DEF Whole
  <2> HIDE DEF n
  <2>4. s \in 1..TailSeq /\ Matches(w)
    BY <2>2, <2>3, <1>2, <1>3, StoreWhole
  <2> HIDE DEF pkt
  <2>5. /\ w \in Downloads /\ received(w.rwin) = received(n.rwin) \cup {pkt.seq}
        /\ w = [n EXCEPT !.rwin = w.rwin, !.buffer = w.buffer]
    BY <1>1, <1>2, <2>2, StoreSound, ZenonT(60)
  <2>6. w.data_length = PAYLOAD /\ w.started
    BY <2>5, <1>2, <1>3 DEF Settled, Downloads
  <2> HIDE DEF w
  <2>7. /\ g \in Downloads /\ received(g.rwin) = received(w.rwin)
        /\ g = [w EXCEPT !.rwin = g.rwin, !.next_pkt_expected = g.next_pkt_expected]
    BY <2>5, GetAckSound DEF Settled
  <2>8. g.buffer = w.buffer /\ g.data_length = PAYLOAD /\ g.started
    BY <2>5, <2>6, <2>7 DEF Downloads
  <2> HIDE DEF g
  <2>9. complete(g) <=> g.next_pkt_expected > TailSeq
    BY <2>7, <2>8, CompleteAtEnd
  <2>10. /\ v.rwin = g.rwin /\ v.buffer = g.buffer /\ v.data_length = g.data_length
         /\ v.next_pkt_expected = g.next_pkt_expected
    BY <2>1, <2>7 DEF Downloads
  <2>11. v.finished <=> v.next_pkt_expected > TailSeq
    <3>1. v.finished = complete(g)
      BY <2>1, <2>7 DEF Downloads
    <3> QED
      BY <3>1, <2>9, <2>10, Zenon
  <2>12. received(v.rwin) = received(d.rwin) \cup {s}
    BY <2>5, <2>7, <2>10, <1>1, <1>2
  <2> HIDE DEF v
  <2>13. Matches(v)
    BY <2>4, <2>7, <2>8, <2>10 DEF Matches
  <2>14. received(v.rwin) \subseteq 1..TailSeq
    BY <2>12, <2>4 DEF Whole
  <2>15. Whole(v)
    BY <2>8, <2>10, <2>11, <2>13, <2>14 DEF Whole
  <2> QED
    BY <2>4, <2>12, <2>15, <1>7 DEF v, pkt
<1> QED
  BY <1>5, <1>6, <1>7

\* Every byte is in its place, in every download from such a sender.
THEOREM DownloadWhole ==
    ASSUME EvenPackets
    PROVE  DlSpec => [](DlInv /\ Whole(dl))
<1>1. DlInit => Whole(dl)
  BY InitWhole DEF DlInit
<1>2. DlInv /\ Whole(dl) /\ [DlNext]_dlvars => Whole(dl)'
  <2> SUFFICES ASSUME DlInv, Whole(dl), [DlNext]_dlvars PROVE Whole(dl')
    OBVIOUS
  <2>1. Settled(dl)
    BY DEF DlInv
  <2>2. CASE StartDownload
    BY <2>2, InitWhole DEF StartDownload
  <2>3. ASSUME NEW s \in 0..(TailSeq + 1), RecvData(DataPacket(s)) PROVE Whole(dl')
    BY <2>1, <2>3, RecvWhole DEF RecvData
  <2>4. ASSUME NEW elapsed \in BOOLEAN, CheckDownload(elapsed) PROVE Whole(dl')
    <3>1. dl.timeout_cnt <= MAX_TIMEOUT_CNT /\ dl' = dl_check_timeout(dl, elapsed)
      BY <2>4 DEF CheckDownload, DlInv
    <3>2. /\ dl'.rwin = dl.rwin /\ dl'.next_pkt_expected = dl.next_pkt_expected
          /\ dl'.buffer = dl.buffer /\ dl'.finished = dl.finished
          /\ dl'.started = dl.started /\ dl'.data_length = dl.data_length
      BY <3>1, <2>1, CheckSound
    <3> QED
      BY <3>2 DEF Whole, Matches
  <2>5. CASE UNCHANGED dlvars
    BY <2>5 DEF dlvars
  <2> QED
    BY <2>2, <2>3, <2>4, <2>5 DEF DlNext
<1> QED
  BY <1>1, <1>2, DownloadInvariant, PTL DEF DlSpec

\* BufferMatchesWindow, for every chunk of even packets and every window size:
\* dl_recv's memcpy puts each packet in its place and overwrites no other,
\* whatever the order, the repetitions and the wraps of the bitmap.
THEOREM DownloadBuffer ==
    ASSUME EvenPackets
    PROVE  DlSpec => []BufferMatchesWindow
<1>1. Whole(dl) => BufferMatchesWindow
  BY DEF Whole, Matches, BufferMatchesWindow
<1> QED
  BY <1>1, DownloadWhole, PTL

\* A finished record holds the chunk, and one that has every packet is
\* finished.
LEMMA WholeIsChunk ==
    ASSUME EvenPackets, NEW d, Settled(d), Whole(d)
    PROVE  /\ d.finished => d.buffer = Chunk
           /\ 1..TailSeq \subseteq received(d.rwin) => d.finished
<1>1. /\ BT_CHUNK_SIZE \in Nat \ {0} /\ PAYLOAD \in Nat \ {0} /\ TailSeq \in Nat \ {0}
      /\ d.next_pkt_expected \in Nat \ {0} /\ d.next_pkt_expected = d.rwin.next_seq
      /\ d.buffer \in [Offsets -> Int]
      /\ d.next_pkt_expected \notin received(d.rwin)
  BY DownloadAssumption, PacketBase DEF Settled, Downloads
<1>2. d.finished => d.buffer = Chunk
  <2> SUFFICES ASSUME d.finished PROVE d.buffer = Chunk
    OBVIOUS
  <2>1. 1..TailSeq \subseteq received(d.rwin)
    BY <1>1 DEF Whole, received
  <2>2. ASSUME NEW b \in Offsets PROVE d.buffer[b] = b
    <3>1. b \in Nat /\ b < TailSeq * PAYLOAD
      BY <1>1, EvenChunk DEF Offsets
    <3>2. PICK k \in Nat : k = b \div PAYLOAD
      BY <3>1, <1>1, PieceOf
    <3>3. b >= k * PAYLOAD
      <4>1. b \in (k * PAYLOAD)..(k * PAYLOAD + PAYLOAD - 1)
        BY <3>1, <3>2, <1>1, PieceOf
      <4> QED
        BY <4>1, <1>1, <3>1
    <3>4. k < TailSeq
      <4> SUFFICES ASSUME TailSeq <= k PROVE FALSE
        BY <1>1
      <4>1. TailSeq * PAYLOAD <= k * PAYLOAD
        BY <1>1, ProductOrder
      <4>2. PICK p \in Int, q \in Int : p = k * PAYLOAD /\ q = TailSeq * PAYLOAD
        BY <1>1
      <4> QED
        BY <4>1, <4>2, <3>1, <3>3
    <3>5. k + 1 \in received(d.rwin)
      BY <3>4, <2>1, <1>1
    <3> QED
      BY <3>2, <3>5 DEF Whole, Matches
  <2> QED
    BY <2>2, <1>1 DEF Chunk
<1>3. 1..TailSeq \subseteq received(d.rwin) => d.finished
  BY <1>1 DEF Whole
<1> QED
  BY <1>2, <1>3

\* FinishedIsWhole: dl_recv ends a download when, and only when, the whole
\* chunk is in the buffer, so the SHA-1 check sees what was sent.
THEOREM DownloadFinished ==
    ASSUME EvenPackets
    PROVE  DlSpec => []FinishedIsWhole
<1>1. DlInv /\ Whole(dl) => FinishedIsWhole
  BY WholeIsChunk DEF DlInv, FinishedIsWhole
<1> QED
  BY <1>1, DownloadWhole, PTL
=============================================================================
