-------------------------- MODULE PeerServerProofs --------------------------
(***************************************************************************)
(* Proofs about PeerServer, for every number of peers, connections, chunks *)
(* and files.                                                              *)
(***************************************************************************)
EXTENDS PeerServer, FiniteSetTheorems, SequenceTheorems, TLAPS

\* Taking the k-th entry out of a queue leaves a queue.
LEMMA RemoveAtType ==
    ASSUME NEW S, NEW q \in Seq(S), NEW k \in 1..Len(q)
    PROVE  RemoveAt(q, k) \in Seq(S)
<1>1. Len(q) \in Nat /\ \A i \in 1..Len(q) : q[i] \in S
  BY LenProperties, ElementOfSeq
<1>2. SubSeq(q, 1, k - 1) \in Seq(S)
  BY <1>1, SubSeqProperties
<1>3. SubSeq(q, k + 1, Len(q)) \in Seq(S)
  BY <1>1, SubSeqProperties
<1> QED
  BY <1>2, <1>3, ConcatProperties DEF RemoveAt

\* A queue that comes with an IHAVE is a sequence of hashes.
LEMMA QueuesType == ASSUME NEW q \in Queues PROVE q \in Seq(Hashes)
<1>1. PICK n \in 1..QLEN : q \in [1..n -> Hashes]
  BY DEF Queues
<1> QED
  BY <1>1, PeerServerAssumption, SeqDef

\* try_send_get on any queue keeps the types of what it assigns.
LEMMA TryTypes ==
    ASSUME PsTypeOK, NEW p \in Peers, NEW q \in Seq(Hashes), try_send_get(p, q)
    PROVE  /\ hasqueue' \in [Peers -> Seq(Hashes)]
           /\ state' \in [Slots -> {"unfetched", "fetching", "fetched"}]
           /\ is_downloading' \in [Peers -> BOOLEAN]
           /\ dl' \in [Peers -> [get_index : Slots, filename : OutFiles \cup {NoFile},
                                 sha1 : Hashes \cup {NoHash}]]
           /\ dl_num' \in Int
<1>1. CASE NothingWanted(q) /\ OnlyQueue(p, q)
  BY <1>1 DEF OnlyQueue, PsTypeOK
<1>2. ASSUME NEW k \in 1..Len(q), NEW i \in Slots, StartDownload(p, q, k, i)
      PROVE  /\ hasqueue' \in [Peers -> Seq(Hashes)]
             /\ state' \in [Slots -> {"unfetched", "fetching", "fetched"}]
             /\ is_downloading' \in [Peers -> BOOLEAN]
             /\ dl' \in [Peers -> [get_index : Slots, filename : OutFiles \cup {NoFile},
                                   sha1 : Hashes \cup {NoHash}]]
             /\ dl_num' \in Int
  <2>1. RemoveAt(q, k) \in Seq(Hashes)
    BY RemoveAtType
  <2> QED
    BY <1>2, <2>1 DEF StartDownload, PsTypeOK
<1> QED
  BY <1>1, <1>2 DEF try_send_get

\* Every step keeps the types, one action at a time.
LEMMA TypesKept == ASSUME PsTypeOK, [PsNext]_psvars PROVE PsTypeOK'
<1> USE PeerServerAssumption
<1>1. ASSUME NEW p \in Peers, RecvWhohas(p) PROVE PsTypeOK'
  BY <1>1 DEF PsTypeOK, RecvWhohas, Goto, getvars, numvars
<1>2. ASSUME NEW p \in Peers, NEW q \in Queues, RecvIhave(p, q) PROVE PsTypeOK'
  <2>1. q \in Seq(Hashes) /\ hasqueue[p] \in Seq(Hashes) /\ <<>> \in Seq(Hashes)
    BY QueuesType, EmptySeq DEF PsTypeOK
  <2>2. /\ hasqueue' \in [Peers -> Seq(Hashes)]
        /\ state' \in [Slots -> {"unfetched", "fetching", "fetched"}]
        /\ is_downloading' \in [Peers -> BOOLEAN]
        /\ dl' \in [Peers -> [get_index : Slots, filename : OutFiles \cup {NoFile},
                              sha1 : Hashes \cup {NoHash}]]
        /\ dl_num' \in Int
    <3>1. CASE try_send_get(p, q)
      BY <2>1, <3>1, TryTypes
    <3>2. ASSUME NEW r \in Seq(Hashes), OnlyQueue(p, r)
          PROVE  /\ hasqueue' \in [Peers -> Seq(Hashes)]
                 /\ UNCHANGED <<state, is_downloading, dl, dl_num>>
      BY <3>2 DEF OnlyQueue, PsTypeOK
    <3> QED
      BY <1>2, <2>1, <3>1, <3>2 DEF RecvIhave, PsTypeOK
  <2>3. pc' = "input" /\ idx' = 1 /\ is_alive' \in [Peers -> BOOLEAN]
    BY <1>2 DEF PsTypeOK, RecvIhave, Goto
  <2>4. UNCHANGED <<ret, whohas_recent, is_uploading, loaded, sha1, count, dl_filename, written,
                    ul_num, dl_remain>>
    BY <1>2 DEF RecvIhave
  <2> QED
    BY <2>2, <2>3, <2>4 DEF PsTypeOK
<1>3. ASSUME NEW p \in Peers, NEW hash \in Hashes, RecvGet(p, hash) PROVE PsTypeOK'
  <2>1. PICK mapped \in BOOLEAN : start_upload(p, mapped)
    BY <1>3 DEF RecvGet
  <2>2. loaded' \in [Peers -> BOOLEAN] /\ ul_num' \in Int
    BY <2>1 DEF start_upload, PsTypeOK
  <2>3. pc' = "input" /\ idx' = 1 /\ is_uploading' \in [Peers -> BOOLEAN]
    BY <1>3 DEF PsTypeOK, RecvGet, Goto
  <2>4. UNCHANGED <<ret, whohas_recent, is_alive, is_downloading, hasqueue, dl,
                    sha1, state, count, dl_filename, written, dl_num, dl_remain>>
    BY <1>3 DEF RecvGet, getvars
  <2> QED
    BY <2>2, <2>3, <2>4 DEF PsTypeOK
<1>4. ASSUME NEW p \in Peers, NEW intact \in BOOLEAN, NEW saved \in BOOLEAN,
             RecvLastData(p, intact, saved)
      PROVE  PsTypeOK'
  <2>1. dl_save_buffer(p, check_hash_succeed(p, intact), saved)
    BY <1>4 DEF RecvLastData
  <2>2. dl[p].get_index \in Slots /\ dl[p].filename \in OutFiles \cup {NoFile}
    BY DEF PsTypeOK
  <2>3. state' \in [Slots -> {"unfetched", "fetching", "fetched"}]
    BY <2>1, <2>2 DEF dl_save_buffer, MarkFetched, PsTypeOK
  <2>4. written' \subseteq (OutFiles \cup {NoFile}) \X (Hashes \cup {NoHash})
    BY <2>1, <2>2 DEF dl_save_buffer, Write, PsTypeOK
  <2>5. dl_remain' \in Int
    BY <2>1 DEF dl_save_buffer, PsTypeOK
  <2> QED
    BY <1>4, <2>3, <2>4, <2>5 DEF PsTypeOK, RecvLastData, Goto
<1>5. ASSUME NEW p \in Peers, RecvLastAck(p) PROVE PsTypeOK'
  BY <1>5 DEF PsTypeOK, RecvLastAck, Goto, getvars
<1>6. ASSUME NEW p \in Peers, RecvAckUnmapped(p) PROVE PsTypeOK'
  BY <1>6 DEF PsTypeOK, RecvAckUnmapped, Goto, getvars, numvars, peervars
<1>7. ASSUME NEW f \in GetFiles, NEW out \in OutFiles, ProcessGet(f, out) PROVE PsTypeOK'
  <2>1. CASE f \in DOMAIN ChunkFiles
    <3>1. ChunkFiles[f] \in Seq(Hashes) /\ Len(ChunkFiles[f]) \in 0..MAX_CHUNK_NUM
      BY <2>1, LenProperties
    <3>2. \A i \in 1..Len(ChunkFiles[f]) : ChunkFiles[f][i] \in Hashes
      BY <3>1, ElementOfSeq
    <3>3. sha1' \in [Slots -> Hashes \cup {NoHash}]
      BY <1>7, <2>1, <3>1, <3>2 DEF ProcessGet, PsTypeOK, Slots
    <3>4. state' \in [Slots -> {"unfetched", "fetching", "fetched"}]
      BY <1>7, <2>1, <3>1 DEF ProcessGet, PsTypeOK
    <3> QED
      BY <1>7, <2>1, <3>1, <3>3, <3>4 DEF PsTypeOK, ProcessGet, peervars
  <2>2. CASE f \notin DOMAIN ChunkFiles
    BY <1>7, <2>2 DEF PsTypeOK, ProcessGet, peervars
  <2> QED
    BY <2>1, <2>2
<1>8. CASE WhohasAges
  BY <1>8 DEF PsTypeOK, WhohasAges, getvars, numvars, peervars
<1>9. CASE NoEvent \/ InputDone
  BY <1>9 DEF PsTypeOK, NoEvent, InputDone, Goto, getvars, numvars, peervars
<1>10. CASE CheckPeer
  <2>1. idx \in Peers /\ idx' = idx + 1 /\ idx' \in 1..(NPEERS + 1)
    BY <1>10 DEF CheckPeer, Peers
  <2>2. CASE UNCHANGED <<peervars, state, dl_num, ul_num>>
    BY <1>10, <2>1, <2>2 DEF PsTypeOK, CheckPeer, peervars
  <2>3. CASE Abort(idx)
    <3>1. /\ state' \in [Slots -> {"unfetched", "fetching", "fetched"}]
          /\ dl_num' \in Int /\ ul_num' \in Int
      BY <2>1, <2>3 DEF PsTypeOK, Abort, kill_download, kill_upload
    <3> QED
      BY <1>10, <2>1, <2>3, <3>1 DEF PsTypeOK, CheckPeer, Abort, die
  <2> QED
    BY <1>10, <2>2, <2>3 DEF CheckPeer
<1>11. CASE CheckDone \/ RefreshDone
  <2>1. /\ pc' \in {"refresh", "select", "input"} /\ idx' = 1
        /\ ret' \in {"select", "input"}
    BY <1>11 DEF PsTypeOK, CheckDone, RefreshDone, Goto
  <2>2. whohas_recent' \in BOOLEAN
    BY <1>11 DEF PsTypeOK, CheckDone, RefreshDone
  <2>3. UNCHANGED <<peervars, getvars, numvars>>
    BY <1>11 DEF CheckDone, RefreshDone
  <2> QED
    BY <2>1, <2>2, <2>3 DEF PsTypeOK, getvars, numvars, peervars
<1>12. CASE RefreshPeer
  <2>1. idx \in Peers /\ idx' = idx + 1 /\ idx' \in 1..(NPEERS + 1)
    BY <1>12 DEF RefreshPeer, Peers
  <2>2. hasqueue[idx] \in Seq(Hashes)
    BY <2>1 DEF PsTypeOK
  <2>3. CASE try_send_get(idx, hasqueue[idx])
    BY <1>12, <2>1, <2>2, <2>3, TryTypes DEF PsTypeOK, RefreshPeer
  <2>4. CASE UNCHANGED <<hasqueue, state, is_downloading, dl, dl_num>>
    BY <1>12, <2>1, <2>4 DEF PsTypeOK, RefreshPeer
  <2> QED
    BY <1>12, <2>3, <2>4 DEF RefreshPeer
<1>13. CASE UNCHANGED psvars
  BY <1>13 DEF PsTypeOK, psvars, loopvars, peervars, getvars, numvars
<1> QED
  BY <1>1, <1>2, <1>3, <1>4, <1>5, <1>6, <1>7, <1>8, <1>9, <1>10, <1>11, <1>12, <1>13
     DEF PsNext, RecvPacket, Loop

-----------------------------------------------------------------------------
\* the peers for which a flag is set
On(flag) == {p \in Peers : flag[p]}

\* Setting or clearing the flag of one peer moves the number by at most one.
LEMMA CountFlags ==
    ASSUME NEW f \in [Peers -> BOOLEAN], NEW p \in Peers
    PROVE  /\ Cardinality(On(f)) \in Nat
           /\ Cardinality(On([f EXCEPT ![p] = TRUE])) =
                 IF f[p] THEN Cardinality(On(f)) ELSE Cardinality(On(f)) + 1
           /\ Cardinality(On([f EXCEPT ![p] = FALSE])) =
                 IF f[p] THEN Cardinality(On(f)) - 1 ELSE Cardinality(On(f))
<1>1. IsFiniteSet(Peers)
  BY PeerServerAssumption, FS_Interval DEF Peers
<1>2. IsFiniteSet(On(f))
  BY <1>1, FS_Subset DEF On
<1>3. On([f EXCEPT ![p] = TRUE]) = On(f) \cup {p}
  BY DEF On
<1>4. On([f EXCEPT ![p] = FALSE]) = On(f) \ {p}
  BY DEF On
<1>5. p \in On(f) <=> f[p]
  BY DEF On
<1>6. Cardinality(On(f)) \in Nat
  BY <1>2, FS_CardinalityType
<1>7. Cardinality(On(f) \cup {p}) = IF p \in On(f) THEN Cardinality(On(f))
                                   ELSE Cardinality(On(f)) + 1
  BY <1>2, FS_AddElement
<1>8. Cardinality(On(f) \ {p}) = IF p \in On(f) THEN Cardinality(On(f)) - 1
                                ELSE Cardinality(On(f))
  BY <1>2, FS_RemoveElement
<1> QED
  BY <1>3, <1>4, <1>5, <1>6, <1>7, <1>8

\* a download of p begins
Fetch(p) ==
    /\ ~is_downloading[p] /\ dl_num < max_conn
    /\ is_downloading' = [is_downloading EXCEPT ![p] = TRUE]
    /\ dl_num' = dl_num + 1

\* the download of p ends, if there is one
EndFetch(p) ==
    /\ is_downloading' = [is_downloading EXCEPT ![p] = FALSE]
    /\ dl_num' = IF is_downloading[p] THEN dl_num - 1 ELSE dl_num

\* try_send_get begins one download or none.
LEMMA TryFetches ==
    ASSUME NEW p \in Peers, NEW q, ~is_downloading[p], dl_num < max_conn, try_send_get(p, q)
    PROVE  UNCHANGED <<is_downloading, dl_num>> \/ Fetch(p)
BY DEF try_send_get, StartDownload, OnlyQueue, Fetch

\* Whatever happens, at most one download begins or ends, where there is
\* room for it, and dl_num is told.
LEMMA DownloadSteps ==
    ASSUME PsTypeOK, [PsNext]_psvars
    PROVE  \/ UNCHANGED <<is_downloading, dl_num>>
           \/ \E p \in Peers : Fetch(p) \/ EndFetch(p)
<1> DEFINE Goal == \/ UNCHANGED <<is_downloading, dl_num>>
                   \/ \E p \in Peers : Fetch(p) \/ EndFetch(p)
<1>1. ASSUME NEW p \in Peers, RecvWhohas(p) PROVE Goal
  BY <1>1 DEF RecvWhohas, numvars
<1>2. ASSUME NEW p \in Peers, NEW q, RecvIhave(p, q) PROVE Goal
  BY <1>2, TryFetches DEF RecvIhave, OnlyQueue
<1>3. ASSUME NEW p \in Peers, NEW hash, RecvGet(p, hash) PROVE Goal
  BY <1>3 DEF RecvGet
<1>4. ASSUME NEW p \in Peers, NEW intact, NEW saved, RecvLastData(p, intact, saved)
      PROVE  Goal
  <2>1. EndFetch(p)
    BY <1>4 DEF RecvLastData, EndFetch
  <2> QED
    BY <2>1
<1>5. ASSUME NEW p \in Peers, RecvLastAck(p) \/ RecvAckUnmapped(p) PROVE Goal
  BY <1>5 DEF RecvLastAck, RecvAckUnmapped, peervars, numvars
<1>6. ASSUME NEW f, NEW out, ProcessGet(f, out) PROVE Goal
  BY <1>6 DEF ProcessGet, peervars
<1>7. CASE WhohasAges \/ NoEvent \/ InputDone \/ CheckDone \/ RefreshDone
  BY <1>7 DEF WhohasAges, NoEvent, InputDone, CheckDone, RefreshDone, peervars, numvars
<1>8. CASE CheckPeer
  <2>1. idx \in Peers
    BY <1>8 DEF CheckPeer
  <2>2. ASSUME Abort(idx) PROVE EndFetch(idx)
    BY <2>2 DEF Abort, kill_download, die, EndFetch
  <2> QED
    BY <1>8, <2>1, <2>2 DEF CheckPeer, peervars
<1>9. CASE RefreshPeer
  <2>1. idx \in Peers /\ dl_num < max_conn
    BY <1>9 DEF RefreshPeer
  <2>2. ASSUME ~is_downloading[idx], try_send_get(idx, hasqueue[idx]) PROVE Goal
    BY <2>1, <2>2, TryFetches
  <2> QED
    BY <1>9, <2>2 DEF RefreshPeer, good_for_download
<1>10. CASE UNCHANGED psvars
  BY <1>10 DEF psvars, peervars, numvars
<1> QED
  BY <1>1, <1>2, <1>3, <1>4, <1>5, <1>6, <1>7, <1>8, <1>9, <1>10
     DEF PsNext, RecvPacket, Loop

\* an upload to p begins, in the place of the one in progress if there is
\* one; it is counted if its chunk could be mapped
Serve(p) ==
    /\ ul_num < max_conn
    /\ is_uploading' = [is_uploading EXCEPT ![p] = TRUE]
    /\ \E mapped \in {TRUE, ~MMAP_FAILS} :
          ul_num' = ul_num - (IF is_uploading[p] THEN 1 ELSE 0) + (IF mapped THEN 1 ELSE 0)

\* the upload to p ends, if there is one
EndServe(p) ==
    /\ is_uploading' = [is_uploading EXCEPT ![p] = FALSE]
    /\ ul_num' = ul_num - (IF is_uploading[p] THEN 1 ELSE 0)

\* The same for uploads and ul_num.
LEMMA UploadSteps ==
    ASSUME PsTypeOK, [PsNext]_psvars
    PROVE  \/ UNCHANGED <<is_uploading, ul_num>>
           \/ \E p \in Peers : Serve(p) \/ EndServe(p)
<1> DEFINE Goal == \/ UNCHANGED <<is_uploading, ul_num>>
                   \/ \E p \in Peers : Serve(p) \/ EndServe(p)
<1>1. ASSUME NEW p \in Peers, RecvWhohas(p) PROVE Goal
  BY <1>1 DEF RecvWhohas, numvars
<1>2. ASSUME NEW p \in Peers, NEW q, RecvIhave(p, q) PROVE Goal
  BY <1>2 DEF RecvIhave
<1>3. ASSUME NEW p \in Peers, NEW hash, RecvGet(p, hash) PROVE Goal
  <2>1. PICK mapped \in {TRUE, ~(MMAP_FAILS /\ ul_num >= UL_NUM_MIN)} : start_upload(p, mapped)
    BY <1>3 DEF RecvGet
  <2>2. mapped \in {TRUE, ~MMAP_FAILS}
    BY PeerServerAssumption
  <2>3. Serve(p)
    BY <1>3, <2>1, <2>2 DEF RecvGet, serves, start_upload, Serve
  <2> QED
    BY <2>3
<1>4. ASSUME NEW p \in Peers, NEW intact, NEW saved, RecvLastData(p, intact, saved)
      PROVE  Goal
  BY <1>4 DEF RecvLastData
<1>5. ASSUME NEW p \in Peers, RecvLastAck(p) PROVE EndServe(p)
  BY <1>5 DEF RecvLastAck, EndServe
<1>6. ASSUME NEW p \in Peers, RecvAckUnmapped(p) PROVE Goal
  BY <1>6 DEF RecvAckUnmapped, peervars, numvars
<1>7. ASSUME NEW f, NEW out, ProcessGet(f, out) PROVE Goal
  BY <1>7 DEF ProcessGet, peervars
<1>8. CASE WhohasAges \/ NoEvent \/ InputDone \/ CheckDone \/ RefreshDone
  BY <1>8 DEF WhohasAges, NoEvent, InputDone, CheckDone, RefreshDone, peervars, numvars
<1>9. CASE CheckPeer
  <2>1. idx \in Peers
    BY <1>9 DEF CheckPeer
  <2>2. ASSUME Abort(idx) PROVE EndServe(idx)
    BY <2>2 DEF Abort, kill_upload, die, EndServe
  <2> QED
    BY <1>9, <2>1, <2>2 DEF CheckPeer, peervars
<1>10. CASE RefreshPeer
  BY <1>10 DEF RefreshPeer
<1>11. CASE UNCHANGED psvars
  BY <1>11 DEF psvars, peervars, numvars
<1> QED
  BY <1>1, <1>2, <1>3, <1>4, <1>5, <1>6, <1>7, <1>8, <1>9, <1>10, <1>11
     DEF PsNext, RecvPacket, Loop

-----------------------------------------------------------------------------
\* Every step keeps a busy peer alive: only a peer that is alive, or is made
\* so by the same packet, is given a transfer, and a death ends both.
LEMMA BusyKept == ASSUME PsTypeOK, BusyIsAlive, [PsNext]_psvars PROVE BusyIsAlive'
<1>1. ASSUME NEW p \in Peers, RecvWhohas(p) PROVE BusyIsAlive'
  BY <1>1 DEF BusyIsAlive, PsTypeOK, RecvWhohas
<1>2. ASSUME NEW p \in Peers, NEW q, RecvIhave(p, q) PROVE BusyIsAlive'
  <2>1. \/ UNCHANGED is_downloading
        \/ is_downloading' = [is_downloading EXCEPT ![p] = TRUE]
    BY <1>2 DEF RecvIhave, OnlyQueue, try_send_get, StartDownload
  <2> QED
    BY <1>2, <2>1 DEF BusyIsAlive, PsTypeOK, RecvIhave
<1>3. ASSUME NEW p \in Peers, NEW hash, RecvGet(p, hash) PROVE BusyIsAlive'
  BY <1>3 DEF BusyIsAlive, PsTypeOK, RecvGet, serves
<1>4. ASSUME NEW p \in Peers, NEW intact, NEW saved, RecvLastData(p, intact, saved)
      PROVE  BusyIsAlive'
  BY <1>4 DEF BusyIsAlive, PsTypeOK, RecvLastData
<1>5. ASSUME NEW p \in Peers, RecvLastAck(p) PROVE BusyIsAlive'
  BY <1>5 DEF BusyIsAlive, PsTypeOK, RecvLastAck
<1>6. ASSUME NEW p \in Peers, RecvAckUnmapped(p) PROVE BusyIsAlive'
  BY <1>6 DEF BusyIsAlive, RecvAckUnmapped, peervars
<1>7. ASSUME NEW f, NEW out, ProcessGet(f, out) PROVE BusyIsAlive'
  BY <1>7 DEF BusyIsAlive, ProcessGet, peervars
<1>8. CASE WhohasAges \/ NoEvent \/ InputDone \/ CheckDone \/ RefreshDone
  BY <1>8 DEF BusyIsAlive, WhohasAges, NoEvent, InputDone, CheckDone, RefreshDone, peervars
<1>9. CASE CheckPeer
  <2>1. CASE UNCHANGED peervars
    BY <2>1 DEF BusyIsAlive, peervars
  <2>2. CASE die(idx)
    BY <2>2 DEF BusyIsAlive, PsTypeOK, die
  <2> QED
    BY <1>9, <2>1, <2>2 DEF CheckPeer, Abort
<1>10. CASE RefreshPeer
  <2>1. CASE UNCHANGED is_downloading
    BY <1>10, <2>1 DEF BusyIsAlive, RefreshPeer
  <2>2. CASE is_alive[idx] /\ is_downloading' = [is_downloading EXCEPT ![idx] = TRUE]
    BY <1>10, <2>2 DEF BusyIsAlive, PsTypeOK, RefreshPeer
  <2> QED
    BY <1>10, <2>1, <2>2
       DEF RefreshPeer, good_for_download, OnlyQueue, try_send_get, StartDownload
<1>11. CASE UNCHANGED psvars
  BY <1>11 DEF BusyIsAlive, psvars, peervars
<1> QED
  BY <1>1, <1>2, <1>3, <1>4, <1>5, <1>6, <1>7, <1>8, <1>9, <1>10, <1>11
     DEF PsNext, RecvPacket, Loop

\* dl_num follows the number of downloads.
LEMMA DlNumKept == ASSUME PsTypeOK, DlNumExact, [PsNext]_psvars PROVE DlNumExact'
<1>1. is_downloading \in [Peers -> BOOLEAN] /\ dl_num \in Int
  BY DEF PsTypeOK
<1>2. dl_num = Cardinality(On(is_downloading)) /\ dl_num <= max_conn
  BY DEF DlNumExact, On
<1>3. SUFFICES dl_num' = Cardinality(On(is_downloading')) /\ dl_num' <= max_conn
  BY DEF DlNumExact, On
<1>4. CASE UNCHANGED <<is_downloading, dl_num>>
  BY <1>2, <1>4
<1>5. ASSUME NEW p \in Peers, Fetch(p)
      PROVE  dl_num' = Cardinality(On(is_downloading')) /\ dl_num' <= max_conn
  <2>1. Cardinality(On([is_downloading EXCEPT ![p] = TRUE])) = Cardinality(On(is_downloading)) + 1
    BY <1>1, <1>5, CountFlags DEF Fetch
  <2> QED
    BY <1>1, <1>2, <1>5, <2>1, PeerServerAssumption DEF Fetch
<1>6. ASSUME NEW p \in Peers, EndFetch(p)
      PROVE  dl_num' = Cardinality(On(is_downloading')) /\ dl_num' <= max_conn
  <2>1. Cardinality(On([is_downloading EXCEPT ![p] = FALSE])) =
           IF is_downloading[p] THEN dl_num - 1 ELSE dl_num
    BY <1>1, <1>2, CountFlags
  <2> QED
    BY <1>1, <1>2, <1>6, <2>1, PeerServerAssumption DEF EndFetch
<1> QED
  BY <1>4, <1>5, <1>6, DownloadSteps

\* ul_num never gets ahead of the number of uploads, and follows it exactly
\* when every chunk can be mapped.
LEMMA UlNumKept ==
    ASSUME PsTypeOK, [PsNext]_psvars
    PROVE  /\ NoSlotLeak => NoSlotLeak'
           /\ ~MMAP_FAILS /\ UlNumExact => UlNumExact'
<1> DEFINE n == Cardinality(On(is_uploading))
<1>1. is_uploading \in [Peers -> BOOLEAN] /\ ul_num \in Int
  BY DEF PsTypeOK
<1>2. /\ NoSlotLeak <=> ul_num <= n
      /\ UlNumExact <=> ul_num = n /\ ul_num <= max_conn
  BY DEF NoSlotLeak, UlNumExact, On
<1>3. /\ NoSlotLeak' <=> ul_num' <= n'
      /\ UlNumExact' <=> ul_num' = n' /\ ul_num' <= max_conn
  BY DEF NoSlotLeak, UlNumExact, On
<1>4. CASE UNCHANGED <<is_uploading, ul_num>>
  BY <1>2, <1>3, <1>4
<1>5. ASSUME NEW p \in Peers, Serve(p)
      PROVE  /\ NoSlotLeak => NoSlotLeak'
             /\ ~MMAP_FAILS /\ UlNumExact => UlNumExact'
  <2>1. n \in Nat /\ n' = IF is_uploading[p] THEN n ELSE n + 1
    BY <1>1, <1>5, CountFlags DEF Serve
  <2>2. PICK mapped \in {TRUE, ~MMAP_FAILS} :
           ul_num' = ul_num - (IF is_uploading[p] THEN 1 ELSE 0) + (IF mapped THEN 1 ELSE 0)
    BY <1>5 DEF Serve
  <2>3. /\ ul_num' <= IF is_uploading[p] THEN ul_num ELSE ul_num + 1
        /\ ~MMAP_FAILS => ul_num' = IF is_uploading[p] THEN ul_num ELSE ul_num + 1
        /\ ul_num' \in Int
    <3>1. CASE mapped
      BY <1>1, <2>2, <3>1
    <3>2. CASE ~mapped
      <4>1. MMAP_FAILS
        BY <3>2, Zenon
      <4>2. ul_num' = ul_num - (IF is_uploading[p] THEN 1 ELSE 0) + 0
        BY <2>2, <3>2
      <4> QED
        BY <1>1, <4>1, <4>2
    <3> QED
      BY <3>1, <3>2
  <2>4. ul_num < max_conn
    BY <1>5 DEF Serve
  <2> HIDE DEF n
  <2> QED
    BY <1>1, <1>2, <1>3, <2>1, <2>3, <2>4, PeerServerAssumption
<1>6. ASSUME NEW p \in Peers, EndServe(p)
      PROVE  /\ NoSlotLeak => NoSlotLeak'
             /\ ~MMAP_FAILS /\ UlNumExact => UlNumExact'
  <2>1. n \in Nat /\ n' = IF is_uploading[p] THEN n - 1 ELSE n
    BY <1>1, <1>6, CountFlags DEF EndServe
  <2>2. ul_num' = IF is_uploading[p] THEN ul_num - 1 ELSE ul_num
    BY <1>1, <1>6 DEF EndServe
  <2> HIDE DEF n
  <2> QED
    BY <1>1, <1>2, <1>3, <2>1, <2>2, PeerServerAssumption
<1> QED
  BY <1>4, <1>5, <1>6, UploadSteps

-----------------------------------------------------------------------------
(***************************************************************************)
(* The chunks of the file being fetched, when the user waits for one file  *)
(* before asking for the next (OVERLAP is FALSE; the run second_get shows  *)
(* what happens otherwise).                                                *)
(***************************************************************************)
\* a peer that is downloading has a chunk of the list, marked as in flight,
\* for the file the user asked for last
Held ==
    \A p \in Peers : is_downloading[p] =>
        /\ dl[p].get_index \in 1..count
        /\ state[dl[p].get_index] = "fetching"
        /\ dl[p].filename = dl_filename

\* no two peers have the same chunk
Alone ==
    \A p, r \in Peers :
        is_downloading[p] /\ is_downloading[r] /\ dl[p].get_index = dl[r].get_index => p = r

\* a chunk in flight is with some peer
Owned ==
    \A i \in 1..count : state[i] = "fetching" =>
        \E p \in Peers : is_downloading[p] /\ dl[p].get_index = i

ChunkInv == Held /\ Alone /\ Owned /\ RemainExact /\ FetchedIsWritten

chunkvars == <<is_downloading, dl, sha1, state, count, dl_remain, dl_filename, written>>

\* p is asked for chunk i
Asks(p, i) ==
    /\ ~is_downloading[p] /\ i \in 1..count /\ state[i] = "unfetched"
    /\ is_downloading' = [is_downloading EXCEPT ![p] = TRUE]
    /\ state' = [state EXCEPT ![i] = "fetching"]
    /\ dl' = [dl EXCEPT ![p] = [get_index |-> i, filename |-> dl_filename, sha1 |-> sha1[i]]]
    /\ UNCHANGED <<sha1, count, dl_remain, dl_filename, written>>

\* the download of p ends, and its chunk is kept or is to be fetched again
Ends(p, kept) ==
    /\ is_downloading[p]
    /\ is_downloading' = [is_downloading EXCEPT ![p] = FALSE]
    /\ state' = [state EXCEPT ![dl[p].get_index] = IF kept THEN "fetched" ELSE "unfetched"]
    /\ dl_remain' = IF kept THEN dl_remain - 1 ELSE dl_remain
    /\ written' = IF kept THEN written \cup {<<dl[p].filename, sha1[dl[p].get_index]>>}
                  ELSE written
    /\ UNCHANGED <<dl, sha1, count, dl_filename>>

\* the user asks for another list of chunks once the last one is complete
Replaces(n) ==
    /\ dl_remain = 0
    /\ count' = n /\ dl_remain' = n
    /\ \A i \in 1..n : state'[i] = "unfetched"
    /\ UNCHANGED <<is_downloading, dl>>

ChunkStep ==
    \/ UNCHANGED chunkvars
    \/ \E p \in Peers, i \in Slots : Asks(p, i)
    \/ \E p \in Peers, kept \in BOOLEAN : Ends(p, kept)
    \/ \E f \in GetFiles, out \in OutFiles :
           ProcessGet(f, out) /\ \E n \in 0..MAX_CHUNK_NUM : Replaces(n)

\* try_send_get asks for a chunk that is wanted, or for none.
LEMMA TryAsks ==
    ASSUME PsTypeOK, NEW p \in Peers, NEW q, ~is_downloading[p], try_send_get(p, q),
           UNCHANGED <<sha1, count, dl_remain, dl_filename, written>>
    PROVE  ChunkStep
<1>1. CASE OnlyQueue(p, q)
  BY <1>1 DEF OnlyQueue, ChunkStep, chunkvars
<1>2. ASSUME NEW k \in 1..Len(q), NEW i \in Slots, FirstWanted(q, k, i), StartDownload(p, q, k, i)
      PROVE  Asks(p, i)
  <2>1. i \in 1..count /\ state[i] = "unfetched"
    BY <1>2, PeerServerAssumption DEF FirstWanted, Wanted, Slots, PsTypeOK
  <2> QED
    BY <1>2, <2>1 DEF StartDownload, Asks
<1> QED
  BY <1>1, <1>2 DEF try_send_get, ChunkStep

\* Every step does one of these to the chunks.
LEMMA ChunkSteps ==
    ASSUME ~OVERLAP, PsTypeOK, Held, [PsNext]_psvars
    PROVE  ChunkStep
<1>1. ASSUME NEW p \in Peers, RecvWhohas(p) PROVE ChunkStep
  BY <1>1 DEF RecvWhohas, getvars, numvars, ChunkStep, chunkvars
<1>2. ASSUME NEW p \in Peers, NEW q, RecvIhave(p, q) PROVE ChunkStep
  <2>1. UNCHANGED <<sha1, count, dl_remain, dl_filename, written>>
    BY <1>2 DEF RecvIhave
  <2>2. ASSUME NEW r, OnlyQueue(p, r) PROVE ChunkStep
    BY <2>1, <2>2 DEF OnlyQueue, ChunkStep, chunkvars
  <2>3. ASSUME ~is_downloading[p], try_send_get(p, q) PROVE ChunkStep
    BY <2>1, <2>3, TryAsks
  <2> QED
    BY <1>2, <2>2, <2>3 DEF RecvIhave
<1>3. ASSUME NEW p \in Peers, NEW hash, RecvGet(p, hash) PROVE ChunkStep
  BY <1>3 DEF RecvGet, getvars, ChunkStep, chunkvars
<1>4. ASSUME NEW p \in Peers, NEW intact \in BOOLEAN, NEW saved \in BOOLEAN,
             RecvLastData(p, intact, saved)
      PROVE  ChunkStep
  <2> DEFINE kept == check_hash_succeed(p, intact) /\ saved
  <2>1. dl_save_buffer(p, check_hash_succeed(p, intact), saved) /\ is_downloading[p]
    BY <1>4 DEF RecvLastData
  <2>2. dl[p].get_index \in Slots /\ state[dl[p].get_index] = "fetching"
    BY <2>1 DEF Held, PsTypeOK
  <2>3. state' = [state EXCEPT ![dl[p].get_index] = IF kept THEN "fetched" ELSE "unfetched"]
    BY <2>1, <2>2 DEF dl_save_buffer, MarkFetched, PsTypeOK
  <2>4. Ends(p, kept)
    BY <1>4, <2>1, <2>3 DEF RecvLastData, dl_save_buffer, Write, Ends
  <2>5. kept \in BOOLEAN
    OBVIOUS
  <2> QED
    BY <2>4, <2>5 DEF ChunkStep
<1>5. ASSUME NEW p \in Peers, RecvLastAck(p) \/ RecvAckUnmapped(p) PROVE ChunkStep
  BY <1>5 DEF RecvLastAck, RecvAckUnmapped, peervars, getvars, numvars, ChunkStep, chunkvars
<1>6. ASSUME NEW f \in GetFiles, NEW out \in OutFiles, ProcessGet(f, out) PROVE ChunkStep
  <2>1. f \in DOMAIN ChunkFiles /\ dl_remain = 0
    BY <1>6 DEF ProcessGet
  <2>2. Len(ChunkFiles[f]) \in 0..MAX_CHUNK_NUM
    BY <2>1, PeerServerAssumption, LenProperties
  <2>3. \A i \in 1..Len(ChunkFiles[f]) : i \in Slots
    BY <2>2, PeerServerAssumption DEF Slots
  <2>4. Replaces(Len(ChunkFiles[f]))
    BY <1>6, <2>1, <2>3 DEF ProcessGet, Replaces, peervars
  <2> QED
    BY <1>6, <2>2, <2>4 DEF ChunkStep
<1>7. CASE WhohasAges \/ NoEvent \/ InputDone \/ CheckDone \/ RefreshDone
  BY <1>7 DEF WhohasAges, NoEvent, InputDone, CheckDone, RefreshDone, peervars, getvars,
              numvars, ChunkStep, chunkvars
<1>8. CASE CheckPeer
  <2>1. idx \in Peers /\ UNCHANGED <<sha1, count, dl_filename, written, dl_remain>>
    BY <1>8 DEF CheckPeer
  <2>2. CASE UNCHANGED <<peervars, state, dl_num, ul_num>>
    BY <2>1, <2>2 DEF ChunkStep, chunkvars, peervars
  <2>3. CASE Abort(idx) /\ is_downloading[idx]
    <3>1. Ends(idx, FALSE)
      BY <2>1, <2>3 DEF Abort, kill_download, die, Ends
    <3> QED
      BY <2>1, <3>1 DEF ChunkStep
  <2>4. CASE Abort(idx) /\ ~is_downloading[idx]
    <3>1. is_downloading' = is_downloading
      BY <2>1, <2>4 DEF Abort, die, PsTypeOK
    <3> QED
      BY <2>1, <2>4, <3>1 DEF Abort, kill_download, ChunkStep, chunkvars
  <2> QED
    BY <1>8, <2>2, <2>3, <2>4 DEF CheckPeer
<1>9. CASE RefreshPeer
  <2>1. idx \in Peers /\ UNCHANGED <<sha1, count, dl_remain, dl_filename, written>>
    BY <1>9 DEF RefreshPeer
  <2>2. CASE ~is_downloading[idx] /\ try_send_get(idx, hasqueue[idx])
    BY <2>1, <2>2, TryAsks
  <2>3. CASE UNCHANGED <<hasqueue, state, is_downloading, dl, dl_num>>
    BY <2>1, <2>3 DEF ChunkStep, chunkvars
  <2> QED
    BY <1>9, <2>2, <2>3 DEF RefreshPeer, good_for_download
<1>10. CASE UNCHANGED psvars
  BY <1>10 DEF psvars, peervars, getvars, numvars, ChunkStep, chunkvars
<1> QED
  BY <1>1, <1>2, <1>3, <1>4, <1>5, <1>6, <1>7, <1>8, <1>9, <1>10
     DEF PsNext, RecvPacket, Loop

\* the chunks RemainExact counts
Pending == {i \in 1..count : state[i] # "fetched"}

\* The chunks still to fetch can be counted.
LEMMA PendingFinite == ASSUME PsTypeOK PROVE IsFiniteSet(Pending) /\ Cardinality(Pending) \in Nat
<1>1. IsFiniteSet(1..count)
  BY PeerServerAssumption, FS_Interval DEF PsTypeOK
<1>2. Pending \in SUBSET (1..count)
  BY DEF Pending
<1> QED
  BY <1>1, <1>2, FS_Subset, FS_CardinalityType

\* Asking a peer for a chunk gives the chunk to that peer alone.
LEMMA AskKeeps ==
    ASSUME PsTypeOK, ChunkInv, NEW p \in Peers, NEW i \in Slots, Asks(p, i)
    PROVE  ChunkInv'
<1>1. /\ Held /\ Alone /\ Owned /\ RemainExact /\ FetchedIsWritten
      /\ i \in 1..count /\ 1..count \subseteq Slots /\ state[i] = "unfetched"
  BY PeerServerAssumption DEF ChunkInv, Asks, PsTypeOK, Slots
<1>2. /\ dl'[p].get_index = i /\ dl'[p].filename = dl_filename /\ is_downloading'[p]
      /\ \A r \in Peers \ {p} : dl'[r] = dl[r] /\ is_downloading'[r] = is_downloading[r]
      /\ state'[i] = "fetching" /\ \A j \in Slots \ {i} : state'[j] = state[j]
      /\ UNCHANGED <<sha1, count, dl_remain, dl_filename, written>>
  BY DEF Asks, PsTypeOK
<1>3. \A r \in Peers : is_downloading[r] => r # p /\ dl[r].get_index # i
  BY <1>1 DEF Held, Asks
<1>4. Held'
  BY <1>1, <1>2, <1>3 DEF Held
<1>5. Alone'
  BY <1>1, <1>2, <1>3 DEF Alone
<1>6. Owned'
  <2>1. SUFFICES ASSUME NEW j \in 1..count, state'[j] = "fetching"
                 PROVE  \E r \in Peers : is_downloading'[r] /\ dl'[r].get_index = j
    BY <1>2 DEF Owned
  <2>2. CASE j = i
    BY <1>2, <2>2
  <2>3. CASE j # i
    <3>1. PICK r \in Peers : is_downloading[r] /\ dl[r].get_index = j
      BY <1>1, <1>2, <2>1, <2>3 DEF Owned
    <3> QED
      BY <1>2, <1>3, <3>1
  <2> QED
    BY <2>2, <2>3
<1>7. RemainExact'
  <2>1. Pending' = Pending
    BY <1>1, <1>2 DEF Pending
  <2> QED
    BY <1>1, <1>2, <2>1 DEF RemainExact, Pending
<1>8. FetchedIsWritten'
  BY <1>1, <1>2 DEF FetchedIsWritten
<1> QED
  BY <1>4, <1>5, <1>6, <1>7, <1>8 DEF ChunkInv

\* The end of a download takes its chunk from that peer alone, and counts and
\* writes it exactly when it is kept.
LEMMA EndKeeps ==
    ASSUME PsTypeOK, ChunkInv, NEW p \in Peers, NEW kept \in BOOLEAN, Ends(p, kept)
    PROVE  ChunkInv'
<1> DEFINE i == dl[p].get_index
           s == IF kept THEN "fetched" ELSE "unfetched"
<1>1. /\ Held /\ Alone /\ Owned /\ RemainExact /\ FetchedIsWritten
      /\ i \in 1..count /\ 1..count \subseteq Slots /\ state[i] = "fetching"
      /\ dl[p].filename = dl_filename
  BY PeerServerAssumption DEF ChunkInv, Held, Ends, PsTypeOK, Slots
<1>2. /\ ~is_downloading'[p]
      /\ \A r \in Peers \ {p} : is_downloading'[r] = is_downloading[r]
      /\ state'[i] = s /\ \A j \in Slots \ {i} : state'[j] = state[j]
      /\ UNCHANGED <<dl, sha1, count, dl_filename>>
  BY <1>1 DEF Ends, PsTypeOK
<1>3. \A r \in Peers : is_downloading'[r] => r # p /\ is_downloading[r] /\ dl[r].get_index # i
  BY <1>1, <1>2 DEF Alone, Ends
<1>4. Held'
  BY <1>1, <1>2, <1>3 DEF Held
<1>5. Alone'
  BY <1>1, <1>2, <1>3 DEF Alone
<1>6. Owned'
  <2>1. SUFFICES ASSUME NEW j \in 1..count, state'[j] = "fetching"
                 PROVE  \E r \in Peers : is_downloading'[r] /\ dl'[r].get_index = j
    BY <1>2 DEF Owned
  <2>2. j # i
    BY <1>2, <2>1
  <2>3. PICK r \in Peers : is_downloading[r] /\ dl[r].get_index = j
    BY <1>1, <1>2, <2>1, <2>2 DEF Owned
  <2> QED
    BY <1>2, <2>2, <2>3
<1>7. RemainExact'
  <2>0. dl_remain = Cardinality(Pending) /\ dl_remain \in Int
    BY <1>1 DEF RemainExact, Pending, PsTypeOK
  <2>1. CASE kept
    <3>1. Pending' = Pending \ {i} /\ i \in Pending
      BY <1>1, <1>2, <2>1 DEF Pending
    <3>2. Cardinality(Pending \ {i}) = Cardinality(Pending) - 1
      BY <3>1, PendingFinite, FS_RemoveElement
    <3>3. dl_remain' = dl_remain - 1
      BY <2>1 DEF Ends
    <3> QED
      BY <2>0, <3>1, <3>2, <3>3 DEF RemainExact, Pending
  <2>2. CASE ~kept
    <3>1. Pending' = Pending
      BY <1>1, <1>2, <2>2 DEF Pending
    <3>2. dl_remain' = dl_remain
      BY <2>2 DEF Ends
    <3> QED
      BY <2>0, <3>1, <3>2 DEF RemainExact, Pending
  <2> QED
    BY <2>1, <2>2
<1>8. FetchedIsWritten'
  <2>1. SUFFICES ASSUME NEW j \in 1..count, state'[j] = "fetched"
                 PROVE  <<dl_filename, sha1[j]>> \in written'
    BY <1>2 DEF FetchedIsWritten
  <2>2. written \subseteq written'
    BY DEF Ends
  <2>3. CASE j # i
    BY <1>1, <1>2, <2>1, <2>2, <2>3 DEF FetchedIsWritten
  <2>4. CASE j = i
    <3>1. kept
      BY <1>2, <2>1, <2>4
    <3> QED
      BY <1>1, <2>4, <3>1 DEF Ends
  <2> QED
    BY <2>3, <2>4
<1> QED
  BY <1>4, <1>5, <1>6, <1>7, <1>8 DEF ChunkInv

\* When nothing remains nobody is downloading, so that a new list does not
\* pull a chunk away under a transfer.
LEMMA ReplaceKeeps ==
    ASSUME PsTypeOK, ChunkInv, NEW n \in 0..MAX_CHUNK_NUM, Replaces(n)
    PROVE  ChunkInv'
<1>1. /\ Held /\ RemainExact /\ dl_remain = 0
      /\ count' = n /\ dl_remain' = n
      /\ \A i \in 1..n : state'[i] = "unfetched"
      /\ UNCHANGED <<is_downloading, dl>>
  BY DEF ChunkInv, Replaces
<1>2. Pending = {}
  <2>1. Cardinality(Pending) = 0
    BY <1>1 DEF RemainExact, Pending
  <2> QED
    BY <2>1, PendingFinite, FS_EmptySet
<1>3. \A p \in Peers : ~is_downloading[p]
  BY <1>1, <1>2 DEF Held, Pending
<1>4. Held' /\ Alone' /\ Owned' /\ FetchedIsWritten'
  BY <1>1, <1>3 DEF Held, Alone, Owned, FetchedIsWritten
<1>5. RemainExact'
  <2>1. Pending' = 1..n
    BY <1>1 DEF Pending
  <2>2. Cardinality(1..n) = n
    BY PeerServerAssumption, FS_Interval
  <2> QED
    BY <1>1, <2>1, <2>2 DEF RemainExact, Pending
<1> QED
  BY <1>4, <1>5 DEF ChunkInv

\* Every step keeps the chunk invariant: it asks for a chunk, ends a download,
\* reads a new chunk file, or leaves the chunks alone.
LEMMA ChunkKept ==
    ASSUME ~OVERLAP, PsTypeOK, ChunkInv, [PsNext]_psvars
    PROVE  ChunkInv'
<1>1. CASE UNCHANGED chunkvars
  BY <1>1 DEF ChunkInv, Held, Alone, Owned, RemainExact, FetchedIsWritten, chunkvars
<1>2. ChunkStep
  BY ChunkSteps DEF ChunkInv
<1> QED
  BY <1>1, <1>2, AskKeeps, EndKeeps, ReplaceKeeps DEF ChunkStep

\* ChunkInv is what FetchingIsOwned says with cardinalities, and more.
LEMMA OwnedOnce == ASSUME PsTypeOK, ChunkInv PROVE FetchingIsOwned
<1>1. SUFFICES ASSUME NEW i \in Slots
               PROVE  Cardinality(Fetchers(i)) = IF i <= count /\ state[i] = "fetching"
                                                 THEN 1 ELSE 0
  BY DEF FetchingIsOwned
<1>2. i \in 1..count <=> i <= count
  BY PeerServerAssumption DEF PsTypeOK, Slots
<1>3. CASE i <= count /\ state[i] = "fetching"
  <2>1. PICK p \in Peers : is_downloading[p] /\ dl[p].get_index = i
    BY <1>2, <1>3 DEF ChunkInv, Owned
  <2>2. Fetchers(i) = {p}
    BY <2>1 DEF ChunkInv, Alone, Fetchers
  <2> QED
    BY <1>3, <2>2, FS_Singleton
<1>4. CASE ~(i <= count /\ state[i] = "fetching")
  <2>1. Fetchers(i) = {}
    BY <1>2, <1>4 DEF ChunkInv, Held, Fetchers
  <2> QED
    BY <1>4, <2>1, FS_EmptySet
<1> QED
  BY <1>3, <1>4

-----------------------------------------------------------------------------
\* No flag set, nothing counted.
LEMMA NothingOn == Cardinality({p \in Peers : [r \in Peers |-> FALSE][p]}) = 0
<1>1. {p \in Peers : [r \in Peers |-> FALSE][p]} = {}
  BY Zenon
<1> QED
  BY <1>1, FS_EmptySet

\* The types hold when the peer starts.
LEMMA InitTypes == PsInit => PsTypeOK
<1> SUFFICES ASSUME PsInit PROVE PsTypeOK
  OBVIOUS
<1>1. hasqueue \in [Peers -> Seq(Hashes)]
  BY EmptySeq DEF PsInit
<1>2. /\ dl \in [Peers -> [get_index : Slots, filename : OutFiles \cup {NoFile},
                          sha1 : Hashes \cup {NoHash}]]
      /\ count \in 0..MAX_CHUNK_NUM /\ idx \in 1..(NPEERS + 1)
  BY PeerServerAssumption DEF PsInit, Slots
<1>3. /\ sha1 \in [Slots -> Hashes \cup {NoHash}]
      /\ state \in [Slots -> {"unfetched", "fetching", "fetched"}]
      /\ is_alive \in [Peers -> BOOLEAN] /\ is_downloading \in [Peers -> BOOLEAN]
      /\ is_uploading \in [Peers -> BOOLEAN] /\ loaded \in [Peers -> BOOLEAN]
  BY DEF PsInit
<1>4. dl_filename \in OutFiles \cup {NoFile} /\ written = {} /\ whohas_recent \in BOOLEAN
  BY DEF PsInit
<1> QED
  BY <1>1, <1>2, <1>3, <1>4 DEF PsInit, PsTypeOK

\* Every reachable state of psvr and of the event loop is well typed, for
\* any number of peers, chunks and connections.
THEOREM PeerTypes == PsSpec => []PsTypeOK
<1>1. PsTypeOK /\ [PsNext]_psvars => PsTypeOK'
  BY TypesKept
<1> QED
  BY <1>1, InitTypes, PTL DEF PsSpec

\* A peer with a transfer is alive, so that check_all_timeout looks at it
\* and the transfer ends: also with overlapping GETs and failing mmaps.
THEOREM PeerBusyAlive == PsSpec => []BusyIsAlive
<1>1. PsInit => BusyIsAlive
  BY DEF PsInit, BusyIsAlive
<1>2. PsTypeOK /\ BusyIsAlive /\ [PsNext]_psvars => BusyIsAlive'
  BY BusyKept
<1> QED
  BY <1>1, <1>2, PeerTypes, PTL DEF PsSpec

\* dl_num is the number of downloads in progress and within max_conn, for
\* any number of peers and whatever max_conn is.
THEOREM PeerDlNum == PsSpec => []DlNumExact
<1>1. PsInit => DlNumExact
  BY NothingOn, PeerServerAssumption DEF PsInit, DlNumExact
<1>2. PsTypeOK /\ DlNumExact /\ [PsNext]_psvars => DlNumExact'
  BY DlNumKept
<1> QED
  BY <1>1, <1>2, PeerTypes, PTL DEF PsSpec

\* ul_num never exceeds the number of peers being served, also when mmap
\* fails any number of times: no upload slot is lost for good.
THEOREM PeerNoSlotLeak == PsSpec => []NoSlotLeak
<1>1. PsInit => NoSlotLeak
  BY NothingOn DEF PsInit, NoSlotLeak
<1>2. PsTypeOK /\ NoSlotLeak /\ [PsNext]_psvars => NoSlotLeak'
  BY UlNumKept
<1> QED
  BY <1>1, <1>2, PeerTypes, PTL DEF PsSpec

\* ul_num is the number of uploads in progress and within max_conn, as long
\* as no mmap fails.
THEOREM PeerUlNum == ASSUME ~MMAP_FAILS PROVE PsSpec => []UlNumExact
<1>1. PsInit => UlNumExact
  BY NothingOn, PeerServerAssumption DEF PsInit, UlNumExact
<1>2. PsTypeOK /\ UlNumExact /\ [PsNext]_psvars => UlNumExact'
  BY UlNumKept
<1> QED
  BY <1>1, <1>2, PeerTypes, PTL DEF PsSpec

\* When the peer starts no chunk is wanted.
LEMMA InitChunks == PsInit => ChunkInv
<1> SUFFICES ASSUME PsInit PROVE ChunkInv
  OBVIOUS
<1>1. count = 0 /\ dl_remain = 0 /\ \A p \in Peers : ~is_downloading[p]
  BY DEF PsInit
<1>2. {i \in 1..count : state[i] # "fetched"} = {}
  BY <1>1
<1>3. RemainExact
  BY <1>1, <1>2, FS_EmptySet DEF RemainExact
<1> QED
  BY <1>1, <1>3 DEF ChunkInv, Held, Alone, Owned, FetchedIsWritten

\* The chunks of the file: each one in flight has one peer, each peer one of
\* them, dl_remain counts what is missing, and what is fetched is written.
THEOREM PeerChunks == ASSUME ~OVERLAP PROVE PsSpec => []ChunkInv
<1>1. PsTypeOK /\ ChunkInv /\ [PsNext]_psvars => ChunkInv'
  BY ChunkKept
<1> QED
  BY <1>1, InitChunks, PeerTypes, PTL DEF PsSpec

\* A chunk marked fetching is being fetched from exactly one peer, and no
\* other chunk is, as long as GETs do not overlap.
THEOREM PeerFetchingOwned == ASSUME ~OVERLAP PROVE PsSpec => []FetchingIsOwned
<1>1. PsTypeOK /\ ChunkInv => FetchingIsOwned
  BY OwnedOnce
<1> QED
  BY <1>1, PeerTypes, PeerChunks, PTL

\* dl_remain is the number of chunks still to fetch, as long as GETs do not
\* overlap: "GOT" is printed exactly when the file is complete.
THEOREM PeerRemain == ASSUME ~OVERLAP PROVE PsSpec => []RemainExact
<1>1. ChunkInv => RemainExact
  BY DEF ChunkInv
<1> QED
  BY <1>1, PeerChunks, PTL

\* A chunk that counts as fetched was written to the file the user named, as
\* long as GETs do not overlap.
THEOREM PeerFetchedWritten == ASSUME ~OVERLAP PROVE PsSpec => []FetchedIsWritten
<1>1. ChunkInv => FetchedIsWritten
  BY DEF ChunkInv
<1> QED
  BY <1>1, PeerChunks, PTL

\* A fetched chunk stays fetched until the next GET: a step asks only for
\* chunks that are unfetched, and ends only downloads of chunks in flight.
THEOREM PeerFetchedStays == ASSUME ~OVERLAP PROVE PsSpec => FetchedStays
<1> DEFINE Stays == \/ \E f \in GetFiles, out \in OutFiles : ProcessGet(f, out)
                    \/ \A i \in 1..count : state[i] = "fetched" => state'[i] = "fetched"
<1>1. PsTypeOK /\ ChunkInv /\ [PsNext]_psvars => [Stays]_psvars
  <2>1. SUFFICES ASSUME PsTypeOK, ChunkInv, [PsNext]_psvars PROVE Stays
    OBVIOUS
  <2>2. ChunkStep /\ Held
    BY <2>1, ChunkSteps DEF ChunkInv
  <2>3. 1..count \subseteq Slots
    BY <2>1, PeerServerAssumption DEF PsTypeOK, Slots
  <2>4. CASE UNCHANGED chunkvars
    BY <2>4 DEF chunkvars
  <2>5. ASSUME NEW p \in Peers, NEW i \in Slots, Asks(p, i) PROVE Stays
    <3>1. \A j \in 1..count : state[j] = "fetched" => state'[j] = state[j]
      BY <2>3, <2>5 DEF Asks, PsTypeOK
    <3> QED
      BY <3>1
  <2>6. ASSUME NEW p \in Peers, NEW kept \in BOOLEAN, Ends(p, kept) PROVE Stays
    <3>1. dl[p].get_index \in Slots /\ state[dl[p].get_index] = "fetching"
      BY <2>2, <2>3, <2>6 DEF Held, Ends
    <3> QED
      BY <2>3, <2>6, <3>1 DEF Ends, PsTypeOK
  <2> QED
    BY <2>2, <2>4, <2>5, <2>6 DEF ChunkStep
<1> QED
  BY <1>1, PeerTypes, PeerChunks, PTL DEF PsSpec, FetchedStays
=============================================================================
