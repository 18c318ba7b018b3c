----------------------------- MODULE PeerServer -----------------------------
(***************************************************************************)
(* The session layer of one peer (peer.c, parse_packet.c, peer_server.c,   *)
(* peerlist.c, chunklist.c and the session functions of send_helper.c and  *)
(* download.c): which chunks are wanted, which peer each is fetched from,  *)
(* who is served, and how many connections that makes.                     *)
(*                                                                         *)
(* The event loop is single-threaded.  pc is the place in peer_run:        *)
(*   "select"   waiting; a packet is handled, or select() times out        *)
(*   "input"    lines typed by the user are handled                        *)
(*   "check"    the for loop of check_all_timeout, at peer idx             *)
(*   "refresh"  the for loop of refresh_chunk_download, at peer idx        *)
(*   "crashed"  the process has died                                       *)
(* and ret is where refresh_chunk_download returns to.                     *)
(*                                                                         *)
(* The transport is left to Transfer: a DATA packet completes its download *)
(* or does not, an ACK its upload, and a transfer may be found to have     *)
(* timed out too often whenever it is checked.  The other peers send any   *)
(* valid packet at any time.  A chunk is known by its hash, which stands   *)
(* for its place in the output file too; a completed download holds what   *)
(* was asked for, or something else, which the hash check refuses.         *)
(***************************************************************************)
EXTENDS Integers, Sequences, FiniteSets, SequencesExt

CONSTANTS
    NPEERS,        \* other peers in the peer list
    max_conn,      \* -m: limit on downloads, and on uploads
    Hashes,        \* chunk hashes
    HasHashes,     \* those in haschunks, which this peer can upload
    ChunkFiles,    \* readable chunk files: name -> sequence of hashes
    GetFiles,      \* chunk file names the user types, readable or not
    OutFiles,      \* output file names the user types
    MAX_CHUNK_NUM, \* slots of a ChunkList (4096)
    QLEN,          \* model bound: hashes in an IHAVE packet
    OVERLAP,       \* may the user type GET before the last one is done?
    MMAP_FAILS,    \* may mmap fail in load_data?
    UL_NUM_MIN     \* model bound: mmap does not fail with ul_num below this

Peers == 1..NPEERS
Slots == 1..MAX_CHUNK_NUM

ASSUME PeerServerAssumption ==
    /\ NPEERS \in Nat /\ max_conn \in Nat
    /\ MAX_CHUNK_NUM \in Nat \ {0}
    /\ HasHashes \subseteq Hashes
    /\ \A f \in DOMAIN ChunkFiles :
          ChunkFiles[f] \in Seq(Hashes) /\ Len(ChunkFiles[f]) <= MAX_CHUNK_NUM
    /\ QLEN \in Nat
    /\ OVERLAP \in BOOLEAN /\ MMAP_FAILS \in BOOLEAN
    /\ UL_NUM_MIN \in Int

NoHash == "none"
NoFile == "none"

VARIABLES
    pc, idx, ret,                             \* the event loop
    is_alive, is_downloading, is_uploading,   \* Peer flags, by peer
    hasqueue,                                 \* Peer.hasqueue: hashes offered
    dl,                                       \* Peer.dl: get_index, filename,
                                              \*   and the hash asked for
    loaded,                                   \* Peer.ul.data is mapped
    sha1, state, count,                       \* psvr.getchunks
    dl_num, ul_num, dl_remain,                \* psvr counters
    dl_filename,                              \* psvr.dl_filename
    whohas_recent,                            \* less than DEFAULT_TIMEOUT since
                                              \*   psvr.last_whohas
    written                                   \* chunks in output files

loopvars == <<pc, idx, ret, whohas_recent>>
peervars == <<is_alive, is_downloading, is_uploading, hasqueue, dl, loaded>>
getvars  == <<sha1, state, count, dl_filename, written>>
numvars  == <<dl_num, ul_num, dl_remain>>
psvars   == <<loopvars, peervars, getvars, numvars>>

\* psvr is a global, zero before init_peerlist and peer_init
PsInit ==
    /\ pc = "select" /\ idx = 1 /\ ret = "select"
    /\ is_alive       = [p \in Peers |-> FALSE]
    /\ is_downloading = [p \in Peers |-> FALSE]
    /\ is_uploading   = [p \in Peers |-> FALSE]
    /\ hasqueue       = [p \in Peers |-> <<>>]
    /\ dl     = [p \in Peers |-> [get_index |-> 1, filename |-> NoFile, sha1 |-> NoHash]]
    /\ loaded = [p \in Peers |-> FALSE]
    /\ sha1 = [i \in Slots |-> NoHash] /\ state = [i \in Slots |-> "unfetched"]
    /\ count = 0
    /\ dl_num = 0 /\ ul_num = 0 /\ dl_remain = 0
    /\ dl_filename = NoFile /\ written = {} /\ whohas_recent = FALSE

(***************************************************************************)
(* Helpers shared by the handlers                                          *)
(***************************************************************************)
Goto(where) == pc' = where /\ idx' = 1

\* entry k of queue q is the hash of slot i, and that chunk is unfetched
Wanted(q, k, i) == i <= count /\ state[i] = "unfetched" /\ sha1[i] = q[k]

\* find_unfetched_chunk: the first such entry, and the first slot for it
FirstWanted(q, k, i) ==
    /\ Wanted(q, k, i)
    /\ \A k2 \in 1..(k - 1), i2 \in Slots : ~Wanted(q, k2, i2)
    /\ \A i2 \in 1..(i - 1) : ~Wanted(q, k, i2)

NothingWanted(q) == \A k \in 1..Len(q), i \in Slots : ~Wanted(q, k, i)

\* mutant: the slot is numbered from 0
StartDownload_from_zero(p, q, k, i) ==
    /\ hasqueue' = [hasqueue EXCEPT ![p] = RemoveAt(q, k)]
    /\ state' = [state EXCEPT ![i] = "fetching"]
    /\ is_downloading' = [is_downloading EXCEPT ![p] = TRUE]
    /\ dl' = [dl EXCEPT ![p] = [get_index |-> i - 1, filename |-> dl_filename,
                                sha1 |-> sha1[i]]]
    /\ dl_num' = dl_num + 1

\* send_get and start_download; the entry leaves the queue
StartDownload(p, q, k, i) ==
    /\ hasqueue' = [hasqueue EXCEPT ![p] = RemoveAt(q, k)]
    /\ state' = [state EXCEPT ![i] = "fetching"]
    /\ is_downloading' = [is_downloading EXCEPT ![p] = TRUE]
    /\ dl' = [dl EXCEPT ![p] = [get_index |-> i, filename |-> dl_filename,
                                sha1 |-> sha1[i]]]
    /\ dl_num' = dl_num + 1

\* the peer's queue becomes q, and nothing is asked of it
OnlyQueue(p, q) ==
    /\ hasqueue' = [hasqueue EXCEPT ![p] = q]
    /\ UNCHANGED <<state, is_downloading, dl, dl_num>>

\* try_send_get on a peer whose queue is q
try_send_get(p, q) ==
    \/ \E k \in 1..Len(q), i \in Slots : FirstWanted(q, k, i) /\ StartDownload(p, q, k, i)
    \/ NothingWanted(q) /\ OnlyQueue(p, q)

(***************************************************************************)
(* parse_packet, one action per packet type                                *)
(***************************************************************************)
\* a packet that changes nothing here: from an unknown address, of another
\* type, refused by a guard of parse_packet, or absorbed by the transport;
\* or select() timed out
NoEvent ==
    /\ pc = "select" /\ Goto("input")
    /\ UNCHANGED <<ret, whohas_recent, peervars, getvars, numvars>>

\* WHOHAS; the reply (send_ihave) changes no state
RecvWhohas(p) ==
    /\ pc = "select" /\ Goto("input")
    /\ ul_num < max_conn
    /\ is_alive' = [is_alive EXCEPT ![p] = TRUE]
    /\ UNCHANGED <<ret, whohas_recent, is_downloading, is_uploading, hasqueue, dl, loaded,
                   getvars, numvars>>

\* IHAVE; parse_download replaces the queue by q, or empties it when it
\* runs out of memory
RecvIhave(p, q) ==
    /\ pc = "select" /\ Goto("input")
    /\ is_alive' = [is_alive EXCEPT ![p] = TRUE]
    /\ \/ is_downloading[p] /\ OnlyQueue(p, hasqueue[p])
       \/ ~is_downloading[p] /\ OnlyQueue(p, <<>>)
       \/ ~is_downloading[p] /\ dl_num >= max_conn /\ OnlyQueue(p, q)
       \/ ~is_downloading[p] /\ dl_num < max_conn /\ try_send_get(p, q)
    /\ UNCHANGED <<ret, whohas_recent, is_uploading, loaded, sha1, count, dl_filename, written,
                   ul_num, dl_remain>>

\* mutant: a GET of a peer that is not alive is served
serves_dead(p, hash) == ul_num < max_conn /\ hash \in HasHashes

\* the guards of GET; hash2Index finds the hash among haschunks
serves(p, hash) == is_alive[p] /\ ul_num < max_conn /\ hash \in HasHashes

\* mutant: the upload in progress is not killed first
start_upload_no_kill(p, mapped) ==
    /\ loaded' = [loaded EXCEPT ![p] = mapped]
    /\ ul_num' = ul_num + (IF mapped THEN 1 ELSE 0)

\* kill_upload where one is in progress, then start_upload, which counts the
\* upload only if load_data could map the chunk
start_upload(p, mapped) ==
    /\ loaded' = [loaded EXCEPT ![p] = mapped]
    /\ ul_num' = ul_num - (IF is_uploading[p] THEN 1 ELSE 0) + (IF mapped THEN 1 ELSE 0)

\* GET; the result of start_upload is not looked at
RecvGet(p, hash) ==
    /\ pc = "select" /\ Goto("input")
    /\ serves(p, hash)
    /\ \E mapped \in {TRUE, ~(MMAP_FAILS /\ ul_num >= UL_NUM_MIN)} : start_upload(p, mapped)
    /\ is_uploading' = [is_uploading EXCEPT ![p] = TRUE]
    /\ UNCHANGED <<ret, whohas_recent, is_alive, is_downloading, hasqueue, dl, getvars,
                   dl_num, dl_remain>>

\* the downloaded data is intact, and it is what the slot now asks for
check_hash_succeed(p, intact) == intact /\ dl[p].sha1 = sha1[dl[p].get_index]

\* the chunk p was asked for becomes "fetched" if it is kept, and "unfetched"
\* if it is not and was not fetched before
MarkFetched(p, kept) ==
    state' = [state EXCEPT ![dl[p].get_index] =
                 IF kept \/ @ = "fetched" THEN "fetched" ELSE "unfetched"]

\* the output file after a successful write
Write(p, kept) ==
    written' = IF kept THEN written \cup {<<dl[p].filename, sha1[dl[p].get_index]>>}
               ELSE written

\* mutant: the result of the write is not looked at
dl_save_buffer_unchecked(p, good, saved) ==
    /\ MarkFetched(p, good)
    /\ dl_remain' = IF good THEN dl_remain - 1 ELSE dl_remain
    /\ Write(p, good /\ saved)

\* mutant: a chunk that was not saved is counted too
dl_save_buffer_counts_all(p, good, saved) ==
    /\ MarkFetched(p, good /\ saved)
    /\ dl_remain' = dl_remain - 1
    /\ Write(p, good /\ saved)

\* dl_save_buffer, called if the hash is good; the write may fail
dl_save_buffer(p, good, saved) ==
    /\ MarkFetched(p, good /\ saved)
    /\ dl_remain' = IF good /\ saved THEN dl_remain - 1 ELSE dl_remain
    /\ Write(p, good /\ saved)

\* the last DATA packet of a download
RecvLastData(p, intact, saved) ==
    /\ pc = "select" /\ is_alive[p] /\ is_downloading[p]
    /\ dl_num' = dl_num - 1
    /\ is_downloading' = [is_downloading EXCEPT ![p] = FALSE]
    /\ dl_save_buffer(p, check_hash_succeed(p, intact), saved)
    /\ Goto(IF dl_remain' > 0 THEN "refresh" ELSE "input") /\ ret' = "input"
    /\ UNCHANGED <<whohas_recent, is_alive, is_uploading, hasqueue, dl, loaded,
                   sha1, count, dl_filename, ul_num>>

\* the ACK that completes an upload: finish_upload
RecvLastAck(p) ==
    /\ pc = "select" /\ Goto("input")
    /\ is_alive[p] /\ is_uploading[p] /\ loaded[p]
    /\ is_uploading' = [is_uploading EXCEPT ![p] = FALSE]
    /\ ul_num' = ul_num - 1
    /\ UNCHANGED <<ret, whohas_recent, is_alive, is_downloading, hasqueue, dl, loaded,
                   getvars, dl_num, dl_remain>>

\* an ACK for an upload whose chunk is not mapped: ul_send reads from it.
\* (Only for the chunk's first packet does send_packet see a null pointer
\* and send no data: that ACK is a NoEvent.)
RecvAckUnmapped(p) ==
    /\ pc = "select" /\ is_alive[p] /\ is_uploading[p] /\ ~loaded[p]
    /\ Goto("crashed")
    /\ UNCHANGED <<ret, whohas_recent, peervars, getvars, numvars>>

(***************************************************************************)
(* process_get: dl_filename is set before the chunk file is parsed; what   *)
(* parse_chunk does not overwrite stays in the slots beyond count.         *)
(***************************************************************************)
ProcessGet(f, out) ==
    /\ pc = "input"
    /\ OVERLAP \/ (dl_remain = 0 /\ f \in DOMAIN ChunkFiles)
    /\ dl_filename' = out
    /\ IF f \in DOMAIN ChunkFiles
       THEN LET list == ChunkFiles[f] IN
            /\ sha1'  = [i \in Slots |-> IF i <= Len(list) THEN list[i] ELSE sha1[i]]
            /\ state' = [i \in Slots |-> IF i <= Len(list) THEN "unfetched" ELSE state[i]]
            /\ count' = Len(list)
            /\ dl_remain' = Len(list)
            /\ whohas_recent' = TRUE
       ELSE UNCHANGED <<sha1, state, count, dl_remain, whohas_recent>>
    /\ UNCHANGED <<pc, idx, ret, peervars, written, dl_num, ul_num>>

InputDone ==
    /\ pc = "input" /\ Goto("check")
    /\ UNCHANGED <<ret, whohas_recent, peervars, getvars, numvars>>

(***************************************************************************)
(* check_all_timeout                                                       *)
(***************************************************************************)
\* mutant: kill_download also where there is no download
kill_download_unasked(p) ==
    /\ state' = [state EXCEPT ![dl[p].get_index] = "unfetched"]
    /\ dl_num' = dl_num - (IF is_downloading[p] THEN 1 ELSE 0)

\* mutant: a download is not killed with its peer
kill_download_never(p) == UNCHANGED <<state, dl_num>>

\* kill_download, where there is a download
kill_download(p) ==
    IF is_downloading[p]
    THEN state' = [state EXCEPT ![dl[p].get_index] = "unfetched"] /\ dl_num' = dl_num - 1
    ELSE UNCHANGED <<state, dl_num>>

\* mutant: the connection of a killed upload is not given back
kill_upload_keeps(p) == UNCHANGED ul_num

\* kill_upload, where there is an upload
kill_upload(p) == ul_num' = ul_num - (IF is_uploading[p] THEN 1 ELSE 0)

die(p) ==
    /\ is_alive' = [is_alive EXCEPT ![p] = FALSE]
    /\ is_downloading' = [is_downloading EXCEPT ![p] = FALSE]
    /\ is_uploading' = [is_uploading EXCEPT ![p] = FALSE]

\* both halves of the loop body do the same once one transfer of the peer
\* has timed out too often
Abort(p) == kill_download(p) /\ kill_upload(p) /\ die(p) /\ UNCHANGED <<hasqueue, dl, loaded>>

\* dl_check_timeout or ul_check_timeout may return more than MAX_TIMEOUT_CNT
\* (for an upload whose chunk is not mapped, once an ACK has set its timer)
MayTimeOut(p) == is_alive[p] /\ (is_downloading[p] \/ is_uploading[p])

CheckPeer ==
    /\ pc = "check" /\ idx \in Peers
    /\ idx' = idx + 1
    /\ \/ UNCHANGED <<peervars, state, dl_num, ul_num>>
       \/ MayTimeOut(idx) /\ Abort(idx)
    /\ UNCHANGED <<pc, ret, whohas_recent, sha1, count, dl_filename, written, dl_remain>>

\* mutant: check_all_timeout does not look for other peers
CheckDone_no_refresh ==
    /\ pc = "check" /\ idx > NPEERS
    /\ Goto("select") /\ ret' = "select"
    /\ UNCHANGED <<whohas_recent, peervars, getvars, numvars>>

CheckDone ==
    /\ pc = "check" /\ idx > NPEERS
    /\ Goto(IF dl_remain > 0 THEN "refresh" ELSE "select") /\ ret' = "select"
    /\ UNCHANGED <<whohas_recent, peervars, getvars, numvars>>

(***************************************************************************)
(* refresh_chunk_download                                                  *)
(***************************************************************************)
\* mutant: a peer already downloading is asked for another chunk
good_for_download_busy_too(p) == is_alive[p]

\* the negation of NOT_GOOD_FOR_DOWNLOAD
good_for_download(p) == is_alive[p] /\ ~is_downloading[p]

RefreshPeer ==
    /\ pc = "refresh" /\ idx \in Peers /\ dl_num < max_conn
    /\ idx' = idx + 1
    /\ IF good_for_download(idx)
       THEN try_send_get(idx, hasqueue[idx])
       ELSE UNCHANGED <<hasqueue, state, is_downloading, dl, dl_num>>
    /\ UNCHANGED <<pc, ret, whohas_recent, is_alive, is_uploading, loaded, sha1, count,
                   dl_filename, written, ul_num, dl_remain>>

RefreshEnds == pc = "refresh" /\ (idx > NPEERS \/ dl_num >= max_conn)

\* nobody to fetch from, and the last WHOHAS is long ago: ask again
ShouldAsk == dl_num = 0 /\ dl_remain > 0 /\ ~whohas_recent

RefreshDone ==
    /\ RefreshEnds /\ Goto(ret)
    /\ whohas_recent' = (whohas_recent \/ ShouldAsk)
    /\ UNCHANGED <<ret, peervars, getvars, numvars>>

\* the clock: DEFAULT_TIMEOUT has passed since the last WHOHAS
WhohasAges ==
    /\ pc = "select" /\ whohas_recent
    /\ whohas_recent' = FALSE
    /\ UNCHANGED <<pc, idx, ret, peervars, getvars, numvars>>

Queues == UNION {[1..n -> Hashes] : n \in 1..QLEN}

RecvPacket(p) ==
    \/ RecvWhohas(p)
    \/ \E q \in Queues : RecvIhave(p, q)
    \/ \E hash \in Hashes : RecvGet(p, hash)
    \/ \E intact, saved \in BOOLEAN : RecvLastData(p, intact, saved)
    \/ RecvLastAck(p)
    \/ RecvAckUnmapped(p)

\* the steps of peer_run's loop that wait for nobody
Loop == NoEvent \/ InputDone \/ CheckPeer \/ CheckDone \/ RefreshPeer \/ RefreshDone

PsNext ==
    \/ \E p \in Peers : RecvPacket(p)
    \/ \E f \in GetFiles, out \in OutFiles : ProcessGet(f, out)
    \/ WhohasAges
    \/ Loop

PsSpec == PsInit /\ [][PsNext]_psvars

(***************************************************************************)
(* Fairness: the loop goes round (select() waits at most 100 ms and a user *)
(* types finitely many lines at a time), and the clock runs.               *)
(***************************************************************************)
PsFairSpec ==
    /\ PsSpec
    /\ WF_psvars(InputDone) /\ WF_psvars(CheckPeer) /\ WF_psvars(CheckDone)
    /\ WF_psvars(RefreshPeer) /\ WF_psvars(RefreshDone)
    /\ WF_psvars(NoEvent)
    /\ SF_psvars(WhohasAges)

(***************************************************************************)
(* Properties                                                              *)
(***************************************************************************)

\* Types of psvr and of the event loop's place.
PsTypeOK ==
    /\ pc \in {"select", "input", "check", "refresh", "crashed"}
    /\ idx \in 1..(NPEERS + 1) /\ ret \in {"select", "input"}
    /\ is_alive \in [Peers -> BOOLEAN]
    /\ is_downloading \in [Peers -> BOOLEAN]
    /\ is_uploading \in [Peers -> BOOLEAN]
    /\ hasqueue \in [Peers -> Seq(Hashes)]
    /\ dl \in [Peers -> [get_index : Slots, filename : OutFiles \cup {NoFile},
                         sha1 : Hashes \cup {NoHash}]]
    /\ loaded \in [Peers -> BOOLEAN]
    /\ sha1 \in [Slots -> Hashes \cup {NoHash}]
    /\ state \in [Slots -> {"unfetched", "fetching", "fetched"}]
    /\ count \in 0..MAX_CHUNK_NUM
    /\ dl_num \in Int /\ ul_num \in Int /\ dl_remain \in Int
    /\ dl_filename \in OutFiles \cup {NoFile}
    /\ written \subseteq (OutFiles \cup {NoFile}) \X (Hashes \cup {NoHash})
    /\ whohas_recent \in BOOLEAN

\* A peer with a transfer is alive: parse_packet and check_all_timeout skip
\* the others, so a transfer with a dead peer would never end, and its
\* connection would be taken for good.
BusyIsAlive == \A p \in Peers : is_downloading[p] \/ is_uploading[p] => is_alive[p]

\* dl_num counts the downloads in progress, and stays within max_conn,
\* through completions, refused hashes, failed writes and deaths.
DlNumExact ==
    /\ dl_num = Cardinality({p \in Peers : is_downloading[p]})
    /\ dl_num <= max_conn

\* The same for uploads, when no mmap fails.
UlNumExact ==
    /\ ul_num = Cardinality({p \in Peers : is_uploading[p]})
    /\ ul_num <= max_conn

\* Also when mmap fails, which start_upload does not count and kill_upload
\* does (parse_packet.c:109), ul_num never exceeds the number of peers being
\* served: no connection is taken for good by an upload that is gone, and
\* GETs are not refused without end.
NoSlotLeak == ul_num <= Cardinality({p \in Peers : is_uploading[p]})

\* A chunk marked fetching is being fetched from exactly one peer.  With no
\* such peer find_unfetched_chunk would never offer it again; with two, it
\* would be written and counted twice.
Fetchers(i) == {p \in Peers : is_downloading[p] /\ dl[p].get_index = i}
FetchingIsOwned ==
    \A i \in Slots : Cardinality(Fetchers(i)) = IF i <= count /\ state[i] = "fetching"
                                                THEN 1 ELSE 0

\* dl_remain counts the chunks still to fetch.  "GOT" is printed when it
\* reaches 0, and nothing is fetched any more.
RemainExact ==
    dl_remain = Cardinality({i \in 1..count : state[i] # "fetched"})

\* A chunk that counts as fetched is in the output file.
FetchedIsWritten ==
    \A i \in 1..count : state[i] = "fetched" => <<dl_filename, sha1[i]>> \in written

\* A fetched chunk stays fetched until the user asks for another file: no
\* late packet, timeout or retry puts it back.
FetchedStays ==
    [][\/ \E f \in GetFiles, out \in OutFiles : ProcessGet(f, out)
       \/ \A i \in 1..count : state[i] = "fetched" => state'[i] = "fetched"]_psvars

\* While chunks are missing and nobody sends any, WHOHAS is sent again and
\* again (README.md:69-71).
AsksAgain ==
    dl_remain > 0 /\ dl_num = 0 /\ ~whohas_recent
      ~> whohas_recent \/ dl_num > 0 \/ dl_remain <= 0

\* "if any unfetched chunk exists ..." (peer_server.c:234): what guards the
\* search for chunks is dl_remain > 0, so it should hold while one exists.
UnfetchedIsCounted ==
    (\E i \in 1..count : state[i] = "unfetched") => dl_remain > 0
=============================================================================
