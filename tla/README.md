# A verification of the BitTorrent-like peer in `src/`

The program is a peer of a file-sharing network over UDP. It asks the other
peers of a fixed list which of the chunks of a file they have (WHOHAS, IHAVE),
fetches each chunk of 512 KB from one of them (GET) over a TCP-like transport
of its own (DATA, ACK), checks its SHA-1 and writes it to an output file. At
the same time it serves the chunks it has. One process, one thread, one
`select` loop.

Paths below are relative to the repository; the C sources are in `src/`.

## Inventory

| Component | State | Operations | Hard part | What makes it correct |
|---|---|---|---|---|
| Sender (`upload.c`) | `upload_t`: window, threshold, status, `last_pkt_acked`, `last_pkt_sent`, `max_pkt_sent`, `max_retransmit_seq`, a timer per packet, a counter per ACK number | `ul_init`, `ul_send`, `ul_handle_ack`, `ul_loss`, `ul_check_timeout` | go-back-N with late ACKs of the first transmission, duplicate ACKs during recovery, timers | counters ordered and inside the arrays; window respected; a timer whenever something is unacknowledged; one cut per loss; the upload ends |
| Receiver (`download.c`) | `download_t`: buffer, `data_length`, timeout count | `dl_init`, `dl_recv`, `dl_loss`, `dl_check_timeout`, `dl_save_buffer` | packets out of order, repeated, of unexpected length; its own timer | every byte at its place; finished means whole; ACKs are gap-free prefixes |
| Receive window (`recv_win.c`) | circular bitmap, `front`, `next_seq` | mark, test, slide | wrap-around | the bitmap stands for the set of packets received |
| Session (`parse_packet.c`, `peer_server.c`, `send_helper.c`, `peerlist.c`, `chunklist.c`) | per peer: alive, uploading, downloading, queue of offered chunks; per chunk: unfetched, fetching, fetched; counters `dl_num`, `ul_num`, `dl_remain` | one handler per packet type, `check_all_timeout`, `refresh_chunk_download` | completion, refusal, failure and death interleave; a counter or a mark left behind is never repaired | counters exact; a chunk in flight has one peer; fetched means written; the search never stops early |
| Loop and user (`peer.c`) | place in the loop, typed lines | `peer_run`, `process_get` | a second GET during a download | chunks of a file end up in its output file |
| Codec (`packet.c`, `packet.h`, hex conversion of `chunk.c`) | none | `send_packet`, `ENCODE_PKT`, `DECODE_PKT`, `valid_packet`, `GET_HASH` ... | hash lists longer than a packet; offsets computed from lengths on the wire | every hash is sent, and comes back as it was |
| Linked list (`linkedlist.c`) | ring of nodes, `count` | insert last, remove, iterate, delete all | removal from the middle, allocation failing half-way | the pointers agree with each other and with `count` |
| Timer values (`util.c`, `util.h`) | `rtt`, `rto` | `update_rtt`, `GET_RTO`, backoff | integer division, 0 as "not measured" | the timer covers the link's delay |
| Input buffer (`input_buffer.c`) | cells, `cur` | `process_user_input` | lines cut over reads, several lines in a read, old characters behind the text | lines are handled as typed |
| SHA-1, `bt_parse.c`, logging, test programs | | | | not modelled, see below |

Interaction: the loop reads one packet, hands it to `parse_packet`, which calls
the sender or receiver of that peer and changes the session when a transfer
completes; then it handles typed lines; then `check_all_timeout` runs the
timers of every transfer, aborts those that timed out more than
`MAX_TIMEOUT_CNT` times in a row, and looks for more to download. Two programs
interact only through packets, which the network loses, duplicates and
reorders. The hazards that follow from this are listed in `PROJECT.json`, each
at the line where it bites.

## Modules

| Module | Models | State and actions |
|---|---|---|
| `TcpUtil` | `util.h`, `MAX_TIMEOUT_CNT` | `MAX`, `MIN` |
| `Upload` | `upload.c` | The C functions are operators on the `upload_t` record, under their own names. Actions: `StartUpload` (a GET is accepted), `RecvAck` (`update_upload`), `CheckUpload` (`ul_check_timeout` and the abort). |
| `RecvWin` | `recv_win.c` | Operators on the bitmap, which is the set of its set bits. |
| `Download` | `download.c` | Operators on `download_t`. A byte is represented by its offset in the chunk, so that a misplaced byte shows. Actions: `StartDownload`, `RecvData`, `CheckDownload`. |
| `Reassembly` | abstract | A receiver as a set of packet numbers and the first one missing. |
| `Transfer` | two peers, one chunk | `Upload` and `Download` joined by three channels (GET, DATA, ACK). The GET may arrive several times: each copy restarts the upload or is ignored (`parse_packet.c:82-111`). Actions: delivery, loss, the ticks of both ends. |
| `ChunkCopy` | abstract | A chunk copy: a prefix delivered, a prefix confirmed, either end may give up; the sender starts over whenever the request comes again. |
| `PeerServer` | the session and the loop of one peer | `pc`, `idx`, `ret` are the place in `peer_run` and in the loops of `check_all_timeout` and `refresh_chunk_download`; one action per packet type, per loop step and for a typed GET. |
| `Session` | two peers, a whole file | The downloading and the uploading peer as records of what each keeps of the other; `Upload` and `Download` are instances inside them. The handlers are operators on those records; every step of the downloader ends in `refresh_chunk_download`, as every turn of `peer_run` does. Actions: receipt at either end, each timer, loss, kill and respawn of either peer. |
| `PacketCodec` | `packet.c`, `packet.h`, `chunk.c` | Packets are records with a payload of bytes; a byte of a hash knows which one it is, so that a hash read at a wrong offset shows. 16-bit fields go through `htons` and `ntohs`. |
| `LinkedList` | `linkedlist.c` | `next`, `prev`, `item` of every node, and `count`. |
| `Discovery` | two peers, WHOHAS to GET | The packets of `PacketCodec` and the queue of `LinkedList`; a transfer is one step that succeeds or fails. |
| `Rtt` | `util.c`, the timer of `upload.c` | `rtt`, `timeout_cnt` and the timeouts of the packets on their way, each set when its packet was sent, in milliseconds over a link of fixed delay. Time is counted from the first of several timeouts in a row: how much was left of its timer at the last ACK depends on the window. Actions: an ACK, a repeated ACK, a timeout, a new upload. |
| `InputBuffer` | `input_buffer.c` | The cells of the buffer and `cur`; a read, one round of the loop, the end of the loop, the exit. |
| `Kept` | the loops of `send_packet` and `send_ihave` that pass on only some of a list | One operator, `kept`, which `PacketCodec` and `Session` share. |
| `UploadProofs`, `DownloadProofs`, `TransferProofs`, `PeerServerProofs`, `SessionProofs`, `DiscoveryProofs` | proofs about the module of that name | |
| `PartsProofs` | proofs about `Rtt` and `InputBuffer` | |
| `NatFacts` | facts the proofs share: the least element of a set and induction from it, indices of a ring, products and quotients, what `kept` returns | |
| `MC*` | instances for TLC | |

Abstractions, and why they lose nothing the properties speak of:

* Time. A timestamp is the fact that it was taken; "the clock has passed it"
  is a nondeterministic argument. This allows every timing, so safety holds
  for all of them. `rtt` and `rto` only decide when a timer elapses; they
  are modelled by themselves in `Rtt`. In `Session` a timer elapses only when
  nothing is on its way: its timeouts are seconds, and the question there is
  what loss and restarts do, not what slow packets do (`transfer_fifo` and
  `transfer_udp` let timers elapse at any time). Its packets may be lost but
  stay in order, so what it says of ACKs of an earlier chunk is said of a
  network that does not reorder.
* Payload. A byte is its offset (in `Session`, where chunks get mixed up,
  the number of its chunk); a chunk is its hash. The hash check succeeds
  exactly on the data that was asked for.
* In `PeerServer` the transport is reduced to the events that the session
  sees: a DATA packet that completes a download, an ACK that completes an
  upload, a transfer that timed out too often. Everything else is `NoEvent`.
  The other peers may send any valid packet at any time, which includes what
  correct peers do. An upload that may be aborted whenever it is checked
  stands for all the ways of timing out.
* Sizes. `NPKT`, `SS_THRESH`, `RECV_WINDOW_SIZE` and so on are constants of
  the modules, with the program's values in comments.
* The clock never reads 0 (`gettimeofday` does not fail), so the error path
  of `ul_send` is left out. `malloc` may fail in `parse_download`, `mmap` in
  `load_data` (`MMAP_FAILS`), `write` in `dl_save_buffer`; a failing `lseek`
  is left out.
* A node that `find_unfetched_chunk` removes is leaked. Nothing points to it,
  so `LinkedList` may use its number again.

## Runs

Passing runs:

| Run | Shows | Bounds |
|---|---|---|
| `upload` | types; counters ordered; timer armed; window respected; recovery complete; duplicate ACKs cut once; progress kept; an upload ends | 7 packets, threshold 3, 3 duplicate ACKs, 2 timeouts, `WINDOW_CAP` 6: the sender goes through all five states, leaves recovery through FR_SS and FR_CA, and fills the window beyond the chunk's tail. ACK numbers run from 0 to one past the tail. |
| `parts` | the receiver: types, bytes in place, finished means whole, implements `Reassembly`; the timers cover the delay, and an upload is given up no sooner than 992 ms after its first timeout; lines are handled as typed | one part at a time. Receiver: chunk of 9 packets, window of 4, so that the bitmap wraps twice; packet numbers 0 to 10 in any order. Timer: the program's own values, links of 8, 15, 1251 and 2500 ms, the edges of its arithmetic and of the limit of the backoff, 2 packets on their way (`FLIGHT`), so that a timer may be older than the ACK before it. Input: a buffer of 5, 6 characters in all ways of cutting them into lines and reads. |
| `transfer_udp` | sender believes only what the receiver has; a finished upload was delivered; implements `ChunkCopy` | 4 packets, 2 packets per direction in flight, 1 loss, any duplication and reordering of DATA and ACKs, a GET that arrives up to twice at any moment (`GET_COPIES`), timers at any time |
| `transfer_fifo` | both ends stop | 3 packets, queue of 3, 2 losses and every overflow of the queue, a GET that arrives up to twice, timers at any time |
| `peer` | types; `ul_num` exact; a chunk in flight has one peer; `dl_remain` exact; fetched is written and stays fetched; WHOHAS is sent again | 2 peers, 2 connections, a file of 2 chunks, IHAVEs of up to 2 hashes (`QLEN`): both chunks in flight at once, a peer that uploads and downloads, a GET that replaces an upload |
| `peer_faults` | busy peers are alive; `dl_num` exact; no upload slot is lost for good | 2 peers, 1 connection; also: GET during a download (`OVERLAP`), unreadable chunk file, mmap failure |
| `session` | an ACK of an earlier chunk or of a killed download never counts for the present one (`AcksAreOwn`); an upload ends only when the downloader has its chunk (`FinishedWasReceived`); the uploading peer takes the steps of `Upload` and no others (`SenderIsUpload`); all chunks arrive; the upload slot is given back | a file of 2 chunks of 3 packets, 3 losses, 1 kill and respawn of either peer at any moment, 2 connections; a GET is not lost while an upload runs (`LOSE_ANY_GET`, see `session_stuck`) |
| `discovery` | the queue's pointers agree; a round of WHOHAS names every unfetched chunk; offers are real; every WHOHAS, GET and IHAVE on the wire that names a hash is accepted; every chunk held is fetched | hashes of 2 bytes, 3 to a packet; lists of 3 (one hash twice), 5 and 6 chunks, so of one packet, two, and two full ones; a holder of all or of two chunks; 1 loss, 1 failure of memory or of a download |

Deadlock is checked except where the system really stops: a transfer whose two
ends are done (`transfer_*`), a file that is complete (`session*`,
`discovery`, `hashes`), and a process that crashed (`peer_faults`).

Runs that show a disagreement between the code and what the repository says
(the quotations are in `PROJECT.json`, "findings"):

| Run | What happens |
|---|---|
| `karn` | An RTT is sampled from the ACK of a packet that was sent twice: the ACK that ends recovery, when it is repeated. |
| `second_get` | A GET typed while chunks are in flight makes `dl_remain` reach 0 with a chunk still unfetched. |
| `session_stuck` | With one connection, the last ACK of a chunk is lost. The uploader still counts that upload, so it drops the GET of the next chunk (`parse_packet.c:88`) and repeats the last packet of the old one; the downloader takes it for a packet of the new chunk beyond a gap and answers ACK 0. Each clears the other's timeout count (`upload.c:154`), for ever. |
| `hashes` | The smallest list for which `pkt_num` (`packet.c:85`) is one too small: 7 chunks with 3 hashes to a packet, 371 with 74. The last chunk is in no WHOHAS; the search for it goes on for ever with empty packets. |

`session` and `session_stuck` belong together: among all schedules of the
bounded losses and restarts, the only hang is the one where the uploader still
holds an upload that the downloader has finished and never hears of the next
GET, because it drops it (one connection) or because it is lost (any number of
connections). Everything else, stale DATA of a killed upload included, ends
with the whole file.

Model bounds, all named: `WINDOW_CAP` (growth in congestion avoidance, which in
the code is unbounded; past the chunk's length a larger window sends nothing
more and only raises the threshold set at the next loss), `NET_CAP`,
`GET_COPIES`, `FLIGHT`, `MAX_LOSS`, `MAX_RESTARTS`, `MAX_FAIL`, `NODES`, `MAX_INPUT`, `QLEN`, `UL_NUM_MIN` (mmap does not fail with `ul_num` below it;
every failure followed by a GET of the same peer lowers `ul_num`, without
end), `AckNumbers` (every number past the tail is treated alike).

## Fairness

* `UlFairSpec`: `check_all_timeout` runs at least every 100 ms (`select`'s
  timeout), and the clock passes a timer that is not set again. So
  `CheckUpload` with an elapsed timer is weakly fair. Nothing is assumed of
  the receiver, which is why `UploadEnds` excepts one that sends ACK 0 for
  ever: each clears `timeout_cnt`.
* `TfFairSpec`: the same for the timers of both ends. Nothing is asked of the
  network, which may deliver or not.
* `SsFairSpec`: packets that are not lost arrive. The timer of an upload and
  that of WHOHAS are strongly fair: once set, nothing the other peer sends
  sets them again, so they pass even if the network is never quiet for long
  (an ACK of new data sets another packet's timer, and there are finitely many
  of those). The timer of a download is only weakly fair: every DATA packet
  sets it again.
* `DsFairSpec`: packets arrive, the loop goes round, the clock runs; a
  download that is served completes (that is `Transfer`'s and `Session`'s
  question), and one that is not is given up.
* `PsFairSpec`: the loop goes round, the user types finitely many lines at a
  time, the clock runs (strong fairness of `WhohasAges`, which can only be
  taken at one place of the loop).

## Proofs

What the passing runs check for one instance, TLAPS proves for every value of
the constants. The assumptions on constants (`UploadAssumption`,
`DownloadAssumption` and so on, next to the constants) say that sizes are
naturals, and not zero where the code divides or counts; TLC evaluates them.
Where a theorem needs more, it says so in its `ASSUME`:

| Hypothesis | Theorems | Why |
|---|---|---|
| `~OVERLAP` | `PeerChunks`, `PeerFetchingOwned`, `PeerRemain`, `PeerFetchedWritten`, `PeerFetchedStays` | no GET is typed while chunks are in flight; without it they are false (run `second_get`) |
| `~MMAP_FAILS` | `PeerUlNum` | a failing `mmap` leaves `ul_num` too low; `PeerNoSlotLeak` is what remains true |
| `EvenPackets` | `DownloadWhole`, `DownloadBuffer`, `DownloadFinished` | the packet length divides the chunk length: 1024 and 524288. `TransferAssumption` contains it, so `TransferProofs` needs no hypothesis |
| `EnoughPackets(Len(f))` for every file | `DiscoveryNamesAll` | the number of packets that `pkt_num` computes (`packet.c:85`) has room for every hash; false from 371 chunks on (run `hashes`). `DiscoveryProgram` replaces it by the sizes of the program and a file of at most 370 chunks |
| `DEFAULT_TIMEOUT >= 1024`, `MAX_TIMEOUT_CNT >= 5` | `RttGivesUpSlowly` | the program has 5000 and 5; with fewer or shorter timeouts 992 ms cannot pass |

**Sender** (`UploadProofs`). Theorems `UploadTypes`, `UploadOrdered`,
`UploadTimerArmed`, `UploadWindow`, `UploadRecovery`, and the action properties
`UploadProgress` and `UploadCutsOnce`. The invariant is `UlInv`; none of the
properties is inductive alone. That the timer is armed follows from the packet
after `last_pkt_acked` being sent and `seq_ts` being exactly
`1..max_pkt_sent`; that it was sent follows from `ul_send` running after every
change of the window with the window open and the chunk unfinished; that
`ul_send` does not run ahead follows from the window never closing by more than
it moves. So `UlInv` says of the record that it is `Sound` (typed, `Ordered`,
`Recovered`) and, while the upload runs, `Running` (window open, something
outstanding, not finished, timeouts within the limit). The lemmas follow the C
functions, then there is one lemma per event, then the theorem.
`UploadCutsOnce` needs that in FR_SS and FR_CA the counter restarts at or below
0 (`NoLossInRecovery`), so that one ACK cannot bring it above `MAX_DUP_ACK`,
which is at least 1.

**Receiver** (`DownloadProofs`). The bitmap is circular, so what a bit means
moves with `front`. `BitOf` says which packet a bit stands for; `MarkSound` and
`SlideSound` that marking adds one packet and sliding changes none, but puts
`next_seq` at the first gap (`RunLength`: the run of set bits from `front` has
a first end, or is the whole bitmap). The invariant `DlInv` is `Settled`: the
ACK equals `next_seq` and that packet is missing. From it `DownloadTypes`, and
`DownloadReassembles`, the refinement of `Reassembly`, both without any
hypothesis on the packets. `Whole` adds the bytes: what was received is within
the chunk, in its place, and `finished` says that nothing is missing. It needs
`EvenPackets`, because the offset of a packet is computed from the length of
the first one received, or the first after a timeout (`download.c:95`).

**Transfer** (`TransferProofs`). `TfInv` joins the two invariants above with
what is on its way: numbers of packets of the chunk, and ACKs that are at most
the receiver's present one (`ack_net \in Seq(0..ack_of(dl))`), as is
`last_pkt_acked`. This holds through loss, duplication and reordering because
the receiver's ACK only grows. The sender's own counters do not: a repeated GET
takes `last_pkt_acked`, `max_pkt_sent` and `seq_ts` back to those of a new
upload, while packets and ACKs of the one before are still on their way. They
do no harm, because a new upload believes nothing and whatever it is told is at
most what the receiver has. `AckedWasReceived` and `FinishedUploadDelivered`
follow. The same lemmas show that every step is a step of `ChunkCopy` or leaves
it alone (`TransferCopies`). One lemma per action proves both at once.

**One peer** (`PeerServerProofs`). `PeerDlNum`, `PeerUlNum` and `PeerNoSlotLeak`
rest on lemmas about how the number of busy peers changes when one flag is set
or cleared. `ChunkInv` is the invariant of the chunks: a downloading peer holds
a chunk of the current list marked fetching (`Held`), two peers never the same
one (`Alone`), a chunk marked fetching is held (`Owned`); with it `dl_remain`
is exact and what is fetched is written. Every action either leaves the chunks
alone or is one of three changes (`ChunkSteps`): a chunk is asked for, a
download ends, a new file replaces the list.

**Session** (`SessionProofs`). ACKs name no chunk, and either peer may be
killed at any moment, so the question is what an ACK on its way can still mean.
The invariant `SsInv` has three parts. `UpOK` and `DownOK` say that the two
records are in states of `Upload` and `Download`: `Sound` and, during an
upload, `Running` as in `UploadProofs`; `Settled`, inside the chunk, and during
a download not complete, as in `DownloadProofs`. The queues hold only packets
with numbers the other end can index. `Own` says that an ACK which no GET
follows is at most what the running download has: the queue keeps its order, so
a GET fences off all that was sent before it (`OwnAfterGet`), what is appended
later is this download's (`OwnMore`), its ACK only grows (`OwnLater`,
`RecvStep`), and taking or losing the first packet removes no fence behind
another (`OwnTail`). `AcksAreOwn` alone is not inductive: that the ACK only
grows needs the window, and that a running download is never complete
(`Waiting`) is what makes `SessionDelivered` follow: the ACK that ends an
upload is at least `NPKT` (`AckEnds`), the ones of a running download are less.
The handlers are operators on records of the transport, so the lemmas of
`UploadProofs` and `DownloadProofs` are used as they stand, through instances
`UP` and `DP` of those modules; `SameUpload` and `SameDownload` say that the
instances are about the operators the peers use. `SessionSender` is the
refinement of `Upload` by the uploading peer, restarts apart: no order of
packets makes it take a step the sender alone could not. There is no hypothesis
on the constants beyond `SessionAssumption`.

**Timer** (`PartsProofs`). The estimate never falls below `floor_of(delay)`, the
delay rounded down to a multiple of 8 or the limit of the backoff if that is
less: the average of such an estimate and such a sample is one again
(`AverageAboveFloor`), and `GET_RTO` doubles, so that every timer on its way is
at least twice the floor, whichever estimate it was made of. `RttGivesUpSlowly`
counts: after n timeouts in a row the estimate has doubled n times, and each
timeout after the first came a whole timer later. The first counts for nothing,
because its timer was set before the last ACK (`upload.c:95`).

**Input** (`PartsProofs`). While the text never filled more than half of
the buffer, `memmove` cannot bring old text back, so the buffer is `Clean`:
text up to `cur`, NULs behind it. `InputLines` follows for every buffer size.

**Discovery, linked list and codec** (`DiscoveryProofs`). A recursive
definition (`walk`, `filled`, `kept`) is a `CHOOSE`, so its equation is worth
nothing before a solution is known to exist; `ChainIs`, `BuiltIs` and
`SiftedIs` show that one does, by the least place that would have none.
`Ring` names the nodes of a list in order; `RingWalk` says that both walks meet
them, `RingIteration` that an iteration does, `InsertRow` and `RemoveRing` that
insertion at the end and removal from the middle leave a ring. For packets,
`HeaderArrives`, `CountArrives`, `HashArrives` and `ValidArrives` say that what
`send_packet` puts in is what the macros of the receiver read out, for every
size of hash, count, header and packet; `SendSound` that a list of any length is
cut into packets that fit. The invariant `DsInv` says that the queue is a ring
of chunks the holder has, and that every packet on its way is one of
`send_packet`. `DiscoveryAssumption` asks for a node for each hash of a packet
(`NODES` is a model bound; the code allocates). Of the 16-bit fields nothing
is assumed beyond `PACKET_SIZE` fitting them.

`DiscoveryNamesAll` says that the packets of a round, put end to end, are the
list of unfetched chunks. That is an induction over the packets. `Upward`
(`NatFacts`) is induction as a statement about a set of numbers, which the
provers can use where the library's theorem, with its operator parameter, they
cannot. `KeptConcat` says that what is kept of two lists in a row is what is
kept of each; `FlattenIs` that a flattened sequence of sequences is the last of
any chain that starts with the first and appends one more at each place, because the
recursive equation has one solution; `SlotsJoin` that the slots of packet i + 1
begin where those of packet i end. With `PacketReads` (the receiver reads from
packet i exactly the unfetched chunks of its slots) `RoundReads` follows: after
i packets, what was read is what is kept of the first slots of the list.

Only model-checked: liveness (`UploadEnds`, `BothEnd`, `AsksAgain`,
`AllFetched`, `SlotReleased`, `HeldIsFetched`), which is out of the prover's
reach. Every other property of a passing run is stated by a theorem.

## Plan

Done: all components with state are modelled; the abstract specifications of
the receiver and of a transfer are stated, checked and proved to be
implemented; every safety property that a passing run checks is proved.

Next, if the code grows: `Session` over a network that reorders, which would
show what the missing chunk number in ACK packets costs there, and several
downloading peers that compete for the upload slots of one.

## Not modelled

* SHA-1 (`sha.c`, third-party) and `make_chunks.c`: pure computation. A hash is
  taken to tell chunks apart.
* `bt_parse.c`: reads the command line and the peer list once, before the loop;
  its results are constants of the models.
* Logging, dumps and the window-size file: output only.
* `spiffy.c`: wraps `sendto` and `recvfrom` for the simulator. `hupsim.pl` is
  modelled as a bounded queue that drops; its routing and rates are not.
* The test programs.
* Extended headers (`hdr_len` above 16) and packets of other implementations:
  the models exchange the packets this program builds.
* Chunk files in upper case: `Discovery` has the constant `UPPER`, and with it
  `HeldIsFetched` fails, because hashes come back from the wire in lower case
  and are compared with `strcmp`. The tools of the repository write lower case.
* A shorter last DATA packet: `Download` allows for one (`PAYLOAD` not dividing
  `BT_CHUNK_SIZE`), and after a timeout `data_length` then shrinks
  (`download.c:95`). This program's packets are all 1024 bytes, which is the
  hypothesis `EvenPackets` of the proofs.
